---------------------------- MODULE Credentials ----------------------------
(***************************************************************************)
(* The credentials of one node, from its enrolment on.  The operator's     *)
(* command (cmd/add.go, cmd/creds.go) has the registry issue a pair of     *)
(* certificate and key (registry/peer_api) and writes it to two files,     *)
(* which the node is given.  The node (node-utils/lib.go) copies them to   *)
(* its state directory, whose files it prefers from then on, and replaces  *)
(* them by the pairs that the registry's Config returns (agent_api/        *)
(* node_api.go) when half the validity of a certificate is over.           *)
(*                                                                         *)
(* A pair is a number; a file holds the half of one.  The clock counts     *)
(* halves of NodeCertificateExpiry.                                        *)
(***************************************************************************)
EXTENDS Naturals, Sequences

CONSTANTS
    Agents,      \* the role in the certificate: its length and rank in DER's order
    Datacenter,  \* the datacenter of the node, likewise
    None,        \* no file, no pair
    Torn,        \* the content of a file whose writing was interrupted
    MaxIssued,   \* bound: pairs
    MaxTime,     \* bound: the clock
    MaxFaults    \* bound: crashes and writes that fail

ASSUME NoneAssumption == {None, Torn} \cap Nat = {} /\ None # Torn

ASSUME BoundsAssumption == {MaxIssued, MaxTime, MaxFaults} \subseteq Nat

VARIABLES
    enrolled,   \* the nodes key of the node exists
    born,       \* when each pair was issued
    clock,
    provided,   \* the files the operator's command writes
    writing,    \* the pair whose certificate it has written and whose key it has not
    disk,       \* the files in the state directory
    pc,         \* the node: "down", "reading", "starting", "up"
    read,       \* the certificate it has read
    mem,        \* credentials
    store,      \* the file it writes next: "crt", "key", "none"
    conn,       \* the pair its connection was opened with
    refreshed,  \* Config has answered this process since the clock last moved
    broken,     \* a write to the state directory has been interrupted or has failed
    faults

registry == <<enrolled, born, clock>>
operator == <<provided, writing>>
vars == <<enrolled, born, clock, provided, writing, disk, pc, read, mem, store, conn,
          refreshed, broken, faults>>

Pair == 1 .. MaxIssued

Files == [crt : Pair \cup {None, Torn}, key : Pair \cup {None, Torn}]

NoFiles == [crt |-> None, key |-> None]

TypeOK ==
    /\ enrolled \in BOOLEAN
    /\ born \in Seq(0 .. MaxTime) /\ Len(born) <= MaxIssued
    /\ clock \in 0 .. MaxTime
    /\ provided \in Files
    /\ writing \in Pair \cup {None}
    /\ disk \in Files
    /\ pc \in {"down", "reading", "starting", "up"}
    /\ read \in Pair \cup {None, Torn}
    /\ mem \in Pair \cup {None}
    /\ store \in {"crt", "key", "none"}
    /\ conn \in Pair \cup {None}
    /\ refreshed \in BOOLEAN /\ broken \in BOOLEAN
    /\ faults \in 0 .. MaxFaults

Init ==
    /\ enrolled = FALSE /\ born = <<>> /\ clock = 0
    /\ provided = NoFiles /\ writing = None
    /\ disk = NoFiles
    /\ pc = "down" /\ read = None /\ mem = None /\ store = "none" /\ conn = None
    /\ refreshed = FALSE /\ broken = FALSE /\ faults = 0
-----------------------------------------------------------------------------
(* The registry. *)

\* CreateNodeCrt: a new pair.
CreateNodeCrt ==
    /\ Len(born) < MaxIssued
    /\ born' = Append(born, clock)

NewPair == Len(born) + 1

Age(i) == clock - born[i]

Expired(i) == Age(i) >= 2

DerLess(a, b) ==
    a.length < b.length \/ (a.length = b.length /\ a.rank < b.rank)

\* The OU list of a certificate is encoded as a DER set, which is sorted.
OrganizationalUnit(implicit, dc) ==
    IF DerLess(dc, implicit) THEN <<dc, implicit>> ELSE <<implicit, dc>>

\* AuthenticateNodeFromCertificate looks for the node in the datacenter it reads
\* from the first place.
Authenticated ==
    enrolled /\ OrganizationalUnit(Agents, Datacenter)[1] = Datacenter
-----------------------------------------------------------------------------
(* The operator. *)

WriteCertificate(i) ==
    /\ provided' = [provided EXCEPT !.crt = i]
    /\ writing' = i

\* ssle-cli node add: creates the node if there is none of its name.  The answer may
\* be lost; then the pair is, too, and to add it again is an error.
AddNode ==
    /\ writing = None /\ ~enrolled
    /\ enrolled' = TRUE
    /\ CreateNodeCrt
    /\ WriteCertificate(NewPair) \/ UNCHANGED operator
    /\ UNCHANGED <<clock, disk, pc, read, mem, store, conn, refreshed, broken, faults>>

\* ssle-cli node creds
GetNodeCredentials ==
    /\ writing = None /\ enrolled
    /\ CreateNodeCrt
    /\ WriteCertificate(NewPair)
    /\ UNCHANGED <<enrolled, clock, disk, pc, read, mem, store, conn, refreshed, broken,
                   faults>>

\* The key follows, unless the command fails.
WriteNodeKey ==
    /\ writing # None
    /\ \/ provided' = [provided EXCEPT !.key = writing] /\ UNCHANGED faults
       \/ faults < MaxFaults /\ faults' = faults + 1 /\ UNCHANGED provided
    /\ writing' = None
    /\ UNCHANGED <<registry, disk, pc, read, mem, store, conn, refreshed, broken>>
-----------------------------------------------------------------------------
(* The node. *)

\* Fault: a provided file wins over that of the state directory.
ProvidedSource(file) == IF provided[file] # None THEN provided[file] ELSE disk[file]

Source(file) == IF disk[file] # None THEN disk[file] ELSE provided[file]

\* loadNodeCrt: a missing file is fatal.
ReadCertificate ==
    /\ pc = "down" /\ Source("crt") # None
    /\ read' = Source("crt")
    /\ pc' = "reading"
    /\ UNCHANGED <<registry, operator, disk, mem, store, conn, refreshed, broken, faults>>

\* Fault: the pair is not checked.
AnyPair(crt, key) == key # None

\* X509KeyPair
KeyPair(crt, key) == crt = key /\ key \in Pair

\* loadNodeCrt: files that do not match are fatal.
ReadKey ==
    /\ pc = "reading"
    /\ IF KeyPair(read, Source("key"))
       THEN pc' = "starting" /\ mem' = Source("key") /\ store' = "crt"
       ELSE pc' = "down" /\ UNCHANGED <<mem, store>>
    /\ read' = None
    /\ UNCHANGED <<registry, operator, disk, conn, refreshed, broken, faults>>

\* The files are written one after the other, by loadNodeCrt and UpdateCredentials.
Write(file, after) ==
    /\ store = file
    /\ disk' = [disk EXCEPT ![file] = mem]
    /\ store' = after
    /\ UNCHANGED <<registry, operator, read, mem, conn, refreshed, broken, faults>>

WriteStoredCrt == Write("crt", "key") /\ UNCHANGED pc

WriteStoredKey == Write("key", "none") /\ pc' = "up"

\* UpdateCredentials only logs that a write failed.
WriteFails ==
    /\ pc = "up" /\ store # "none"
    /\ faults < MaxFaults /\ faults' = faults + 1
    /\ disk' \in {disk, [disk EXCEPT ![store] = Torn]}
    /\ store' = IF store = "crt" THEN "key" ELSE "none"
    /\ broken' = TRUE
    /\ UNCHANGED <<registry, operator, pc, read, mem, conn, refreshed>>

\* The registry checks at the handshake that the certificate is valid.
Connect ==
    /\ pc = "up" /\ conn = None /\ ~Expired(mem)
    /\ conn' = mem
    /\ UNCHANGED <<registry, operator, disk, pc, read, mem, store, refreshed, broken, faults>>

Disconnect ==
    /\ conn # None
    /\ conn' = None
    /\ UNCHANGED <<registry, operator, disk, pc, read, mem, store, refreshed, broken, faults>>

\* Fault: a certificate is only replaced when it has expired.
ExpiredAlready(i) == Age(i) >= 2

RenewDue(i) == Age(i) >= 1

\* Fault: new credentials stay in memory.
StoreNothing == "none"

FirstFile == "crt"

\* GetRegistryConfig: Config decides by the certificate of the connection; the node
\* uses a new pair at once, and writes it down.
Config ==
    /\ pc = "up" /\ store = "none" /\ conn # None /\ Authenticated
    /\ refreshed' = TRUE
    /\ IF RenewDue(conn)
       THEN CreateNodeCrt /\ mem' = NewPair /\ store' = FirstFile
       ELSE UNCHANGED <<born, mem, store>>
    /\ UNCHANGED <<enrolled, clock, operator, disk, pc, read, conn, broken, faults>>

\* The node ends or dies, perhaps in the middle of a write.
Crash ==
    /\ pc # "down"
    /\ faults < MaxFaults /\ faults' = faults + 1
    /\ \/ UNCHANGED disk
       \/ store # "none" /\ disk' = [disk EXCEPT ![store] = Torn]
    /\ broken' = (broken \/ store # "none")
    /\ pc' = "down" /\ read' = None /\ mem' = None /\ store' = "none" /\ conn' = None
    /\ refreshed' = FALSE
    /\ UNCHANGED <<registry, operator>>

Tick ==
    /\ clock < MaxTime /\ store = "none"
    /\ clock' = clock + 1
    /\ refreshed' = FALSE
    /\ UNCHANGED <<enrolled, born, operator, disk, pc, read, mem, store, conn, broken, faults>>

Next ==
    \/ AddNode \/ GetNodeCredentials \/ WriteNodeKey
    \/ ReadCertificate \/ ReadKey
    \/ WriteStoredCrt \/ WriteStoredKey \/ WriteFails
    \/ Connect \/ Disconnect \/ Config
    \/ Crash \/ Tick

Spec == Init /\ [][Next]_vars
-----------------------------------------------------------------------------
(* The inductive invariant *)

\* Pairs are issued in the order of their numbers, and are used once they are issued.
Issued ==
    /\ \A i \in DOMAIN born : born[i] <= clock
    /\ \A i, j \in DOMAIN born : i <= j => born[i] <= born[j]
    /\ mem # None => mem \in DOMAIN born
    /\ \A file \in {"crt", "key"} :
          provided[file] # None => provided[file] \in DOMAIN born
    /\ \A file \in {"crt", "key"} :
          disk[file] \in Pair => disk[file] \in DOMAIN born
    /\ writing # None => writing \in DOMAIN born

\* A process that is past loadNodeCrt has a pair; it does not serve before both files
\* are written.
Loaded ==
    /\ (mem # None) = (pc \in {"starting", "up"})
    /\ store # "none" => pc \in {"starting", "up"}
    /\ pc = "starting" => store # "none"

\* What the state directory holds before, between and after the two writes.
Stored ==
    ~broken =>
        /\ Torn \notin {disk.crt, disk.key}
        /\ store # "key" => disk.crt = disk.key
        /\ store = "key" => disk.crt = mem
        /\ pc = "up" /\ store = "none" => disk.crt = mem

\* The certificate that ReadKey will compare is the stored one, if there is one.
ReadStored == ~broken /\ pc = "reading" /\ disk.crt # None => read = disk.crt

\* A connection is never newer than the credentials; an answer leaves them fresh.
Fresh ==
    /\ conn # None => pc = "up" /\ conn <= mem
    /\ refreshed => pc = "up" /\ born[mem] = clock

IInv == TypeOK /\ Issued /\ Loaded /\ Stored /\ ReadStored /\ Fresh
-----------------------------------------------------------------------------
(* Properties *)

\* loadNodeCrt and UpdateCredentials keep in the state directory the pair that the
\* node uses, the newest: unless a write was interrupted or failed, both files hold
\* it whenever the node is not between the two writes, whatever the operator does.
NewestKept ==
    ~broken /\ store = "none" =>
        disk.crt = disk.key /\ (pc = "up" => disk.crt = mem)

\* loadNodeCrt: a node that has once started can load its credentials again, although
\* it takes each file from where it finds it and the operator may be writing others.
StartsAgain ==
    ~broken /\ pc \in {"down", "reading"} /\ disk.crt # None =>
        KeyPair(Source("crt"), Source("key"))

\* Config and GetRegistryConfig: while the node runs and gets an answer in every half
\* of the validity, its credentials never expire, so that it can always reconnect,
\* although the decision is made by the certificate of an older connection.
CredentialsLast ==
    [][refreshed /\ pc = "up" /\ pc' = "up" /\ ~Expired(mem) => ~Expired(mem)']_vars
=============================================================================
