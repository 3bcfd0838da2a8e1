-------------------------- MODULE CredentialsProofs --------------------------
(***************************************************************************)
(* Proofs about Credentials, for any role and datacenter, any number of    *)
(* pairs and any bounds on the clock and on the faults.                    *)
(***************************************************************************)
EXTENDS Credentials, TLAPS

LEMMA Bounds == MaxIssued \in Nat /\ MaxTime \in Nat /\ MaxFaults \in Nat
  BY BoundsAssumption

LEMMA InitIInv == Init => IInv
  <1> SUFFICES ASSUME Init PROVE IInv
    OBVIOUS
  <1>1. TypeOK
    <2>1. born \in Seq(0 .. MaxTime) /\ Len(born) <= MaxIssued
      BY Bounds DEF Init
    <2>2. clock \in 0 .. MaxTime /\ faults \in 0 .. MaxFaults
      BY Bounds DEF Init
    <2>3. provided \in Files /\ disk \in Files
      BY DEF Init, Files, NoFiles
    <2> QED
      BY <2>1, <2>2, <2>3 DEF Init, TypeOK
  <1>2. DOMAIN born = {} /\ None \notin Pair
    BY NoneAssumption, Bounds DEF Init, Pair
  <1>3. Issued
    BY <1>2 DEF Init, Issued, NoFiles
  <1>4. Loaded /\ Stored /\ ReadStored /\ Fresh
    BY NoneAssumption DEF Init, NoFiles, Loaded, Stored, ReadStored, Fresh
  <1> QED
    BY <1>1, <1>3, <1>4 DEF IInv

(* A pair is issued after all others, at the present time. *)
LEMMA CreateAppends ==
  ASSUME TypeOK, CreateNodeCrt
  PROVE  /\ born' \in Seq(0 .. MaxTime) /\ Len(born') <= MaxIssued
         /\ NewPair \in Pair /\ NewPair \notin DOMAIN born
         /\ DOMAIN born' = DOMAIN born \cup {NewPair}
         /\ born'[NewPair] = clock
         /\ \A i \in DOMAIN born : i < NewPair /\ born'[i] = born[i]
  BY Bounds DEF TypeOK, CreateNodeCrt, NewPair, Pair

(* The pairs issued are numbers that the bound allows. *)
LEMMA IssuedPairs ==
  ASSUME TypeOK
  PROVE  /\ DOMAIN born \subseteq Pair /\ Pair \subseteq Nat
         /\ \A i \in DOMAIN born : born[i] \in Nat
         /\ None \notin Pair /\ Torn \notin Pair /\ None # Torn
         /\ clock \in Nat
  BY NoneAssumption, Bounds DEF TypeOK, Pair

LEMMA AddNodeKeeps ==
  ASSUME IInv, AddNode
  PROVE  IInv'
  <1> USE IssuedPairs DEF IInv
  <1>1. TypeOK'
    BY CreateAppends, Bounds DEF AddNode, registry, operator, WriteCertificate,
           TypeOK, Files, Loaded
  <1>2. Issued'
    <2>1. /\ \A i \in DOMAIN born' : born'[i] <= clock'
          /\ \A i, j \in DOMAIN born' : i <= j => born'[i] <= born'[j]
      BY CreateAppends DEF AddNode, Issued
    <2>2. writing' # None => writing' \in DOMAIN born'
      BY CreateAppends DEF AddNode, operator, WriteCertificate, Issued
    <2>3. \A file \in {"crt", "key"} :
             provided'[file] # None => provided'[file] \in DOMAIN born'
      BY CreateAppends DEF AddNode, operator, WriteCertificate, Issued, TypeOK, Files
    <2> QED
      BY <2>1, <2>2, <2>3, CreateAppends DEF AddNode, Issued
  <1>3. Loaded'
    BY CreateAppends DEF AddNode, registry, operator, WriteCertificate, Loaded, TypeOK
  <1>4. Stored'
    BY DEF AddNode, registry, operator, WriteCertificate, Stored, Loaded, TypeOK,
           Files
  <1>5. ReadStored'
    BY DEF AddNode, registry, operator, WriteCertificate, ReadStored, Loaded, TypeOK,
           Files
  <1>6. Fresh'
    BY CreateAppends DEF AddNode, registry, operator, WriteCertificate, Fresh, Loaded,
           Issued, TypeOK
  <1> QED
    BY <1>1, <1>2, <1>3, <1>4, <1>5, <1>6

LEMMA GetNodeCredentialsKeeps ==
  ASSUME IInv, GetNodeCredentials
  PROVE  IInv'
  <1> USE IssuedPairs DEF IInv
  <1>1. TypeOK'
    <2>1. provided' \in Files /\ writing' \in Pair
      BY CreateAppends DEF GetNodeCredentials, WriteCertificate, TypeOK, Files
    <2> QED
      BY <2>1, CreateAppends DEF GetNodeCredentials, TypeOK
  <1>2. Issued'
    BY SMTT(30), CreateAppends
    DEF GetNodeCredentials, registry, operator, WriteCertificate, Issued, TypeOK, Files
  <1>3. Loaded'
    BY CreateAppends DEF GetNodeCredentials, registry, operator, WriteCertificate,
           Loaded, TypeOK
  <1>4. Stored'
    BY DEF GetNodeCredentials, registry, operator, WriteCertificate, Stored, Loaded,
           TypeOK, Files
  <1>5. ReadStored'
    BY DEF GetNodeCredentials, registry, operator, WriteCertificate, ReadStored,
           Loaded, TypeOK, Files
  <1>6. Fresh'
    BY CreateAppends DEF GetNodeCredentials, registry, operator, WriteCertificate,
           Fresh, Loaded, Issued, TypeOK
  <1> QED
    BY <1>1, <1>2, <1>3, <1>4, <1>5, <1>6

LEMMA WriteNodeKeyKeeps ==
  ASSUME IInv, WriteNodeKey
  PROVE  IInv'
  <1> USE IssuedPairs DEF IInv
  <1>1. TypeOK'
    BY SMTT(30), Bounds DEF WriteNodeKey, registry, operator, TypeOK, Files, Loaded
  <1>2. Issued'
    BY DEF WriteNodeKey, registry, operator, Issued, TypeOK, Files
  <1>3. Loaded'
    BY DEF WriteNodeKey, registry, operator, Loaded, TypeOK
  <1>4. Stored'
    BY DEF WriteNodeKey, registry, operator, Stored, Loaded, TypeOK, Files
  <1>5. ReadStored'
    BY DEF WriteNodeKey, registry, operator, ReadStored, Loaded, TypeOK, Files
  <1>6. Fresh'
    BY DEF WriteNodeKey, registry, operator, Fresh, Loaded, Issued, TypeOK
  <1> QED
    BY <1>1, <1>2, <1>3, <1>4, <1>5, <1>6

LEMMA ReadCertificateKeeps ==
  ASSUME IInv, ReadCertificate
  PROVE  IInv'
  <1> USE IssuedPairs DEF IInv
  <1>1. TypeOK'
    BY Bounds DEF ReadCertificate, registry, operator, Source, TypeOK, Files, Loaded
  <1>2. Issued'
    BY DEF ReadCertificate, registry, operator, Source, Issued, TypeOK, Files
  <1>3. Loaded'
    BY DEF ReadCertificate, registry, operator, Source, Loaded, TypeOK
  <1>4. Stored'
    BY DEF ReadCertificate, registry, operator, Source, Stored, Loaded, TypeOK, Files
  <1>5. ReadStored'
    BY DEF ReadCertificate, registry, operator, Source, ReadStored, Loaded, TypeOK,
           Files
  <1>6. Fresh'
    BY DEF ReadCertificate, registry, operator, Source, Fresh, Loaded, Issued, TypeOK
  <1> QED
    BY <1>1, <1>2, <1>3, <1>4, <1>5, <1>6

LEMMA ReadKeyKeeps ==
  ASSUME IInv, ReadKey
  PROVE  IInv'
  <1> USE IssuedPairs DEF IInv
  <1>1. TypeOK'
    BY Bounds DEF ReadKey, registry, operator, Source, KeyPair, TypeOK, Files, Loaded
  <1>2. Issued'
    BY DEF ReadKey, registry, operator, Source, KeyPair, Issued, TypeOK, Files
  <1>3. Loaded'
    BY DEF ReadKey, registry, operator, Source, KeyPair, Loaded, TypeOK
  <1>4. Stored'
    BY DEF ReadKey, registry, operator, Source, KeyPair, Stored, Loaded, TypeOK, Files
  <1>5. ReadStored'
    BY DEF ReadKey, registry, operator, Source, KeyPair, ReadStored, Loaded, TypeOK,
           Files
  <1>6. Fresh'
    BY DEF ReadKey, registry, operator, Source, KeyPair, Fresh, Loaded, Issued, TypeOK
  <1> QED
    BY <1>1, <1>2, <1>3, <1>4, <1>5, <1>6

LEMMA WriteStoredCrtKeeps ==
  ASSUME IInv, WriteStoredCrt
  PROVE  IInv'
  <1> USE IssuedPairs DEF IInv
  <1>1. TypeOK'
    BY SMTT(30), Bounds DEF WriteStoredCrt, registry, operator, Write, TypeOK, Files, Loaded
  <1>2. Issued'
    BY DEF WriteStoredCrt, registry, operator, Write, Issued, TypeOK, Files
  <1>3. Loaded'
    BY DEF WriteStoredCrt, registry, operator, Write, Loaded, TypeOK
  <1>4. Stored'
    BY DEF WriteStoredCrt, registry, operator, Write, Stored, Loaded, TypeOK, Files
  <1>5. ReadStored'
    BY DEF WriteStoredCrt, registry, operator, Write, ReadStored, Loaded, TypeOK,
           Files
  <1>6. Fresh'
    BY DEF WriteStoredCrt, registry, operator, Write, Fresh, Loaded, Issued, TypeOK
  <1> QED
    BY <1>1, <1>2, <1>3, <1>4, <1>5, <1>6

LEMMA WriteStoredKeyKeeps ==
  ASSUME IInv, WriteStoredKey
  PROVE  IInv'
  <1> USE IssuedPairs DEF IInv
  <1>1. TypeOK'
    BY Bounds DEF WriteStoredKey, registry, operator, Write, TypeOK, Files, Loaded
  <1>2. Issued'
    BY DEF WriteStoredKey, registry, operator, Write, Issued, TypeOK, Files
  <1>3. Loaded'
    BY DEF WriteStoredKey, registry, operator, Write, Loaded, TypeOK
  <1>4. Stored'
    BY DEF WriteStoredKey, registry, operator, Write, Stored, Loaded, TypeOK, Files
  <1>5. ReadStored'
    BY DEF WriteStoredKey, registry, operator, Write, ReadStored, Loaded, TypeOK,
           Files
  <1>6. Fresh'
    BY DEF WriteStoredKey, registry, operator, Write, Fresh, Loaded, Issued, TypeOK
  <1> QED
    BY <1>1, <1>2, <1>3, <1>4, <1>5, <1>6

LEMMA WriteFailsKeeps ==
  ASSUME IInv, WriteFails
  PROVE  IInv'
  <1> USE IssuedPairs DEF IInv
  <1>1. TypeOK'
    BY Bounds DEF WriteFails, registry, operator, TypeOK, Files, Loaded
  <1>2. Issued'
    BY DEF WriteFails, registry, operator, Issued, TypeOK, Files
  <1>3. Loaded'
    BY DEF WriteFails, registry, operator, Loaded, TypeOK
  <1>4. Stored'
    BY DEF WriteFails, registry, operator, Stored, Loaded, TypeOK, Files
  <1>5. ReadStored'
    BY DEF WriteFails, registry, operator, ReadStored, Loaded, TypeOK, Files
  <1>6. Fresh'
    BY DEF WriteFails, registry, operator, Fresh, Loaded, Issued, TypeOK
  <1> QED
    BY <1>1, <1>2, <1>3, <1>4, <1>5, <1>6

LEMMA ConnectKeeps ==
  ASSUME IInv, Connect
  PROVE  IInv'
  <1> USE IssuedPairs DEF IInv
  <1>1. TypeOK'
    BY Bounds DEF Connect, registry, operator, TypeOK, Files, Loaded
  <1>2. Issued'
    BY DEF Connect, registry, operator, Issued, TypeOK, Files
  <1>3. Loaded'
    BY DEF Connect, registry, operator, Loaded, TypeOK
  <1>4. Stored'
    BY DEF Connect, registry, operator, Stored, Loaded, TypeOK, Files
  <1>5. ReadStored'
    BY DEF Connect, registry, operator, ReadStored, Loaded, TypeOK, Files
  <1>6. Fresh'
    BY DEF Connect, registry, operator, Fresh, Loaded, Issued, TypeOK
  <1> QED
    BY <1>1, <1>2, <1>3, <1>4, <1>5, <1>6

LEMMA DisconnectKeeps ==
  ASSUME IInv, Disconnect
  PROVE  IInv'
  <1> USE IssuedPairs DEF IInv
  <1>1. TypeOK'
    BY Bounds DEF Disconnect, registry, operator, TypeOK, Files, Loaded
  <1>2. Issued'
    BY DEF Disconnect, registry, operator, Issued, TypeOK, Files
  <1>3. Loaded'
    BY DEF Disconnect, registry, operator, Loaded, TypeOK
  <1>4. Stored'
    BY DEF Disconnect, registry, operator, Stored, Loaded, TypeOK, Files
  <1>5. ReadStored'
    BY DEF Disconnect, registry, operator, ReadStored, Loaded, TypeOK, Files
  <1>6. Fresh'
    BY DEF Disconnect, registry, operator, Fresh, Loaded, Issued, TypeOK
  <1> QED
    BY <1>1, <1>2, <1>3, <1>4, <1>5, <1>6

LEMMA ConfigKeeps ==
  ASSUME IInv, Config
  PROVE  IInv'
  <1> USE IssuedPairs DEF IInv
  <1>1. TypeOK'
    BY CreateAppends, Bounds DEF Config, registry, operator, FirstFile, TypeOK, Files,
           Loaded
  <1>2. Issued'
    BY SMTT(30), CreateAppends
    DEF Config, registry, operator, FirstFile, Issued, TypeOK, Files
  <1>3. Loaded'
    BY CreateAppends DEF Config, registry, operator, FirstFile, Loaded, TypeOK
  <1>4. Stored'
    BY DEF Config, registry, operator, FirstFile, Stored, Loaded, TypeOK, Files
  <1>5. ReadStored'
    BY DEF Config, registry, operator, FirstFile, ReadStored, Loaded, TypeOK, Files
  <1>6. Fresh'
    <2>1. CASE RenewDue(conn)
      <3>1. mem \in DOMAIN born /\ conn \in Nat /\ conn <= mem
        BY DEF Config, Fresh, Issued, Loaded, TypeOK, Pair
      <3>2. CreateNodeCrt /\ mem' = NewPair
        BY <2>1 DEF Config
      <3>3. mem' \in Nat /\ conn <= mem' /\ born'[mem'] = clock
        BY <3>1, <3>2, CreateAppends
      <3> QED
        BY <3>3 DEF Config, Fresh
    <2>2. CASE ~RenewDue(conn)
      <3>1. /\ mem \in DOMAIN born /\ conn \in DOMAIN born /\ conn <= mem
            /\ born[mem] <= clock
        BY DEF Config, Fresh, Issued, Loaded, TypeOK, Pair
      <3>2. born[conn] <= born[mem]
        BY <3>1 DEF Issued
      <3>3. born[mem] = clock
        BY <2>2, <3>1, <3>2 DEF RenewDue, Age
      <3> QED
        BY <2>2, <3>3 DEF Config, Fresh
    <2> QED
      BY <2>1, <2>2
  <1> QED
    BY <1>1, <1>2, <1>3, <1>4, <1>5, <1>6

LEMMA CrashKeeps ==
  ASSUME IInv, Crash
  PROVE  IInv'
  <1> USE IssuedPairs DEF IInv
  <1>1. TypeOK'
    <2>1. disk' \in Files
      <3>1. CASE UNCHANGED disk
        BY <3>1 DEF TypeOK
      <3>2. CASE store # "none" /\ disk' = [disk EXCEPT ![store] = Torn]
        BY <3>2 DEF TypeOK, Files
      <3> QED
        BY <3>1, <3>2 DEF Crash
    <2>2. faults' \in 0 .. MaxFaults
      BY Bounds DEF Crash, TypeOK
    <2> QED
      BY <2>1, <2>2 DEF Crash, registry, operator, TypeOK
  <1>2. Issued'
    BY DEF Crash, registry, operator, Issued, TypeOK, Files
  <1>3. Loaded'
    BY DEF Crash, registry, operator, Loaded, TypeOK
  <1>4. Stored'
    BY DEF Crash, registry, operator, Stored, Loaded, TypeOK, Files
  <1>5. ReadStored'
    BY DEF Crash, registry, operator, ReadStored, Loaded, TypeOK, Files
  <1>6. Fresh'
    BY DEF Crash, registry, operator, Fresh, Loaded, Issued, TypeOK
  <1> QED
    BY <1>1, <1>2, <1>3, <1>4, <1>5, <1>6

LEMMA TickKeeps ==
  ASSUME IInv, Tick
  PROVE  IInv'
  <1> USE IssuedPairs DEF IInv
  <1>1. TypeOK'
    <2>1. clock' \in 0 .. MaxTime
      BY Bounds DEF Tick, TypeOK
    <2> QED
      BY <2>1 DEF Tick, operator, TypeOK
  <1>2. Issued'
    BY DEF Tick, registry, operator, Issued, TypeOK, Files
  <1>3. Loaded'
    BY DEF Tick, registry, operator, Loaded, TypeOK
  <1>4. Stored'
    BY DEF Tick, registry, operator, Stored, Loaded, TypeOK, Files
  <1>5. ReadStored'
    BY DEF Tick, registry, operator, ReadStored, Loaded, TypeOK, Files
  <1>6. Fresh'
    BY DEF Tick, registry, operator, Fresh, Loaded, Issued, TypeOK
  <1> QED
    BY <1>1, <1>2, <1>3, <1>4, <1>5, <1>6

LEMMA StutterKeeps ==
  ASSUME IInv, UNCHANGED vars
  PROVE  IInv'
  BY DEF vars, IInv, TypeOK, Files, Issued, Loaded, Stored, ReadStored, Fresh

LEMMA NextKeeps == IInv /\ [Next]_vars => IInv'
  BY AddNodeKeeps, GetNodeCredentialsKeeps, WriteNodeKeyKeeps, ReadCertificateKeeps,
     ReadKeyKeeps, WriteStoredCrtKeeps, WriteStoredKeyKeeps, WriteFailsKeeps,
     ConnectKeeps, DisconnectKeeps, ConfigKeeps, CrashKeeps,
     TickKeeps,
     StutterKeeps
  DEF Next

LEMMA Invariance == Spec => []IInv
  BY InitIInv, NextKeeps, PTL DEF Spec

(* Every variable of Credentials keeps its type. *)
THEOREM TypeCorrect == Spec => []TypeOK
  <1>1. IInv => TypeOK
    BY DEF IInv
  <1> QED
    BY <1>1, Invariance, PTL

(* loadNodeCrt and UpdateCredentials leave the pair in use, the newest, in both files *)
(* of the state directory, unless a write was interrupted or failed.                  *)
THEOREM PairKept == Spec => []NewestKept
  <1>1. IInv => NewestKept
    BY DEF IInv, Stored, NewestKept
  <1> QED
    BY <1>1, Invariance, PTL

(* loadNodeCrt: a node that has once started finds a matching pair at its next start, *)
(* although it looks for each file in two places.                                     *)
THEOREM NodeStartsAgain == Spec => []StartsAgain
  <1>1. IInv => StartsAgain
    <2> SUFFICES ASSUME IInv, ~broken, pc \in {"down", "reading"}, disk.crt # None
                 PROVE  KeyPair(Source("crt"), Source("key"))
      BY DEF StartsAgain
    <2>1. store = "none"
      BY DEF IInv, Loaded
    <2>2. disk.crt = disk.key /\ disk.crt # Torn
      BY <2>1 DEF IInv, Stored
    <2>3. disk.key \in Pair
      BY <2>2 DEF IInv, TypeOK, Files
    <2> QED
      BY <2>2, <2>3 DEF KeyPair, Source
  <1> QED
    BY <1>1, Invariance, PTL

(* Config and GetRegistryConfig: a process that has an answer in every half of the    *)
(* validity keeps credentials that have not expired.                                  *)
THEOREM NeverExpires == Spec => CredentialsLast
  <1> DEFINE Lasts ==
        refreshed /\ pc = "up" /\ pc' = "up" /\ ~Expired(mem) => ~Expired(mem)'
  <1>1. IInv /\ IInv' /\ [Next]_vars => [Lasts]_vars
    <2> SUFFICES ASSUME IInv, IInv', Next, refreshed, pc = "up", pc' = "up"
                 PROVE  ~Expired(mem)'
      BY DEF vars
    <2>1. clock \in Nat /\ mem \in DOMAIN born /\ born[mem] = clock
      BY IssuedPairs DEF IInv, TypeOK, Issued, Loaded, Fresh
    <2>2. CASE refreshed'
      <3>1. born'[mem'] = clock' /\ clock' \in Nat
        BY <2>2, Bounds DEF IInv, TypeOK, Fresh
      <3>2. \A n \in Nat : ~(n - n >= 2)
        OBVIOUS
      <3>3. ~(clock' - clock' >= 2)
        BY <3>1, <3>2, Zenon
      <3>4. ~(clock' - born'[mem'] >= 2)
        BY <3>1, <3>3, Zenon
      <3> QED
        BY <3>4 DEF Expired, Age
    <2>3. CASE ~refreshed'
      <3>1. Tick
        BY <2>3 DEF Next, AddNode, GetNodeCredentials, WriteNodeKey, ReadCertificate,
               ReadKey, WriteStoredCrt, WriteStoredKey, Write, WriteFails, Connect,
               Disconnect, Config, Crash
      <3> QED
        BY <2>1, <3>1 DEF Tick, Expired, Age
    <2> QED
      BY <2>2, <2>3
  <1> QED
    BY <1>1, Invariance, PTL DEF Spec, CredentialsLast
=============================================================================
