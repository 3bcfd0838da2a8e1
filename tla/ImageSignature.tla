--------------------------- MODULE ImageSignature ---------------------------
(***************************************************************************)
(* How the agent decides whether a container may run (checkImage in        *)
(* agent/main.go, agent/signature.go): a container that names a signer     *)
(* needs an image with a signature, which is a bundle among the referrers  *)
(* of the image or, if no referrer has one, the layer of a manifest with a *)
(* tag of its own (the old way).  The startup job and the event goroutine  *)
(* check containers at the same time, while the publisher of the image     *)
(* changes the signatures in the image registry.                           *)
(*                                                                         *)
(* A referrer is named for what its manifest holds; an old signature is    *)
(* the set of its flaws.  A container is checked when the event goroutine  *)
(* sees its creation or start or the startup job comes to it, as often as  *)
(* that happens, which may be never.  Two checks of one container at once  *)
(* are like those of two containers.                                       *)
(***************************************************************************)
EXTENDS SequencesExt

CONSTANTS
    Container,    \* the containers of one image
    Trust,        \* the labels that they may have
    Referrers,    \* the lists of referrers that the publisher may leave
    Signatures,   \* the old signatures it may leave
    None,         \* no old signature
    MaxChanges,   \* bound: changes of the signatures
    MaxFaults     \* bound: requests that fail, crashes of the agent

VARIABLES
    referrers,   \* the referrers that the image registry lists
    signature,   \* its old signature of the image
    trust,       \* the labels of each container: "unset", "invalid", "set"
    local,       \* the image has no digest of a registry
    present,     \* Docker has the image
    agent,       \* "up", "down"
    pc,          \* the step of the check of each container
    list,        \* the referrers it still has to read
    signed,      \* whose valid signatures there have been during the check
    excuse,      \* why the check may fail
    changes,
    faults

labels == <<trust, local>>
published == <<referrers, signature, changes>>
history == <<signed, excuse>>
vars == <<referrers, signature, trust, local, present, agent, pc, list, signed, excuse,
          changes, faults>>

\* "bad" is not signed by the one the labels name, "broken" no bundle, "other" has a
\* layer of another type, "empty" no layer, "unparsable" is no manifest.
Kind == {"bundle", "bad", "broken", "other", "empty", "unparsable"}

\* The defects of an old signature, in the order in which the code meets them.
LayerDefects == <<"unparsable", "noLayer", "otherType">>

CertificateDefects == <<"noPem">>

\* A type assertion without a test panics: the payload is no object, or the body lacks
\* its kind or version.
TlogPanics == {"payload", "kind"}

TlogDefects == <<"noJson", "payload", "logIndex", "logID", "integratedTime",
                 "timestamp", "body", "bodyJson", "kind">>

MessageDefects == <<"algorithm", "signature">>

\* getBundleVerificationMaterial: with entries of the log, without timestamps.
MaterialDefects == CertificateDefects \o TlogDefects

Defects == LayerDefects \o MaterialDefects \o MessageDefects \o <<"bad">>

\* What is verified is the layer, by its own digest: that its payload is about another
\* image is a flaw that the code does not meet.
Flaws == ToSet(Defects) \cup {"foreign"}

ASSUME ImageAssumption ==
    /\ Trust \subseteq [Container -> {"unset", "invalid", "set"}]
    /\ Referrers \subseteq Seq(Kind)
    /\ \A sig \in Signatures : sig = None \/ sig \subseteq Flaws
    /\ None \notin {{}, {"foreign"}}
    /\ {MaxChanges, MaxFaults} \subseteq Nat

\* "cleaning" and "failing" are the removal of the image, after that of the container or
\* after its failure.
Step == {"idle", "listing", "reading", "accepted", "rejected", "cleaning", "failing",
         "kept", "removed"}

Checking(c) == pc[c] \in {"listing", "reading"}

TypeOK ==
    /\ referrers \in Seq(Kind)
    /\ signature = None \/ signature \subseteq Flaws
    /\ trust \in [Container -> {"unset", "invalid", "set"}] /\ local \in BOOLEAN
    /\ present \in BOOLEAN /\ agent \in {"up", "down"}
    /\ pc \in [Container -> Step] /\ list \in [Container -> Seq(Kind)]
    /\ \A c \in Container : IF Checking(c) THEN trust[c] = "set" /\ ~local
                            ELSE list[c] = <<>>
    /\ agent = "down" => \A c \in Container : pc[c] \in {"idle", "removed"}
    /\ signed \in [Container -> SUBSET {"own", "foreign"}]
    /\ excuse \in [Container -> SUBSET {"unsigned", "shadowed", "changed", "failed"}]
    /\ changes \in 0 .. MaxChanges /\ faults \in 0 .. MaxFaults

Init ==
    /\ referrers \in Referrers /\ signature \in Signatures
    /\ trust \in Trust /\ local \in BOOLEAN
    /\ present = TRUE /\ agent = "up"
    /\ pc = [c \in Container |-> "idle"]
    /\ list = [c \in Container |-> <<>>]
    /\ signed = [c \in Container |-> {}]
    /\ excuse = [c \in Container |-> {}]
    /\ changes = 0 /\ faults = 0

Fault == faults < MaxFaults /\ faults' = faults + 1

Conclude(c, verdict) ==
    /\ pc' = [pc EXCEPT ![c] = verdict]
    /\ list' = [list EXCEPT ![c] = <<>>]
-----------------------------------------------------------------------------
(* The publisher. *)

\* There is a good signature of the image among those given.
Good(refs, sig) == (\E i \in DOMAIN refs : refs[i] = "bundle") \/ sig = {}

\* Whose valid signatures there are: of the image, or an old one of another image.
Signers(refs, sig) ==
    {w \in {"own", "foreign"} : IF w = "own" THEN Good(refs, sig) ELSE sig = {"foreign"}}

\* A referrer before every good one, if any, is neither a bundle nor passed over.
Shadowed(refs) ==
    \E i \in DOMAIN refs : /\ refs[i] \notin {"bundle", "other"}
                           /\ \A j \in 1 .. i - 1 : refs[j] # "bundle"

\* What the signatures, as they are given, excuse.
Excuses(refs, sig) ==
    {e \in {"unsigned", "shadowed"} :
        IF e = "unsigned" THEN ~Good(refs, sig) ELSE Shadowed(refs)}

\* The publisher adds, removes or replaces signatures of one sort.
Change(refs, sig) ==
    LET taken == \/ ~(ToSet(referrers) \subseteq ToSet(refs))
                 \/ signature = {} /\ sig # {} IN
    /\ changes < MaxChanges /\ changes' = changes + 1
    /\ (refs = referrers) # (sig = signature)
    /\ referrers' = refs /\ signature' = sig
    /\ signed' = [c \in Container |->
                    IF Checking(c) THEN signed[c] \cup Signers(refs, sig) ELSE signed[c]]
    /\ excuse' = [c \in Container |->
                    IF ~Checking(c) THEN excuse[c]
                    ELSE excuse[c] \cup Excuses(refs, sig)
                                   \cup (IF taken THEN {"changed"} ELSE {})]
    /\ UNCHANGED <<labels, present, agent, pc, list, faults>>
-----------------------------------------------------------------------------
(* The check of a container. *)

\* A container that Docker has is checked for the first time, or again.
Ready(c) == agent = "up" /\ pc[c] \in {"idle", "accepted", "kept"}

\* checkImage without a signer, or with one that is not well-formed.
CheckLabels(c) ==
    /\ Ready(c) /\ trust[c] # "set"
    /\ Conclude(c, IF trust[c] = "unset" THEN "accepted" ELSE "rejected")
    /\ UNCHANGED <<published, labels, present, agent, history, faults>>

\* Fault: an image without a digest is looked up in a registry.
AnyImage == TRUE

\* An image that was built here cannot be verified.
HasDigest == ~local

\* ImageInspect
Inspect(c) ==
    /\ Ready(c) /\ trust[c] = "set"
    /\ pc' = [pc EXCEPT ![c] = IF present /\ HasDigest THEN "listing" ELSE "rejected"]
    /\ signed' = [signed EXCEPT ![c] = Signers(referrers, signature)]
    /\ excuse' = [excuse EXCEPT ![c] = Excuses(referrers, signature)
                                       \cup (IF present THEN {} ELSE {"failed"})]
    /\ UNCHANGED <<published, labels, present, agent, list, faults>>

\* remote.Referrers
ListReferrers(c) ==
    /\ pc[c] = "listing"
    /\ pc' = [pc EXCEPT ![c] = "reading"]
    /\ list' = [list EXCEPT ![c] = referrers]
    /\ UNCHANGED <<published, labels, present, agent, history, faults>>

\* Fault: a referrer of another type is taken for a signature.
NothingPassed(kind) == FALSE

\* A layer of another type does not concern the agent.
PassedOver(kind) == kind = "other"

\* Fault: the result of the verification is not looked at.
AnyBundle(kind) == kind \in {"bundle", "bad"}

\* The bundle decodes and is verified for the digest of the image.
Verified(kind) == kind = "bundle"

\* Fault: the loop stays at the referrer it has passed over.
Same(refs) == refs

Rest(refs) == Tail(refs)

\* The first referrer that is not passed over decides; the manifest must still be there.
ReadReferrer(c) ==
    /\ pc[c] = "reading" /\ list[c] # <<>>
    /\ LET kind == Head(list[c]) IN
       IF kind \in ToSet(referrers) /\ PassedOver(kind)
       THEN list' = [list EXCEPT ![c] = Rest(@)] /\ UNCHANGED pc
       ELSE Conclude(c, IF kind \in ToSet(referrers) /\ Verified(kind)
                        THEN "accepted" ELSE "rejected")
    /\ UNCHANGED <<published, labels, present, agent, history, faults>>

\* The code meets no defect in an old signature, or this one first.
Flawless(sig) == sig # None /\ sig \cap ToSet(Defects) = {}

FirstDefect(sig) == SelectSeq(Defects, LAMBDA d : d \in sig)[1]

Panics(sig) == sig # None /\ ~Flawless(sig) /\ FirstDefect(sig) \in TlogPanics

\* The process ends, and the checks with it.
End ==
    /\ agent' = "down"
    /\ pc' = [c \in Container |->
                 IF pc[c] \in {"cleaning", "removed"} THEN "removed" ELSE "idle"]
    /\ list' = [c \in Container |-> <<>>]
    /\ signed' = [c \in Container |-> {}] /\ excuse' = [c \in Container |-> {}]

\* No referrer had a bundle: simpleSigningLayerFromImage and what follows.
ReadSignature(c) ==
    /\ pc[c] = "reading" /\ list[c] = <<>>
    /\ IF Panics(signature) THEN End
       ELSE /\ Conclude(c, IF Flawless(signature) THEN "accepted" ELSE "rejected")
            /\ UNCHANGED <<agent, history>>
    /\ UNCHANGED <<published, labels, present, faults>>

\* A request to Docker or to the image registry fails: the image is not accepted.
RequestFails(c) ==
    /\ trust[c] = "set"
    /\ Ready(c) \/ Checking(c)
    /\ Fault
    /\ Conclude(c, "rejected")
    /\ excuse' = [excuse EXCEPT ![c] = {"failed"}]
    /\ UNCHANGED <<published, labels, present, agent, signed>>

\* ContainerRemove; an error is logged.
RemoveContainer(c) ==
    /\ pc[c] = "rejected"
    /\ \/ pc' = [pc EXCEPT ![c] = "cleaning"] /\ UNCHANGED faults
       \/ pc' = [pc EXCEPT ![c] = "failing"] /\ Fault
    /\ signed' = [signed EXCEPT ![c] = {}] /\ excuse' = [excuse EXCEPT ![c] = {}]
    /\ UNCHANGED <<published, labels, present, agent, list>>

\* removeUnsignedImage: Docker removes the image unless it is in use.
RemoveImage(c) ==
    /\ pc[c] \in {"cleaning", "failing"}
    /\ pc' = [pc EXCEPT ![c] = IF @ = "cleaning" THEN "removed" ELSE "kept"]
    /\ present' \in {present, FALSE}
    /\ UNCHANGED <<published, labels, agent, list, history, faults>>

Crash ==
    /\ agent = "up" /\ Fault
    /\ End
    /\ UNCHANGED <<published, labels, present>>

\* The next agent.  Its startup job lists the containers that run and ends at the first
\* that it cannot inspect: it may come to each, and need not.
Restart ==
    /\ agent = "down"
    /\ agent' = "up"
    /\ UNCHANGED <<published, labels, present, pc, list, history, faults>>

Begin(c) == CheckLabels(c) \/ Inspect(c)

Proceed(c) ==
    \/ ListReferrers(c) \/ ReadReferrer(c) \/ ReadSignature(c)
    \/ RemoveContainer(c) \/ RemoveImage(c)

Next ==
    \/ \E refs \in Referrers, sig \in Signatures : Change(refs, sig)
    \/ \E c \in Container : Begin(c) \/ Proceed(c) \/ RequestFails(c)
    \/ Crash \/ Restart

Spec == Init /\ [][Next]_vars

\* A check that has begun goes on; the supervisor starts the agent again.  Nobody
\* promises that a check begins.
Fairness == WF_vars(Restart) /\ \A c \in Container : WF_vars(Proceed(c))

FairSpec == Spec /\ Fairness
-----------------------------------------------------------------------------
(* Properties *)

\* VerifyImageSignature: a container that names a signer is only accepted if, at some time
\* during the check, its image had a good signature, or a signature that the signer made
\* of another image was in the place of its old one: the payload of an old signature is
\* not compared with the image.
AcceptedSigned ==
    \A c \in Container :
        pc[c] = "accepted" /\ trust[c] = "set" =>
            "own" \in signed[c] \/ "foreign" \in signed[c]

\* bundleFromImage: if the image has a good signature at all times during the check, the
\* container is rejected only because a request failed or the image was removed by the
\* check of another container, a broken or foreign signature came first in the list of
\* referrers, or signatures were taken away while the agent looked for them.
RejectedForAReason ==
    \A c \in Container :
        pc[c] = "rejected" /\ trust[c] = "set" /\ ~local => excuse[c] # {}

\* The inductive invariant of the proofs, for the check of a container: signed and excuse
\* say of the signatures what the check relies on; while there is no excuse, the referrers
\* that are still to be read are there, the first of them that counts is good, and so is
\* one of them or the old signature.
SoundCheck(c) ==
    /\ Checking(c) => Signers(referrers, signature) \subseteq signed[c]
    /\ Checking(c) /\ excuse[c] = {} => Good(referrers, signature) /\ ~Shadowed(referrers)
    /\ pc[c] = "reading" /\ excuse[c] = {} =>
           /\ ToSet(list[c]) \subseteq ToSet(referrers)
           /\ ~Shadowed(list[c]) /\ Good(list[c], signature)
    /\ pc[c] = "accepted" /\ trust[c] = "set" =>
           "own" \in signed[c] \/ "foreign" \in signed[c]
    /\ pc[c] = "rejected" /\ trust[c] = "set" /\ ~local => excuse[c] # {}

IInv == TypeOK /\ \A c \in Container : SoundCheck(c)

\* A container is left whose check finds a malformed old signature.
PanicAhead ==
    /\ Panics(signature) /\ ToSet(referrers) \subseteq {"other"}
    /\ ~local /\ \E c \in Container : trust[c] = "set" /\ pc[c] # "removed"

UnderWay(c) == Checking(c) \/ pc[c] \in {"rejected", "cleaning", "failing"}

\* checkImage: every check that begins comes to an end, with its removals or with the
\* agent, and the agent stays up in the end unless a malformed signature is left that
\* makes it panic whenever it comes to it.
ChecksEnd ==
    /\ \A c \in Container : UnderWay(c) ~> ~UnderWay(c)
    /\ <>[]~PanicAhead => <>[](agent = "up")
=============================================================================
