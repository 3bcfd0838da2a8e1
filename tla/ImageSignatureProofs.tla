------------------------ MODULE ImageSignatureProofs ------------------------
(***************************************************************************)
(* Proofs about ImageSignature, for any containers, lists of referrers and *)
(* old signatures: what is accepted was signed, or its old signature was   *)
(* one of another image, and what is rejected was rejected for a reason.   *)
(*                                                                         *)
(* The publisher changes the signatures while the agent reads a list it    *)
(* has fetched before; the invariant relates the rest of that list to what *)
(* is published now.                                                       *)
(***************************************************************************)
EXTENDS ImageSignature, SequenceTheorems, TLAPS
-----------------------------------------------------------------------------
(* Lists of referrers *)

LEMMA ToSetIs ==
    ASSUME NEW refs \in Seq(Kind)
    PROVE  \A k : k \in ToSet(refs) <=> \E i \in 1 .. Len(refs) : refs[i] = k
BY LenProperties DEF ToSet

LEMMA GoodIs ==
    ASSUME NEW refs, NEW sig
    PROVE  Good(refs, sig) <=> "bundle" \in ToSet(refs) \/ sig = {}
BY DEF Good, ToSet

LEMMA SignersIs ==
    ASSUME NEW refs, NEW sig
    PROVE  /\ Signers(refs, sig) \subseteq {"own", "foreign"}
           /\ "own" \in Signers(refs, sig) <=> Good(refs, sig)
           /\ "foreign" \in Signers(refs, sig) <=> sig = {"foreign"}
BY DEF Signers

\* An old signature in which the code finds nothing wrong has no flaw but one.
LEMMA FlawlessIs ==
    ASSUME TypeOK, Flawless(signature)
    PROVE  signature = {} \/ signature = {"foreign"}
BY DEF TypeOK, Flawless, Flaws

LEMMA GoodIsFlawless ==
    ASSUME signature = {}
    PROVE  Flawless(signature)
BY ImageAssumption DEF Flawless

\* What the head and the tail of a list hold.
LEMMA HeadAndTail ==
    ASSUME NEW refs \in Seq(Kind), refs # <<>>
    PROVE  /\ Tail(refs) \in Seq(Kind) /\ Head(refs) = refs[1]
           /\ Len(refs) \in Nat \ {0} /\ Len(Tail(refs)) = Len(refs) - 1
           /\ \A i \in 1 .. Len(refs) - 1 : Tail(refs)[i] = refs[i + 1]
           /\ Head(refs) \in ToSet(refs)
           /\ \A k : k \in ToSet(Tail(refs)) => k \in ToSet(refs)
           /\ \A k : k \in ToSet(refs) => k = Head(refs) \/ k \in ToSet(Tail(refs))
<1>1. /\ Tail(refs) \in Seq(Kind) /\ Head(refs) = refs[1]
      /\ Len(refs) \in Nat \ {0} /\ Len(Tail(refs)) = Len(refs) - 1
      /\ \A i \in 1 .. Len(refs) - 1 : Tail(refs)[i] = refs[i + 1]
    BY HeadTailProperties, EmptySeq
<1> DEFINE n == Len(refs)
<1>2. 1 \in 1 .. n /\ n - 1 \in Nat /\ \A i \in 1 .. n - 1 : i + 1 \in 1 .. n
    BY <1>1
<1>3. Head(refs) \in ToSet(refs)
    BY <1>1, <1>2, ToSetIs
<1>4. ASSUME NEW k \in ToSet(Tail(refs)) PROVE k \in ToSet(refs)
    <2>1. PICK i \in 1 .. n - 1 : Tail(refs)[i] = k
        <3>1. \E i \in 1 .. Len(Tail(refs)) : Tail(refs)[i] = k
            BY <1>1, <1>4, ToSetIs
        <3> QED BY <1>1, <3>1
    <2> QED BY <1>1, <1>2, <2>1, ToSetIs
<1>5. ASSUME NEW k \in ToSet(refs), k # Head(refs) PROVE k \in ToSet(Tail(refs))
    <2>1. PICK i \in 1 .. n : refs[i] = k
        BY <1>5, ToSetIs
    <2>2. i - 1 \in 1 .. n - 1 /\ (i - 1) + 1 = i
        BY <1>1, <1>5, <2>1
    <2>3. Tail(refs)[i - 1] = k
        BY <1>1, <2>1, <2>2
    <2> QED BY <1>1, <2>2, <2>3, ToSetIs
<1> QED BY <1>1, <1>3, <1>4, <1>5

\* In a list in which nothing stands before the good one the head is it or is passed over.
LEMMA HeadUnshadowed ==
    ASSUME NEW refs \in Seq(Kind), refs # <<>>, ~Shadowed(refs)
    PROVE  Head(refs) = "bundle" \/ Head(refs) = "other"
<1>1. 1 \in DOMAIN refs /\ Head(refs) = refs[1]
    BY HeadAndTail, LenProperties
<1>2. \A j \in 1 .. 1 - 1 : refs[j] # "bundle"
    OBVIOUS
<1> QED BY <1>1, <1>2 DEF Shadowed

\* Passing over the head of such a list leaves such a list.
LEMMA TailUnshadowed ==
    ASSUME NEW refs \in Seq(Kind), refs # <<>>, ~Shadowed(refs), Head(refs) # "bundle"
    PROVE  ~Shadowed(Tail(refs))
<1> SUFFICES ASSUME NEW i \in DOMAIN Tail(refs), Tail(refs)[i] \notin {"bundle", "other"},
                    \A j \in 1 .. i - 1 : Tail(refs)[j] # "bundle"
             PROVE  FALSE
    BY DEF Shadowed
<1> DEFINE n == Len(refs)
<1>1. i \in 1 .. n - 1 /\ n \in Nat /\ DOMAIN refs = 1 .. n
    BY HeadAndTail, LenProperties
<1>2. i + 1 \in DOMAIN refs /\ refs[i + 1] = Tail(refs)[i]
    BY <1>1, HeadAndTail
<1>3. ASSUME NEW j \in 1 .. (i + 1) - 1 PROVE refs[j] # "bundle"
    <2>1. CASE j = 1
        BY <2>1, HeadAndTail
    <2>2. CASE j # 1
        <3>1. j - 1 \in 1 .. i - 1 /\ j - 1 \in 1 .. n - 1 /\ (j - 1) + 1 = j
            BY <1>1, <2>2
        <3> QED BY <3>1, HeadAndTail
    <2> QED BY <2>1, <2>2
<1> QED BY <1>2, <1>3 DEF Shadowed
-----------------------------------------------------------------------------
(* What every step keeps *)

LEMMA ExcusesIs ==
    ASSUME NEW refs, NEW sig, Excuses(refs, sig) = {}
    PROVE  Good(refs, sig) /\ ~Shadowed(refs)
<1>1. \A e \in {"unsigned", "shadowed"} :
          ~(IF e = "unsigned" THEN ~Good(refs, sig) ELSE Shadowed(refs))
    BY DEF Excuses
<1> QED BY <1>1

LEMMA ExcusesType ==
    ASSUME NEW refs, NEW sig
    PROVE  Excuses(refs, sig) \subseteq {"unsigned", "shadowed"}
BY DEF Excuses

\* A check that a step leaves alone stays sound, as long as nothing is published.
LEMMA Alone ==
    ASSUME NEW d \in Container, SoundCheck(d),
           UNCHANGED <<referrers, signature, trust, local>>,
           pc'[d] = pc[d], list'[d] = list[d],
           signed'[d] = signed[d], excuse'[d] = excuse[d]
    PROVE  SoundCheck(d)'
BY DEF SoundCheck, Checking, Good, Signers, Shadowed, ToSet

\* A check that is neither under way nor over has nothing to show.
LEMMA NotChecking ==
    ASSUME NEW d \in Container, pc'[d] \in {"idle", "cleaning", "failing", "kept", "removed"}
    PROVE  SoundCheck(d)'
BY DEF SoundCheck, Checking
-----------------------------------------------------------------------------
(* The steps *)

LEMMA InitIInv ==
    ASSUME Init
    PROVE  IInv
<1>1. TypeOK
    <2>1. /\ referrers \in Seq(Kind)
          /\ signature = None \/ signature \subseteq Flaws
          /\ trust \in [Container -> {"unset", "invalid", "set"}] /\ local \in BOOLEAN
          /\ changes \in 0 .. MaxChanges /\ faults \in 0 .. MaxFaults
        BY ImageAssumption DEF Init
    <2>2. /\ present \in BOOLEAN /\ agent = "up"
          /\ pc = [c \in Container |-> "idle"] /\ list = [c \in Container |-> <<>>]
          /\ signed = [c \in Container |-> {}] /\ excuse = [c \in Container |-> {}]
        BY DEF Init
    <2>3. list \in [Container -> Seq(Kind)]
        BY <2>2, EmptySeq
    <2>4. pc \in [Container -> Step]
        BY <2>2 DEF Step
    <2>5. \A c \in Container : ~Checking(c) /\ list[c] = <<>>
        BY <2>2 DEF Checking
    <2> QED BY <2>1, <2>2, <2>3, <2>4, <2>5 DEF TypeOK
<1>2. ASSUME NEW c \in Container PROVE SoundCheck(c)
    BY <1>2 DEF Init, SoundCheck, Checking
<1> QED BY <1>1, <1>2 DEF IInv

\* The publisher: what it adds may be good, what it takes away is an excuse.
LEMMA ChangePreserves ==
    ASSUME IInv, NEW refs \in Referrers, NEW sig \in Signatures, Change(refs, sig)
    PROVE  IInv'
<1> DEFINE taken == \/ ~(ToSet(referrers) \subseteq ToSet(refs))
                    \/ signature = {} /\ sig # {}
<1>1. /\ referrers' = refs /\ signature' = sig /\ trust' = trust /\ local' = local
      /\ present' = present /\ agent' = agent /\ pc' = pc /\ list' = list
      /\ faults' = faults
    BY DEF Change, labels
<1>2. /\ signed' = [c \in Container |->
                      IF Checking(c) THEN signed[c] \cup Signers(refs, sig) ELSE signed[c]]
      /\ excuse' = [c \in Container |->
                      IF ~Checking(c) THEN excuse[c]
                      ELSE excuse[c] \cup Excuses(refs, sig)
                                     \cup (IF taken THEN {"changed"} ELSE {})]
    BY DEF Change
<1>3. TypeOK'
    <2>1. /\ refs \in Seq(Kind) /\ (sig = None \/ sig \subseteq Flaws)
          /\ changes' \in 0 .. MaxChanges
        BY ImageAssumption DEF IInv, TypeOK, Change
    <2>2. signed' \in [Container -> SUBSET {"own", "foreign"}]
        <3>1. ASSUME NEW c \in Container PROVE signed'[c] \in SUBSET {"own", "foreign"}
            BY <1>2, SignersIs DEF IInv, TypeOK
        <3> QED BY <1>2, <3>1
    <2>3. excuse' \in [Container -> SUBSET {"unsigned", "shadowed", "changed", "failed"}]
        <3>1. ASSUME NEW c \in Container
              PROVE  excuse'[c] \subseteq {"unsigned", "shadowed", "changed", "failed"}
            <4>1. excuse[c] \subseteq {"unsigned", "shadowed", "changed", "failed"}
                BY DEF IInv, TypeOK
            <4>2. (IF taken THEN {"changed"} ELSE {}) \subseteq {"changed"}
                OBVIOUS
            <4> HIDE DEF taken
            <4> QED BY <1>2, <4>1, <4>2, ExcusesType
        <3> HIDE DEF taken
        <3> QED BY <1>2, <3>1
    <2> QED BY <1>1, <2>1, <2>2, <2>3 DEF IInv, TypeOK, Checking
<1>4. ASSUME NEW c \in Container PROVE SoundCheck(c)'
    <2>1. SoundCheck(c)
        BY DEF IInv
    <2>2. signed'[c] = IF Checking(c) THEN signed[c] \cup Signers(refs, sig) ELSE signed[c]
        BY <1>2
    <2>3. Checking(c)' <=> Checking(c)
        BY <1>1 DEF Checking
    <2>4. CASE ~Checking(c)
        <3>1. excuse'[c] = excuse[c]
            BY <1>2, <2>4
        <3> QED BY <1>1, <2>1, <2>2, <2>3, <2>4, <3>1 DEF SoundCheck, Checking
    <2>5. CASE Checking(c)
        <3>1. excuse'[c] = excuse[c] \cup Excuses(refs, sig)
                                     \cup (IF taken THEN {"changed"} ELSE {})
            BY <1>2, <2>5
        <3>2. ASSUME excuse'[c] = {}
              PROVE  excuse[c] = {} /\ Excuses(refs, sig) = {} /\ ~taken
            <4> HIDE DEF taken
            <4>1. excuse[c] = {} /\ Excuses(refs, sig) = {}
                BY <3>1, <3>2
            <4>2. ~taken
                BY <3>1, <3>2
            <4> QED BY <4>1, <4>2
        <3>3. Signers(refs, sig) \subseteq signed'[c]
            BY <2>2, <2>5
        <3>4. excuse'[c] = {} => Good(refs, sig) /\ ~Shadowed(refs)
            BY <3>2, ExcusesIs
        <3>5. ASSUME pc[c] = "reading", excuse'[c] = {}
              PROVE  /\ ToSet(list[c]) \subseteq ToSet(refs)
                     /\ ~Shadowed(list[c]) /\ Good(list[c], sig)
            <4>1. excuse[c] = {} /\ ~taken
                BY <3>2, <3>5
            <4>2. ToSet(list[c]) \subseteq ToSet(referrers) /\ ~Shadowed(list[c])
                  /\ Good(list[c], signature)
                BY <2>1, <3>5, <4>1 DEF SoundCheck
            <4>3. signature = {} => sig = {}
                BY <4>1
            <4> QED BY <4>1, <4>2, <4>3, GoodIs
        <3>6. pc[c] # "accepted" /\ pc[c] # "rejected"
            BY <2>5 DEF Checking
        <3> QED BY <1>1, <3>3, <3>4, <3>5, <3>6 DEF SoundCheck
    <2> QED BY <2>4, <2>5
<1> QED BY <1>3, <1>4 DEF IInv

\* A step of one check leaves the others alone.
LEMMA OneCheck ==
    ASSUME IInv, NEW c \in Container, TypeOK', SoundCheck(c)',
           UNCHANGED <<referrers, signature, trust, local>>,
           \A d \in Container \ {c} : /\ pc'[d] = pc[d] /\ list'[d] = list[d]
                                      /\ signed'[d] = signed[d] /\ excuse'[d] = excuse[d]
    PROVE  IInv'
<1>1. ASSUME NEW d \in Container PROVE SoundCheck(d)'
    BY Alone DEF IInv
<1> QED BY <1>1 DEF IInv

LEMMA CheckLabelsPreserves ==
    ASSUME IInv, NEW c \in Container, CheckLabels(c)
    PROVE  IInv'
<1>1. /\ trust[c] # "set" /\ agent = "up" /\ pc[c] \in {"idle", "accepted", "kept"}
      /\ \E v \in {"accepted", "rejected"} : pc' = [pc EXCEPT ![c] = v]
      /\ list' = [list EXCEPT ![c] = <<>>]
      /\ UNCHANGED <<referrers, signature, changes>> /\ UNCHANGED <<trust, local>>
      /\ UNCHANGED <<present, agent, signed, excuse, faults>>
    BY DEF CheckLabels, Ready, Conclude, published, labels, history
<1>2. TypeOK'
    BY <1>1, EmptySeq DEF IInv, TypeOK, Step, Checking
<1>3. SoundCheck(c)'
    BY <1>1 DEF IInv, TypeOK, SoundCheck, Checking
<1> QED BY <1>1, <1>2, <1>3, OneCheck DEF IInv, TypeOK

LEMMA InspectPreserves ==
    ASSUME IInv, NEW c \in Container, Inspect(c)
    PROVE  IInv'
<1>1. /\ trust[c] = "set" /\ agent = "up" /\ pc[c] \in {"idle", "accepted", "kept"}
      /\ pc' = [pc EXCEPT ![c] = IF present /\ ~local THEN "listing" ELSE "rejected"]
      /\ signed' = [signed EXCEPT ![c] = Signers(referrers, signature)]
      /\ excuse' = [excuse EXCEPT ![c] = Excuses(referrers, signature)
                                         \cup (IF present THEN {} ELSE {"failed"})]
      /\ UNCHANGED <<referrers, signature, changes>> /\ UNCHANGED <<trust, local>>
      /\ UNCHANGED <<present, agent, list, faults>>
    BY DEF Inspect, Ready, HasDigest, published, labels
<1>2. Signers(referrers, signature) \in SUBSET {"own", "foreign"}
    BY SignersIs
<1>3. /\ pc'[c] = IF present /\ ~local THEN "listing" ELSE "rejected"
      /\ signed'[c] = Signers(referrers, signature)
      /\ excuse'[c] = Excuses(referrers, signature)
                      \cup (IF present THEN {} ELSE {"failed"})
      /\ list'[c] = <<>>
    BY <1>1 DEF IInv, TypeOK, Checking
<1>4. TypeOK'
    <2>1. pc' \in [Container -> Step]
        BY <1>1 DEF IInv, TypeOK, Step
    <2>2. signed' \in [Container -> SUBSET {"own", "foreign"}]
        BY <1>1, <1>2 DEF IInv, TypeOK
    <2>3. excuse' \in [Container -> SUBSET {"unsigned", "shadowed", "changed", "failed"}]
        <3>1. Excuses(referrers, signature) \cup (IF present THEN {} ELSE {"failed"})
                  \in SUBSET {"unsigned", "shadowed", "changed", "failed"}
            BY ExcusesType
        <3> QED BY <1>1, <3>1 DEF IInv, TypeOK
    <2>4. \A d \in Container : IF Checking(d)' THEN trust'[d] = "set" /\ ~local'
                               ELSE list'[d] = <<>>
        <3>1. Checking(c)' => trust'[c] = "set" /\ ~local'
            BY <1>1, <1>3 DEF Checking
        <3>2. \A d \in Container \ {c} : pc'[d] = pc[d]
            BY <1>1 DEF IInv, TypeOK
        <3> QED BY <1>1, <1>3, <3>1, <3>2 DEF IInv, TypeOK, Checking
    <2> QED BY <1>1, <2>1, <2>2, <2>3, <2>4 DEF IInv, TypeOK
<1>5. SoundCheck(c)'
    <2>1. Signers(referrers, signature)' \subseteq signed'[c]
        BY <1>1, <1>3 DEF Signers, Good
    <2>2. ASSUME excuse'[c] = {}
          PROVE  present /\ (Good(referrers, signature) /\ ~Shadowed(referrers))'
        <3>1. Excuses(referrers, signature) = {} /\ present
            BY <1>3, <2>2
        <3>2. Good(referrers, signature) /\ ~Shadowed(referrers)
            BY <3>1, ExcusesIs
        <3> QED BY <1>1, <3>1, <3>2 DEF Good, Shadowed
    <2>3. /\ pc'[c] # "reading" /\ pc'[c] # "accepted"
          /\ pc'[c] = "rejected" /\ ~local' => excuse'[c] # {}
        <3>1. CASE present /\ ~local
            <4>1. pc'[c] = "listing"
                BY <1>3, <3>1
            <4> QED BY <4>1
        <3>2. CASE ~(present /\ ~local)
            <4>1. pc'[c] = "rejected" /\ local' = local
                BY <1>1, <1>3, <3>2
            <4>2. ~local => excuse'[c] # {}
                BY <2>2, <3>2
            <4> QED BY <4>1, <4>2
        <3> QED BY <3>1, <3>2
    <2> QED BY <1>3, <2>1, <2>2, <2>3 DEF SoundCheck
<1>6. \A d \in Container \ {c} : /\ pc'[d] = pc[d] /\ list'[d] = list[d]
                                 /\ signed'[d] = signed[d] /\ excuse'[d] = excuse[d]
    BY <1>1 DEF IInv, TypeOK
<1> QED BY <1>1, <1>4, <1>5, <1>6, OneCheck

\* The list is that of now: what could be relied on of the image holds of it.
LEMMA ListReferrersPreserves ==
    ASSUME IInv, NEW c \in Container, ListReferrers(c)
    PROVE  IInv'
<1>1. /\ pc[c] = "listing"
      /\ pc' = [pc EXCEPT ![c] = "reading"] /\ list' = [list EXCEPT ![c] = referrers]
      /\ UNCHANGED <<referrers, signature, changes>> /\ UNCHANGED <<trust, local>>
      /\ UNCHANGED <<present, agent, signed, excuse, faults>>
    BY DEF ListReferrers, published, labels, history
<1>2. TypeOK'
    BY <1>1 DEF IInv, TypeOK, Step, Checking
<1>3. SoundCheck(c)'
    <2>1. pc'[c] = "reading" /\ list'[c] = referrers /\ Checking(c) /\ SoundCheck(c)
        BY <1>1 DEF IInv, TypeOK, Checking
    <2>2. /\ Signers(referrers, signature) \subseteq signed'[c]
          /\ excuse'[c] = {} => Good(referrers, signature) /\ ~Shadowed(referrers)
        BY <1>1, <2>1 DEF SoundCheck
    <2> QED BY <1>1, <2>1, <2>2 DEF SoundCheck
<1> QED BY <1>1, <1>2, <1>3, OneCheck DEF IInv, TypeOK

\* One referrer: a good one was signed while the check went on; one that stops the agent
\* has an excuse.
LEMMA ReadReferrerPreserves ==
    ASSUME IInv, NEW c \in Container, ReadReferrer(c)
    PROVE  IInv'
<1> DEFINE kind == Head(list[c])
<1>1. /\ pc[c] = "reading" /\ list[c] # <<>>
      /\ UNCHANGED <<referrers, signature, changes>> /\ UNCHANGED <<trust, local>>
      /\ UNCHANGED <<present, agent, signed, excuse, faults>>
    BY DEF ReadReferrer, published, labels, history
<1>2. /\ list[c] \in Seq(Kind) /\ SoundCheck(c) /\ Checking(c)
      /\ agent = "up"
    BY <1>1 DEF IInv, TypeOK, Checking
<1>3. CASE /\ kind \in ToSet(referrers) /\ PassedOver(kind)
           /\ list' = [list EXCEPT ![c] = Tail(@)] /\ UNCHANGED pc
    <2>1. list'[c] = Tail(list[c]) /\ pc'[c] = "reading"
        BY <1>1, <1>3 DEF IInv, TypeOK
    <2>2. Tail(list[c]) \in Seq(Kind)
        BY <1>1, <1>2, HeadAndTail
    <2>3. TypeOK'
        BY <1>1, <1>3, <2>2 DEF IInv, TypeOK, Checking
    <2>4. kind # "bundle"
        BY <1>3 DEF PassedOver
    <2>5. ASSUME excuse[c] = {}
          PROVE  /\ ToSet(Tail(list[c])) \subseteq ToSet(referrers)
                 /\ ~Shadowed(Tail(list[c])) /\ Good(Tail(list[c]), signature)
        <3>1. /\ ToSet(list[c]) \subseteq ToSet(referrers)
              /\ ~Shadowed(list[c]) /\ Good(list[c], signature)
            BY <1>1, <1>2, <2>5 DEF SoundCheck
        <3>2. ToSet(Tail(list[c])) \subseteq ToSet(referrers)
            BY <1>1, <1>2, <3>1, HeadAndTail
        <3>3. ~Shadowed(Tail(list[c]))
            BY <1>1, <1>2, <2>4, <3>1, TailUnshadowed
        <3>4. Good(Tail(list[c]), signature)
            BY <1>1, <1>2, <2>4, <3>1, HeadAndTail, GoodIs
        <3> QED BY <3>2, <3>3, <3>4
    <2>6. SoundCheck(c)'
        <3>1. /\ Signers(referrers, signature) \subseteq signed'[c]
              /\ excuse'[c] = {} => Good(referrers, signature) /\ ~Shadowed(referrers)
            BY <1>1, <1>2 DEF SoundCheck
        <3> QED BY <1>1, <2>1, <2>5, <3>1 DEF SoundCheck
    <2> QED BY <1>1, <1>3, <2>3, <2>6, OneCheck DEF IInv, TypeOK
<1>4. CASE /\ ~(kind \in ToSet(referrers) /\ PassedOver(kind))
           /\ Conclude(c, IF kind \in ToSet(referrers) /\ Verified(kind)
                          THEN "accepted" ELSE "rejected")
    <2> DEFINE verdict == IF kind \in ToSet(referrers) /\ Verified(kind)
                          THEN "accepted" ELSE "rejected"
    <2>1. /\ pc' = [pc EXCEPT ![c] = verdict] /\ list' = [list EXCEPT ![c] = <<>>]
          /\ verdict \in {"accepted", "rejected"}
        BY <1>4 DEF Conclude
    <2>2. verdict = "accepted" => "own" \in signed[c]
        <3>1. ASSUME verdict = "accepted" PROVE "bundle" \in ToSet(referrers)
            BY <3>1 DEF Verified
        <3>2. "bundle" \in ToSet(referrers) => "own" \in signed[c]
            BY <1>2, GoodIs, SignersIs DEF SoundCheck
        <3> QED BY <3>1, <3>2
    <2>3. verdict = "rejected" => excuse[c] # {}
        <3> SUFFICES ASSUME excuse[c] = {}, verdict = "rejected" PROVE FALSE
            OBVIOUS
        <3>1. ToSet(list[c]) \subseteq ToSet(referrers) /\ ~Shadowed(list[c])
            BY <1>1, <1>2 DEF SoundCheck
        <3>2. kind \in ToSet(referrers) /\ (kind = "bundle" \/ kind = "other")
            BY <1>1, <1>2, <3>1, HeadAndTail, HeadUnshadowed
        <3>3. kind = "bundle"
            BY <1>4, <3>2 DEF PassedOver
        <3> QED BY <3>2, <3>3 DEF Verified
    <2> HIDE DEF verdict
    <2>4. pc'[c] = verdict /\ list'[c] = <<>>
        BY <2>1 DEF IInv, TypeOK
    <2>5. TypeOK'
        BY <1>1, <1>2, <2>1, EmptySeq DEF IInv, TypeOK, Step, Checking
    <2>6. SoundCheck(c)'
        BY <1>1, <2>1, <2>2, <2>3, <2>4 DEF SoundCheck, Checking
    <2> QED BY <1>1, <2>1, <2>5, <2>6, OneCheck DEF IInv, TypeOK
<1> QED BY <1>3, <1>4 DEF ReadReferrer, Rest

\* The agent ends: no check is under way or over.
LEMMA EndPreserves ==
    ASSUME IInv, End, faults' \in 0 .. MaxFaults,
           UNCHANGED <<referrers, signature, changes>>, UNCHANGED <<trust, local>>,
           present' = present
    PROVE  IInv'
<1>1. /\ agent' = "down"
      /\ pc' = [c \in Container |->
                   IF pc[c] \in {"cleaning", "removed"} THEN "removed" ELSE "idle"]
      /\ list' = [c \in Container |-> <<>>]
      /\ signed' = [c \in Container |-> {}] /\ excuse' = [c \in Container |-> {}]
    BY DEF End
<1>2. list' \in [Container -> Seq(Kind)] /\ pc' \in [Container -> Step]
    BY <1>1, EmptySeq DEF Step
<1>3. TypeOK'
    BY <1>1, <1>2 DEF IInv, TypeOK, Checking
<1>4. ASSUME NEW d \in Container PROVE SoundCheck(d)'
    BY <1>1, NotChecking
<1> QED BY <1>3, <1>4 DEF IInv

\* The old signature, after the last referrer.
LEMMA ReadSignaturePreserves ==
    ASSUME IInv, NEW c \in Container, ReadSignature(c)
    PROVE  IInv'
<1>1. /\ pc[c] = "reading" /\ list[c] = <<>>
      /\ UNCHANGED <<referrers, signature, changes>> /\ UNCHANGED <<trust, local>>
      /\ UNCHANGED <<present, faults>>
    BY DEF ReadSignature, published, labels
<1>2. SoundCheck(c) /\ Checking(c) /\ agent = "up"
    BY <1>1 DEF IInv, TypeOK, Checking
<1>3. CASE End
    BY <1>1, <1>3, EndPreserves DEF IInv, TypeOK
<1>4. CASE /\ Conclude(c, IF Flawless(signature) THEN "accepted" ELSE "rejected")
           /\ UNCHANGED <<agent, signed, excuse>>
    <2> DEFINE verdict == IF Flawless(signature) THEN "accepted" ELSE "rejected"
    <2>1. /\ pc' = [pc EXCEPT ![c] = verdict] /\ list' = [list EXCEPT ![c] = <<>>]
          /\ verdict \in {"accepted", "rejected"}
        BY <1>4 DEF Conclude
    <2>2. verdict = "accepted" => "own" \in signed[c] \/ "foreign" \in signed[c]
        <3> SUFFICES ASSUME Flawless(signature)
                     PROVE  "own" \in signed[c] \/ "foreign" \in signed[c]
            OBVIOUS
        <3>1. signature = {} \/ signature = {"foreign"}
            BY FlawlessIs DEF IInv
        <3>2. Signers(referrers, signature) \subseteq signed[c]
            BY <1>2 DEF SoundCheck
        <3>3. Good(referrers, signature) \/ signature = {"foreign"}
            BY <3>1, GoodIs
        <3> QED BY <3>2, <3>3, SignersIs
    <2>3. verdict = "rejected" => excuse[c] # {}
        <3> SUFFICES ASSUME excuse[c] = {}, signature # {} PROVE FALSE
            BY GoodIsFlawless
        <3>1. Good(<<>>, signature)
            BY <1>1, <1>2 DEF SoundCheck
        <3>2. "bundle" \notin ToSet(<<>>)
            BY DEF ToSet
        <3> QED BY <3>1, <3>2, GoodIs
    <2> HIDE DEF verdict
    <2>4. pc'[c] = verdict /\ list'[c] = <<>>
        BY <2>1 DEF IInv, TypeOK
    <2>5. TypeOK'
        BY <1>1, <1>2, <1>4, <2>1, EmptySeq DEF IInv, TypeOK, Step, Checking
    <2>6. SoundCheck(c)'
        BY <1>1, <1>4, <2>1, <2>2, <2>3, <2>4 DEF SoundCheck, Checking
    <2> QED BY <1>1, <1>4, <2>1, <2>5, <2>6, OneCheck DEF IInv, TypeOK
<1> QED BY <1>3, <1>4 DEF ReadSignature, history

LEMMA RequestFailsPreserves ==
    ASSUME IInv, NEW c \in Container, RequestFails(c)
    PROVE  IInv'
<1>1. /\ agent = "up"
      /\ pc' = [pc EXCEPT ![c] = "rejected"] /\ list' = [list EXCEPT ![c] = <<>>]
      /\ excuse' = [excuse EXCEPT ![c] = {"failed"}]
      /\ UNCHANGED <<referrers, signature, changes>> /\ UNCHANGED <<trust, local>>
      /\ UNCHANGED <<present, agent, signed>>
    BY DEF RequestFails, Ready, Checking, Conclude, published, labels, IInv, TypeOK
<1>2. faults' \in 0 .. MaxFaults
    BY ImageAssumption DEF IInv, TypeOK, RequestFails, Fault
<1>3. TypeOK'
    <2>1. pc' \in [Container -> Step] /\ list' \in [Container -> Seq(Kind)]
        BY <1>1, EmptySeq DEF IInv, TypeOK, Step
    <2>2. excuse' \in [Container -> SUBSET {"unsigned", "shadowed", "changed", "failed"}]
        <3>1. {"failed"} \in SUBSET {"unsigned", "shadowed", "changed", "failed"}
            OBVIOUS
        <3> QED BY <1>1, <3>1 DEF IInv, TypeOK
    <2> QED BY <1>1, <1>2, <2>1, <2>2 DEF IInv, TypeOK, Checking
<1>4. pc'[c] = "rejected" /\ excuse'[c] = {"failed"}
    BY <1>1 DEF IInv, TypeOK
<1>5. SoundCheck(c)'
    BY <1>4 DEF SoundCheck, Checking
<1> QED BY <1>1, <1>3, <1>5, OneCheck DEF IInv, TypeOK

LEMMA RemovalPreserves ==
    ASSUME IInv, NEW c \in Container, RemoveContainer(c) \/ RemoveImage(c)
    PROVE  IInv'
<1>1. /\ pc[c] \in {"rejected", "cleaning", "failing"}
      /\ \E step \in {"cleaning", "failing", "removed", "kept"} :
            pc' = [pc EXCEPT ![c] = step]
      /\ UNCHANGED <<referrers, signature, changes>> /\ UNCHANGED <<trust, local>>
      /\ UNCHANGED <<agent, list>>
    BY DEF RemoveContainer, RemoveImage, published, labels
<1>2. faults' \in 0 .. MaxFaults
    <2>1. faults' = faults \/ (faults < MaxFaults /\ faults' = faults + 1)
        BY DEF RemoveContainer, RemoveImage, Fault
    <2> QED BY <2>1, ImageAssumption DEF IInv, TypeOK
<1>3. agent = "up"
    BY <1>1 DEF IInv, TypeOK
<1>4. /\ present' \in BOOLEAN
      /\ \/ signed' = signed /\ excuse' = excuse
         \/ signed' = [signed EXCEPT ![c] = {}] /\ excuse' = [excuse EXCEPT ![c] = {}]
    BY DEF RemoveContainer, RemoveImage, history, IInv, TypeOK
<1>5. /\ signed' \in [Container -> SUBSET {"own", "foreign"}]
      /\ excuse' \in [Container -> SUBSET {"unsigned", "shadowed", "changed", "failed"}]
      /\ \A d \in Container \ {c} : signed'[d] = signed[d] /\ excuse'[d] = excuse[d]
    BY <1>4 DEF IInv, TypeOK
<1>6. TypeOK'
    <2>1. pc' \in [Container -> Step] /\ \A d \in Container \ {c} : pc'[d] = pc[d]
        BY <1>1 DEF IInv, TypeOK, Step
    <2>2. ~Checking(c) /\ ~Checking(c)'
        BY <1>1 DEF Checking, IInv, TypeOK
    <2> QED BY <1>1, <1>2, <1>3, <1>4, <1>5, <2>1, <2>2 DEF IInv, TypeOK, Checking
<1>7. SoundCheck(c)'
    BY <1>1, NotChecking DEF IInv, TypeOK
<1>8. \A d \in Container \ {c} : pc'[d] = pc[d]
    BY <1>1 DEF IInv, TypeOK
<1> QED BY <1>1, <1>5, <1>6, <1>7, <1>8, OneCheck

LEMMA AgentPreserves ==
    ASSUME IInv, Crash \/ Restart
    PROVE  IInv'
<1>1. CASE Crash
    <2>1. faults' \in 0 .. MaxFaults
        BY <1>1, ImageAssumption DEF IInv, TypeOK, Crash, Fault
    <2> QED BY <1>1, <2>1, EndPreserves DEF Crash, published, labels
<1>2. CASE Restart
    <2>1. /\ agent' = "up" /\ UNCHANGED <<referrers, signature, changes>>
          /\ UNCHANGED <<trust, local>>
          /\ UNCHANGED <<present, pc, list, signed, excuse, faults>>
        BY <1>2 DEF Restart, published, labels, history
    <2>2. TypeOK'
        BY <2>1 DEF IInv, TypeOK, Checking
    <2>3. \A d \in Container : SoundCheck(d)'
        BY <2>1, Alone DEF IInv
    <2> QED BY <2>2, <2>3 DEF IInv
<1> QED BY <1>1, <1>2

LEMMA NextIInv ==
    ASSUME IInv, [Next]_vars
    PROVE  IInv'
<1>1. ASSUME NEW c \in Container, Begin(c) \/ Proceed(c) \/ RequestFails(c) PROVE IInv'
    BY <1>1, CheckLabelsPreserves, InspectPreserves, ListReferrersPreserves,
       ReadReferrerPreserves, ReadSignaturePreserves, RemovalPreserves,
       RequestFailsPreserves DEF Begin, Proceed
<1>2. CASE UNCHANGED vars
    <2>1. /\ UNCHANGED <<referrers, signature, changes>> /\ UNCHANGED <<trust, local>>
          /\ UNCHANGED <<agent, present, pc, list, signed, excuse, faults>>
        BY <1>2 DEF vars
    <2>2. TypeOK'
        BY <2>1 DEF IInv, TypeOK, Checking
    <2>3. \A d \in Container : SoundCheck(d)'
        BY <2>1, Alone DEF IInv
    <2> QED BY <2>2, <2>3 DEF IInv
<1> QED BY <1>1, <1>2, ChangePreserves, AgentPreserves DEF Next
-----------------------------------------------------------------------------
(* The theorems *)

\* Every reachable state satisfies the inductive invariant: what the check of a container
\* still has to read of its list, against what is published now.
THEOREM InductiveInvariant == Spec => []IInv
BY InitIInv, NextIInv, PTL DEF Spec

\* Type correctness: only a container that names a signer is looked up, and only if its
\* image has a digest; a check that is not under way holds no list, and while the agent is
\* down no check is.
THEOREM TypeCorrect == Spec => []TypeOK
<1>1. IInv => TypeOK
    BY DEF IInv
<1> QED BY <1>1, InductiveInvariant, PTL

\* VerifyImageSignature: a container that names a signer is only accepted if, at some time
\* during the check, its image had a good signature or its old signature was a valid one of
\* another image, for any lists, however the publisher changes them while they are read,
\* and although failures and restarts come between.
THEOREM OnlySignedAccepted == Spec => []AcceptedSigned
<1>1. IInv => AcceptedSigned
    BY DEF IInv, AcceptedSigned, SoundCheck
<1> QED BY <1>1, InductiveInvariant, PTL

\* bundleFromImage and simpleSigningLayerFromImage: no container is rejected without one
\* of the reasons that RejectedForAReason names.
THEOREM NoneRejectedWithoutReason == Spec => []RejectedForAReason
<1>1. IInv => RejectedForAReason
    BY DEF IInv, RejectedForAReason, SoundCheck
<1> QED BY <1>1, InductiveInvariant, PTL
=============================================================================
