--------------------------- MODULE LiveTailProofs ---------------------------
(***************************************************************************)
(* For any number of browsers, lines and limits: the types, and that the   *)
(* offset passes no line without its having been looked at: answered, not  *)
(* found by the search that passed it, or left out on purpose.  A poll writes back what it read some time ago, so the         *)
(* invariant follows each poll from the entry it read to its answer.       *)
(***************************************************************************)
EXTENDS LiveTail, TLAPS

(* A poll started from an entry that was covered, counted no more lines    *)
(* than there are, and its answer covers the lines between the two.        *)
PollIsCovered(p) ==
    /\ last[p] # Unset => \A k \in 1 .. last[p] : k \in covered
    /\ pc[p] \in {"tail", "record"} => count[p] <= length
    /\ pc[p] = "record" =>
          \A k \in 1 .. count[p] : \/ k \in got[p] \cup passed[p]
                                   \/ ~IsInitial(p) /\ k <= last[p]

PollsAreCovered == file = 1 => \A p \in Polls : PollIsCovered(p)

IInv == TypeOK /\ OffsetIsCovered /\ PollsAreCovered

LEMMA InitEstablishes == Init => IInv
<1> SUFFICES ASSUME Init PROVE IInv
  OBVIOUS
<1>1. TypeOK
  BY SizesAssumption DEF Init, TypeOK, Counts, Unset
<1>2. OffsetIsCovered /\ PollsAreCovered
  BY DEF Init, OffsetIsCovered, PollsAreCovered, PollIsCovered
<1> QED
  BY <1>1, <1>2 DEF IInv

(* Every step keeps the types.                                             *)
LEMMA StepKeepsTypes == ASSUME TypeOK, [Next]_vars PROVE TypeOK'
<1> USE SizesAssumption DEF TypeOK, Counts, Lines
<1>1. CASE Log
  BY <1>1 DEF Log, pollVars
<1>2. CASE Rotate
  BY <1>2 DEF Rotate, pollVars
<1>3. CASE Reset
  BY <1>3 DEF Reset, pollVars
<1>4. ASSUME NEW p \in Polls, Start(p) \/ PollStep(p) PROVE TypeOK'
  <2>1. CASE Start(p)
    BY <2>1 DEF Start, Goto
  <2>2. CASE CountLines(p)
    BY <2>2 DEF CountLines, Goto
  <2>3. CASE Tail(p)
    <3>1. /\ Newest(p) \cup NextOnes(p) \subseteq Lines
          /\ TooOld(p) \cup NotFound(p) \subseteq Lines
          /\ After(last[p], TooMany(p) \cup NotFound(p)) \subseteq Lines
      BY DEF Newest, NextOnes, TooOld, TooMany, NotFound, Found, After
    <3>2. got' \in [Polls -> SUBSET Lines] /\ passed' \in [Polls -> SUBSET Lines]
      BY <2>3, <3>1 DEF Tail
    <3> QED
      BY <2>3, <3>2 DEF Tail, Goto
  <2>4. CASE Record(p)
    <3>1. live' \in Counts \cup {Unset} /\ covered' \subseteq Lines
      BY <2>4 DEF Record
    <3>2. /\ pc' \in [Polls -> {"idle", "wc", "tail", "record"}]
          /\ last' \in [Polls -> Counts \cup {Unset}]
          /\ count' \in [Polls -> Counts]
          /\ got' \in [Polls -> SUBSET Lines]
          /\ passed' \in [Polls -> SUBSET Lines]
      BY <2>4 DEF Record, Answered, Goto
    <3> QED
      BY <2>4, <3>1, <3>2 DEF Record
  <2>5. CASE Fail(p)
    BY <2>5 DEF Fail, Answered, Goto
  <2> QED
    BY <1>4, <2>1, <2>2, <2>3, <2>4, <2>5 DEF PollStep
<1>5. CASE UNCHANGED vars
  BY <1>5 DEF vars, pollVars
<1> QED
  BY <1>1, <1>2, <1>3, <1>4, <1>5 DEF Next

(* The answer of tail accounts for every line between the entry and the    *)
(* count: what it does not hold its search does not find, or a limit       *)
(* leaves out.                                                             *)
LEMMA AnswerCovers ==
    ASSUME TypeOK, NEW p \in Polls, Tail(p), count[p] <= length
    PROVE  \A k \in 1 .. count[p] : \/ k \in got'[p] \cup passed'[p]
                                    \/ ~IsInitial(p)' /\ k <= last'[p]
<1> USE DEF TypeOK, Counts, Lines
<1>0. UNCHANGED <<last, count>> /\ IsInitial(p)' = IsInitial(p)
  BY DEF Tail, IsInitial
<1>1. SUFFICES ASSUME NEW k \in 1 .. length, ~IsInitial(p) => k > last[p]
               PROVE  k \in got'[p] \cup passed'[p]
  <2>1. ~IsInitial(p) => last[p] \in Counts
    BY DEF IsInitial
  <2>2. \A k \in 1 .. count[p] : k \in 1 .. length
    OBVIOUS
  <2> QED
    BY <1>0, <2>1, <2>2
<1>2. CASE IsInitial(p)
  <2>1. got'[p] = Newest(p) /\ passed'[p] = TooOld(p) \cup NotFound(p)
    BY <1>2 DEF Tail
  <2>2. ASSUME k \in Found(p), k > length - InitialScan, NewerIn(k, Found(p)) < InitialSize
        PROVE  k \in Newest(p)
    <3> DEFINE scanned == After(length - InitialScan, Found(p))
    <3>1. k \in scanned
      BY <2>2 DEF After
    <3>2. {m \in scanned : m > k} = {m \in Found(p) : m > k}
      BY <2>2, SizesAssumption DEF After, Found
    <3>3. NewerIn(k, scanned) < InitialSize
      BY <2>2, <3>2 DEF NewerIn
    <3> QED
      BY <3>1, <3>3 DEF Newest
  <2>3. k \notin TooOld(p) \cup NotFound(p) =>
          k \in Found(p) /\ k > length - InitialScan /\ NewerIn(k, Found(p)) < InitialSize
    BY SizesAssumption DEF TooOld, NotFound
  <2> QED
    BY <2>1, <2>2, <2>3
<1>3. CASE ~IsInitial(p)
  <2>1. /\ got'[p] = NextOnes(p)
        /\ passed'[p] = After(last[p], TooMany(p) \cup NotFound(p))
    BY <1>3 DEF Tail
  <2>2. last[p] \in Nat /\ k > last[p] /\ Scan \in Nat
    BY <1>1, <1>3, SizesAssumption DEF IsInitial
  <2>3. ASSUME k \in Found(p), ~ k > last[p] + Scan,
               OlderIn(k, After(last[p], Found(p))) < Limit
        PROVE  k \in NextOnes(p)
    <3> DEFINE scanned == {m \in Found(p) : m >= Offset(p) /\ m < Offset(p) + Scan}
    <3>1. k \in scanned
      BY <2>2, <2>3 DEF Offset
    <3>2. {m \in scanned : m < k} = {m \in After(last[p], Found(p)) : m < k}
      BY <2>2, <2>3 DEF After, Found, Offset
    <3>3. OlderIn(k, scanned) < Limit
      BY <2>3, <3>2 DEF OlderIn
    <3> QED
      BY <3>1, <3>3 DEF NextOnes
  <2>4. k \notin TooMany(p) \cup NotFound(p) =>
          /\ k \in Found(p) /\ ~ k > last[p] + Scan
          /\ OlderIn(k, After(last[p], Found(p))) < Limit
    BY DEF TooMany, NotFound
  <2>5. k \in TooMany(p) \cup NotFound(p) => k \in After(last[p], TooMany(p) \cup NotFound(p))
    BY <2>2 DEF After
  <2> QED
    BY <2>1, <2>3, <2>4, <2>5
<1> QED
  BY <1>2, <1>3

LEMMA StepKeepsCovered ==
    ASSUME IInv, [Next]_vars
    PROVE  OffsetIsCovered' /\ PollsAreCovered'
<1> USE SizesAssumption DEF IInv
<1>0. SUFFICES ASSUME file' = 1
               PROVE  /\ live' # Unset => \A k \in 1 .. live' : k \in covered'
                      /\ \A p \in Polls : PollIsCovered(p)'
  BY DEF OffsetIsCovered, PollsAreCovered
<1>1. file = 1 /\ (file' = 1 => UNCHANGED file)
  <2>1. CASE Rotate
    BY <1>0, <2>1 DEF Rotate, TypeOK
  <2>2. CASE Log \/ Reset \/ UNCHANGED vars
    BY <1>0, <2>2 DEF Log, Reset, vars
  <2>3. ASSUME NEW p \in Polls, Start(p) \/ PollStep(p) PROVE file' = file
    BY <2>3 DEF Start, PollStep, CountLines, Tail, Record, Fail
  <2> QED
    BY <1>0, <2>1, <2>2, <2>3 DEF Next
<1>2. /\ live # Unset => \A k \in 1 .. live : k \in covered
      /\ \A p \in Polls : PollIsCovered(p)
  BY <1>1 DEF OffsetIsCovered, PollsAreCovered
<1>3. CASE Log
  <2>1. UNCHANGED <<live, pc, last, count, got, passed, covered>> /\ length' = length + 1
    BY <1>3 DEF Log, pollVars
  <2> QED
    BY <1>2, <2>1 DEF PollIsCovered, IsInitial, TypeOK, Counts
<1>4. CASE Rotate
  BY <1>0, <1>1, <1>4 DEF Rotate
<1>5. CASE Reset
  BY <1>2, <1>5 DEF Reset, pollVars, PollIsCovered, IsInitial
<1>6. ASSUME NEW p \in Polls, Start(p) \/ PollStep(p)
      PROVE  /\ live' # Unset => \A k \in 1 .. live' : k \in covered'
             /\ \A q \in Polls : PollIsCovered(q)'
  <2>1. covered \subseteq covered' /\ UNCHANGED length
    BY <1>6 DEF Start, PollStep, CountLines, Tail, Record, Fail
  <2>2. ASSUME NEW q \in Polls, q # p PROVE PollIsCovered(q)'
    <3>1. /\ pc'[q] = pc[q] /\ last'[q] = last[q] /\ count'[q] = count[q]
          /\ got'[q] = got[q] /\ passed'[q] = passed[q]
      BY <1>6, <2>2 DEF Start, PollStep, CountLines, Tail, Record, Fail, Answered, Goto,
                        TypeOK
    <3> QED
      BY <1>2, <2>1, <3>1 DEF PollIsCovered, IsInitial
  <2>3. CASE Start(p)
    BY <1>2, <2>2, <2>3 DEF Start, Goto, PollIsCovered, TypeOK
  <2>4. CASE CountLines(p)
    BY <1>2, <2>2, <2>4 DEF CountLines, Goto, PollIsCovered, TypeOK, Counts
  <2>5. CASE Tail(p)
    <3>1. count[p] <= length
      BY <1>2, <2>5 DEF Tail, PollIsCovered
    <3>2. /\ pc'[p] = "record" /\ UNCHANGED <<live, last, count, covered>>
      BY <2>5 DEF Tail, Goto, TypeOK
    <3>3. PollIsCovered(p)'
      BY <1>2, <2>1, <2>5, <3>1, <3>2, AnswerCovers DEF PollIsCovered
    <3> QED
      BY <1>2, <2>2, <3>2, <3>3
  <2>6. CASE Record(p)
    <3>1. PollIsCovered(p)'
      BY <2>6 DEF Record, Answered, Goto, PollIsCovered, TypeOK
    <3>2. CASE IsInitial(p) \/ Grown(p)
      <4>1. live' = count[p] /\ covered' = covered \cup got[p] \cup passed[p]
        BY <1>1, <2>6, <3>2 DEF Record
      <4>2. \A k \in 1 .. count[p] : \/ k \in got[p] \cup passed[p]
                                     \/ ~IsInitial(p) /\ k <= last[p]
        BY <1>2, <2>6 DEF Record, PollIsCovered
      <4>3. ASSUME ~IsInitial(p), NEW k \in 1 .. count[p], k <= last[p]
            PROVE  k \in covered
        <5>1. last[p] \in Counts /\ last[p] # Unset
          BY <4>3 DEF IsInitial, TypeOK
        <5>2. k \in 1 .. last[p]
          BY <4>3, <5>1 DEF TypeOK, Counts
        <5> QED
          BY <1>2, <5>1, <5>2 DEF PollIsCovered
      <4> QED
        BY <2>2, <3>1, <4>1, <4>2, <4>3
    <3>3. CASE ~(IsInitial(p) \/ Grown(p))
      BY <1>2, <2>2, <2>6, <3>1, <3>3 DEF Record
    <3> QED
      BY <3>2, <3>3
  <2>7. CASE Fail(p)
    <3>1. PollIsCovered(p)'
      BY <2>7 DEF Fail, Answered, Goto, PollIsCovered, TypeOK
    <3> QED
      BY <1>2, <2>2, <2>7, <3>1 DEF Fail
  <2> QED
    BY <1>6, <2>3, <2>4, <2>5, <2>6, <2>7 DEF PollStep
<1>7. CASE UNCHANGED vars
  BY <1>2, <1>7 DEF vars, PollIsCovered, IsInitial
<1> QED
  BY <1>3, <1>4, <1>5, <1>6, <1>7 DEF Next

LEMMA Inductive == IInv /\ [Next]_vars => IInv'
  BY StepKeepsTypes, StepKeepsCovered DEF IInv

(* Every reachable state is of the types stated.                           *)
THEOREM LiveTailTypes == Spec => []TypeOK
<1>1. IInv => TypeOK
  BY DEF IInv
<1> QED
  BY InitEstablishes, Inductive, <1>1, PTL DEF Spec

(* The offset never passes a line nobody looked at, with any number of     *)
(* polls in flight and whatever their searches find: it was given to a     *)
(* poll, or not found by the search of one, or left out by its limits.     *)
(* Where all polls look for the same, this is every line that finds, short *)
(* of the limits; where they do not, no more is promised, as the offset is *)
(* one for all.                                                            *)
THEOREM NoLineIsPassedOver == Spec => []OffsetIsCovered
<1>1. IInv => OffsetIsCovered
  BY DEF IInv
<1> QED
  BY InitEstablishes, Inductive, <1>1, PTL DEF Spec
=============================================================================
