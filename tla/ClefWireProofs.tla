-------------------------- MODULE ClefWireProofs --------------------------
(***************************************************************************)
(* For any ids, scales and limits: the mapping of question ids loses no    *)
(* question, renames no legal id, and gives every score back to the id     *)
(* that asked.                                                             *)
(***************************************************************************)
EXTENDS ClefWire, FiniteSetTheorems, TLAPS

Distinct == \A i, j \in 1..Len(names) : names[i] = names[j] => i = j

\* The two dictionaries of clef_question_ids agree, map wires to the ids done
\* so far, one wire to each, and no wire is the id of another question.
MapInv ==
    /\ Distinct /\ sent = restore
    /\ \A w \in DOMAIN restore : \E i \in 1..mapped : restore[w] = names[i]
    /\ \A i \in 1..mapped : \E w \in DOMAIN restore : restore[w] = names[i]
    /\ \A v, w \in DOMAIN restore : restore[v] = restore[w] => v = w
    /\ \A w \in DOMAIN restore : Legal(w) /\ (w = restore[w] \/ w \notin Asked)
    /\ \A i \in 1..mapped : Legal(names[i]) =>
          names[i] \in DOMAIN restore /\ restore[names[i]] = names[i]

\* A wire id per question, within the limit.
CountInv ==
    /\ IsFiniteSet(DOMAIN restore) /\ Cardinality(DOMAIN restore) = mapped
    /\ phase \in {"map", "wire"} => Len(names) <= MaxQuestions
    /\ phase \in {"wire", "done"} => mapped = Len(names)

IInv == TypeOK /\ MapInv /\ CountInv /\ RoundTrip

\* What MapOne does, with the wire id it picks.
LEMMA MapStep ==
    ASSUME IInv, MapOne
    PROVE  \E w \in Wires :
             /\ w \notin DOMAIN restore /\ Legal(w)
             /\ w = names[mapped + 1] \/ w \notin Asked
             /\ Legal(names[mapped + 1]) => w = names[mapped + 1]
             /\ sent' = Extended(sent, w, names[mapped + 1])
             /\ restore' = Extended(restore, w, names[mapped + 1])
  <1> DEFINE name == names[mapped + 1]
  <1>1. mapped + 1 \in 1..Len(names) /\ name \in Ids /\ name \in Asked /\ name \in Wires
    BY IdsAssumption DEF IInv, TypeOK, MapOne, Asked
  <1>2. CASE Legal(name) /\ name \notin DOMAIN restore
             /\ sent' = Extended(sent, name, name) /\ restore' = Extended(restore, name, name)
    BY <1>1, <1>2
  <1>3. ASSUME NEW k \in Suffixes,
               ~Legal(name) \/ name \in DOMAIN restore, Free(Generated(k)),
               sent' = Extended(sent, Generated(k), name),
               restore' = Extended(restore, Generated(k), name)
        PROVE  \E w \in Wires :
                 /\ w \notin DOMAIN restore /\ Legal(w)
                 /\ w = name \/ w \notin Asked
                 /\ Legal(name) => w = name
                 /\ sent' = Extended(sent, w, name)
                 /\ restore' = Extended(restore, w, name)
    <2>1. Cardinality(DOMAIN restore) \in Nat /\ k \in Nat
      BY FS_CardinalityType, <1>3, IdsAssumption DEF IInv, CountInv, Suffixes
    <2>2. Generated(k) \in Wires /\ Legal(Generated(k))
      BY <2>1 DEF Generated, Wires, Forms, Legal
    <2>3. ~Legal(name)
      <3>1. SUFFICES ASSUME name \in DOMAIN restore PROVE FALSE
        BY <1>3
      <3>2. restore[name] = name
        BY <3>1, <1>1 DEF IInv, MapInv
      <3>3. PICK i \in 1..mapped : restore[name] = names[i]
        BY <3>1 DEF IInv, MapInv
      <3>4. i \in 1..Len(names) /\ i # mapped + 1
        BY <1>1 DEF IInv, TypeOK
      <3> QED BY <3>2, <3>3, <3>4, <1>1 DEF IInv, MapInv, Distinct
    <2> QED BY <2>2, <2>3, <1>3 DEF Free
  <1> QED BY <1>2, <1>3 DEF MapOne

-----------------------------------------------------------------------------

LEMMA InitInv == Init => IInv
  <1> SUFFICES ASSUME Init PROVE IInv
    OBVIOUS
  <1>1. TypeOK
    BY DEF Init, TypeOK, Empty
  <1>2. MapInv
    BY DEF Init, MapInv, Distinct, Empty
  <1>3. CountInv
    <2>1. DOMAIN restore = {}
      BY DEF Init, Empty
    <2> QED BY <2>1, FS_EmptySet DEF Init, CountInv
  <1>4. RoundTrip
    BY DEF Init, RoundTrip
  <1> QED BY <1>1, <1>2, <1>3, <1>4 DEF IInv

\* A step that leaves the dictionaries alone and cannot end in "done".
LEMMA RaiseInv == IInv /\ Raise => IInv'
  <1> SUFFICES ASSUME IInv, Raise PROVE IInv'
    OBVIOUS
  <1>1. TypeOK'
    BY DEF IInv, Raise, TypeOK
  <1>2. MapInv'
    BY DEF IInv, Raise, MapInv, Distinct, Legal, Asked
  <1>3. CountInv' /\ RoundTrip'
    BY DEF IInv, Raise, CountInv, RoundTrip
  <1> QED BY <1>1, <1>2, <1>3 DEF IInv

LEMMA AskInv == ASSUME IInv, NEW q \in Questions, Ask(q) PROVE IInv'
  <1>1. q \in Seq(Ids) /\ \A i, j \in 1..Len(q) : q[i] = q[j] => i = j
    BY IdsAssumption DEF Questions
  <1>2. TypeOK'
    BY <1>1 DEF IInv, Ask, TypeOK, Empty
  <1>3. MapInv'
    BY <1>1 DEF Ask, MapInv, Distinct, Empty
  <1>4. CountInv'
    <2>1. DOMAIN restore' = {}
      BY DEF Ask, Empty
    <2>2. Len(q) \in Nat
      BY <1>1
    <2> QED BY <2>1, <2>2, FS_EmptySet, IdsAssumption DEF Ask, CountInv
  <1>5. RoundTrip'
    BY DEF Ask, RoundTrip
  <1> QED BY <1>2, <1>3, <1>4, <1>5 DEF IInv

LEMMA MapOneInv == IInv /\ MapOne => IInv'
  <1> SUFFICES ASSUME IInv, MapOne PROVE IInv'
    OBVIOUS
  <1> DEFINE name == names[mapped + 1]
  <1>1. PICK w \in Wires :
             /\ w \notin DOMAIN restore /\ Legal(w)
             /\ w = name \/ w \notin Asked
             /\ Legal(name) => w = name
             /\ sent' = Extended(sent, w, name)
             /\ restore' = Extended(restore, w, name)
    BY MapStep
  <1>2. /\ mapped \in Nat /\ mapped' = mapped + 1
        /\ mapped + 1 \in 1..Len(names) /\ name \in Ids
        /\ names' = names /\ phase' = phase /\ phase = "map"
        /\ UNCHANGED <<key, account, result>>
    BY DEF IInv, TypeOK, MapOne
  <1>3. /\ DOMAIN restore' = DOMAIN restore \cup {w}
        /\ restore'[w] = name
        /\ \A v \in DOMAIN restore : restore'[v] = restore[v]
        /\ sent' = restore'
    BY <1>1 DEF Extended, IInv, MapInv
  <1>4. TypeOK'
    BY <1>1, <1>2, <1>3 DEF IInv, TypeOK
  <1>5. \A i \in 1..(mapped + 1) : i \in 1..mapped \/ i = mapped + 1
    BY <1>2
  <1>6. \A i \in 1..mapped : i \in 1..Len(names) /\ names[i] # name
    BY <1>2 DEF IInv, MapInv, Distinct, TypeOK
  <1>7. MapInv'
    <2>1. Distinct' /\ (sent = restore)'
      BY <1>2, <1>3 DEF IInv, MapInv, Distinct
    <2>2. (\A v \in DOMAIN restore : \E i \in 1..mapped : restore[v] = names[i])'
      BY <1>2, <1>3, <1>5 DEF IInv, MapInv
    <2>3. (\A i \in 1..mapped : \E v \in DOMAIN restore : restore[v] = names[i])'
      BY <1>2, <1>3, <1>5 DEF IInv, MapInv
    <2>4. (\A u, v \in DOMAIN restore : restore[u] = restore[v] => u = v)'
      <3>1. \A v \in DOMAIN restore : restore[v] # name
        BY <1>6 DEF IInv, MapInv
      <3> QED BY <3>1, <1>3 DEF IInv, MapInv
    <2>5. (\A v \in DOMAIN restore : Legal(v) /\ (v = restore[v] \/ v \notin Asked))'
      BY <1>1, <1>2, <1>3 DEF IInv, MapInv, Asked, Legal
    <2>6. (\A i \in 1..mapped : Legal(names[i]) =>
              names[i] \in DOMAIN restore /\ restore[names[i]] = names[i])'
      BY <1>1, <1>2, <1>3, <1>5 DEF IInv, MapInv, Legal
    <2> QED BY <2>1, <2>2, <2>3, <2>4, <2>5, <2>6 DEF MapInv
  <1>8. CountInv'
    <2>1. /\ IsFiniteSet(DOMAIN restore \cup {w})
          /\ Cardinality(DOMAIN restore \cup {w}) = mapped + 1
      BY <1>1, FS_AddElement DEF IInv, CountInv
    <2> QED BY <2>1, <1>2, <1>3 DEF IInv, CountInv
  <1>9. RoundTrip'
    BY <1>2 DEF RoundTrip
  <1> QED BY <1>4, <1>7, <1>8, <1>9 DEF IInv

LEMMA SendInv == IInv /\ Send => IInv'
  <1> SUFFICES ASSUME IInv, Send PROVE IInv'
    OBVIOUS
  <1>1. CASE account = "good"
    <2>1. /\ phase = "map" /\ phase' = "wire" /\ mapped = Len(names)
          /\ UNCHANGED <<key, account, names, mapped, sent, restore, result>>
      BY <1>1 DEF Send
    <2>2. TypeOK' /\ CountInv' /\ RoundTrip'
      BY <2>1 DEF IInv, TypeOK, CountInv, RoundTrip
    <2>3. MapInv'
      BY <2>1 DEF IInv, MapInv, Distinct, Legal, Asked
    <2> QED BY <2>2, <2>3 DEF IInv
  <1>2. CASE account # "good"
    BY <1>2, RaiseInv DEF Send
  <1> QED BY <1>1, <1>2

LEMMA AnswerInv == ASSUME IInv, NEW answers \in Answers, Answer(answers) PROVE IInv'
  <1>1. CASE ~Accepted(answers)
    BY <1>1, RaiseInv DEF Answer
  <1>2. CASE Accepted(answers)
    <2>1. /\ phase = "wire" /\ phase' = "done" /\ result' = Restored(answers)
          /\ UNCHANGED <<key, account, names, mapped, sent, restore>>
      BY <1>2 DEF Answer
    <2>2. MapInv' /\ CountInv'
      BY <2>1 DEF IInv, MapInv, CountInv, Distinct, Legal, Asked
    <2>3. \A w \in DOMAIN restore : restore[w] \in Ids /\ restore[w] \in Asked
      BY DEF IInv, TypeOK, MapInv, Asked
    <2>4. Asked = {restore[w] : w \in DOMAIN restore}
      BY <2>1, <2>3 DEF IInv, MapInv, CountInv, Asked
    <2>5. DOMAIN result' = Asked
      BY <2>1, <2>4 DEF Restored
    <2>6. ASSUME NEW id \in Asked
          PROVE  /\ result'[id] \in Ids \X Nat /\ result'[id][1] = id
                 /\ result'[id][2] \in 0..(Points[id] - 1)
      <3> DEFINE w == CHOOSE w \in DOMAIN restore : restore[w] = id
      <3>1. w \in DOMAIN restore /\ restore[w] = id
        BY <2>4
      <3>2. result'[id] = <<sent[w], answers[w]>>
        BY <2>1, <2>4 DEF Restored
      <3>3. sent[w] = id /\ w \in DOMAIN sent
        BY <3>1 DEF IInv, MapInv
      <3>4. w \in DOMAIN answers /\ Valid(id, answers[w])
        BY <3>3, <1>2 DEF Accepted
      <3>5. answers[w] \in Values \cup {Bad} /\ id \in Ids
        BY <3>1, <3>4, <2>3 DEF Answers
      <3>6. answers[w] \in Nat /\ Points[id] \in Nat
        BY <3>4, <3>5, IdsAssumption DEF Valid
      <3> QED BY <3>2, <3>3, <3>4, <3>5, <3>6 DEF Valid
    <2>7. TypeOK'
      BY <2>1, <2>5, <2>6 DEF IInv, TypeOK
    <2>8. RoundTrip'
      BY <2>1, <2>5, <2>6 DEF RoundTrip, Asked
    <2> QED BY <2>2, <2>7, <2>8 DEF IInv
  <1> QED BY <1>1, <1>2

LEMMA StepInv == IInv /\ [Next]_vars => IInv'
  <1> SUFFICES ASSUME IInv, [Next]_vars PROVE IInv'
    OBVIOUS
  <1>1. CASE UNCHANGED vars
    <2>1. TypeOK' /\ CountInv' /\ RoundTrip'
      BY <1>1 DEF vars, IInv, TypeOK, CountInv, RoundTrip, Asked
    <2>2. MapInv'
      BY <1>1 DEF vars, IInv, MapInv, Distinct, Legal, Asked
    <2> QED BY <2>1, <2>2 DEF IInv
  <1>2. CASE \E q \in Questions : Ask(q)
    BY <1>2, AskInv
  <1>3. CASE MapOne
    BY <1>3, MapOneInv
  <1>4. CASE Send
    BY <1>4, SendInv
  <1>5. CASE Fail
    BY <1>5, RaiseInv DEF Fail
  <1>6. CASE \E answers \in Answers : Answer(answers)
    BY <1>6, AnswerInv
  <1> QED BY <1>1, <1>2, <1>3, <1>4, <1>5, <1>6 DEF Next

LEMMA InvAlways == Spec => []IInv
  BY InitInv, StepInv, PTL DEF Spec

-----------------------------------------------------------------------------

\* The variables stay in their ranges: every wire id is one, every score a
\* number.
THEOREM TypeCorrect == Spec => []TypeOK
  <1>1. IInv => TypeOK
    BY DEF IInv
  <1> QED BY <1>1, InvAlways, PTL

\* Every id that was asked about gets the score of its own question back.
THEOREM ScoresComeHome == Spec => []RoundTrip
  <1>1. IInv => RoundTrip
    BY DEF IInv
  <1> QED BY <1>1, InvAlways, PTL

\* What travels is legal, complete, and renames no id that was legal.
THEOREM RequestIsLegal == Spec => []WireIsLegal
  <1>1. IInv => WireIsLegal
    <2> SUFFICES ASSUME IInv, phase = "wire" PROVE
          /\ \A w \in DOMAIN sent : Legal(w)
          /\ Cardinality(DOMAIN sent) = Len(names) /\ Len(names) <= MaxQuestions
          /\ \A id \in Asked : Legal(id) => id \in DOMAIN restore /\ restore[id] = id
      BY DEF WireIsLegal
    <2> QED BY DEF IInv, MapInv, CountInv, Asked
  <1> QED BY <1>1, InvAlways, PTL
=============================================================================
