-------------------------- MODULE WalkState_proofs --------------------------
(***************************************************************************)
(* Proofs about WalkState, for every backup, chain, margin and number of   *)
(* starts: what the verdicts say of the chain, what the walk on file is    *)
(* good for, and that it forgets nothing.                                  *)
(***************************************************************************)
EXTENDS WalkState, FiniteSetTheorems, SequenceTheorems, TLAPS

\* A transaction of channel c is in none of the first n blocks, but for those
\* in torn, and cannot get into one of them any more.
Safe(c, t, n, torn) ==
  /\ minedAt[t] \notin (1..n) \ torn
  /\ \A i \in (Tip + 1)..n : i \in torn \/ i < Hint[c]

\* What a walk is still watching for.
Awaited(w, c) ==
  IF w.spent[c] = None THEN Closes(c) ELSE IF Collects(w, c) THEN {Sweep[c]} ELSE {}

Covers(w, n) ==
  \A c \in w.all : \A t \in Awaited(w, c) : Safe(c, t, n - 1, w.torn)

\* The block before which the walk at work has passed everything.
Position == IF pc = "walk" THEN h ELSE cur.next

ChainInv ==
  /\ \A c \in Chan :
       /\ minedAt[Fund[c]] > 0 => Hint[c] <= minedAt[Fund[c]]
       /\ \A t \in Closes(c) : minedAt[t] > 0 =>
            0 < minedAt[Fund[c]] /\ minedAt[Fund[c]] <= minedAt[t]
       /\ minedAt[Sweep[c]] > 0 =>
            0 < minedAt[PeerClose[c]] /\ minedAt[PeerClose[c]] <= minedAt[Sweep[c]]
       /\ \A t \in Closes(c) \cup {Sweep[c]} : minedAt[t] > 0 => Hint[c] <= minedAt[t]
  /\ \A i \in 1..Tip : block[i] <= drops

MemInv == mem # None => Covers(mem, mem.next)

WorkInv ==
  cur # None => /\ Covers(cur, Position)
                /\ pc = "walk" => cur.next <= h /\ h > 0

\* Nothing below the block the file stands on was replaced, or no block
\* has the hash the file keeps.
FileInv ==
  file # None =>
    /\ file.next = file.reached - Back + 1 /\ 0 < file.lowest /\ file.lowest <= Tip + 1
    /\ file.next <= file.lowest =>
         Covers(file, file.next) /\ block[file.next - 1] = file.last
    /\ file.lowest < file.next =>
         file.last < drops /\ \A i \in (file.lowest)..Tip : file.last < block[i]

ShownInv ==
  \A c \in Chan :
    /\ shown.verdict[c] = "open" => \A t \in Closes(c) : Safe(c, t, shown.upTo, shown.torn)
    /\ shown.verdict[c] = "collect" => Safe(c, Sweep[c], shown.upTo, shown.torn)

\* Whoever makes the next file has the channels of the last ones.
CoveredInv ==
  /\ file = None => covered = {}
  /\ searched /\ mem # None => covered \subseteq mem.all
  /\ pc # "idle" => (job = "check") = searched
  /\ pc # "idle" /\ job = "check" => covered \subseteq cur.all
  /\ pc = "save" => mem # None /\ mem.all = cur.all

WalkParts == MemInv /\ WorkInv /\ FileInv /\ ShownInv

IInv == TypeOK /\ ChainInv /\ WalkParts /\ CoveredInv /\ NoChannelIsForgotten

-----------------------------------------------------------------------------
(* The operators the walk is made of.                                      *)

LEMMA MinOf ==
  ASSUME NEW S, S \subseteq Nat, S # {}
  PROVE  Min(S) \in S /\ \A x \in S : Min(S) <= x
<1> DEFINE T == {0..x : x \in S}
<1>1. T \subseteq FiniteSubsetsOf(Nat) /\ T # {}
  <2>1. \A x \in S : IsFiniteSet(0..x)
    BY FS_Interval
  <2>2. \A x \in S : 0..x \subseteq Nat
    OBVIOUS
  <2>3. \A I \in T : I \in FiniteSubsetsOf(Nat)
    BY <2>1, <2>2, Zenon DEF FiniteSubsetsOf
  <2> QED
    BY <2>3
<1>2. IsWellFoundedOn(StrictSubsetOrdering(Nat), FiniteSubsetsOf(Nat))
  BY FS_StrictSubsetOrderingWellFounded
<1> HIDE DEF T
<1>3. PICK I \in T : \A J \in T : <<J, I>> \notin StrictSubsetOrdering(Nat)
  BY <1>1, <1>2, WFMin, Zenon
<1> USE DEF T
<1>4. PICK m \in S : I = 0..m
  OBVIOUS
<1>5. \A x \in S : m <= x
  <2> SUFFICES ASSUME NEW x \in S, x < m PROVE FALSE
    OBVIOUS
  <2>1. 0..x \in T /\ 0..x \subseteq Nat /\ 0..m \subseteq Nat
    OBVIOUS
  <2>2. 0..x \subseteq 0..m /\ m \in 0..m /\ m \notin 0..x
    OBVIOUS
  <2>3. <<0..x, 0..m>> \in StrictSubsetOrdering(Nat)
    BY <2>1, <2>2 DEF StrictSubsetOrdering
  <2> QED
    BY <1>3, <1>4, <2>1, <2>3
<1>6. \E m1 \in S : \A x \in S : m1 <= x
  BY <1>5
<1> QED
  BY <1>6 DEF Min

LEMMA NextStartFacts ==
  ASSUME NEW w, w.all \subseteq Chan, NEW at \in Nat, NEW end \in Nat
  PROVE  /\ NextStart(w, at, end) \in Nat
         /\ NextStart(w, at, end) <= end + 1
         /\ at <= end => at < NextStart(w, at, end)
         /\ \A c \in w.all : at < Hint[c] => NextStart(w, at, end) <= Hint[c]
<1> DEFINE S == {Hint[c] : c \in {c \in w.all : Hint[c] > at}} \cup {end + 1}
<1>1. S \subseteq Nat /\ S # {}
  BY ParametersAssumption
<1>2. Min(S) \in S /\ \A x \in S : Min(S) <= x
  BY <1>1, MinOf
<1>3. NextStart(w, at, end) = Min(S)
  BY DEF NextStart
<1>4. Min(S) \in Nat /\ Min(S) <= end + 1
  BY <1>1, <1>2
<1>5. at <= end => at < Min(S)
  BY <1>2, ParametersAssumption
<1>6. \A c \in w.all : at < Hint[c] => Min(S) <= Hint[c]
  BY <1>2, ParametersAssumption
<1> QED
  BY <1>3, <1>4, <1>5, <1>6

LEMMA MinTwo ==
  ASSUME NEW a \in Nat, NEW b \in Nat
  PROVE  Min({a, b}) = IF a <= b THEN a ELSE b
<1>1. Min({a, b}) \in {a, b} /\ \A x \in {a, b} : Min({a, b}) <= x
  BY MinOf
<1> QED
  BY <1>1

LEMMA MaxTwo ==
  ASSUME NEW a \in Nat, NEW b \in Nat
  PROVE  Max({a, b}) = IF a <= b THEN b ELSE a
<1>1. \E m \in {a, b} : \A x \in {a, b} : m >= x
  OBVIOUS
<1>2. Max({a, b}) \in {a, b} /\ \A x \in {a, b} : Max({a, b}) >= x
  BY <1>1 DEF Max
<1> QED
  BY <1>2

-----------------------------------------------------------------------------
(* Walks, and what a step does to one.                                     *)

LEMMA NoneIsApart == None \notin Walk /\ None \notin File
  BY ParametersAssumption

LEMMA TypeFacts ==
  ASSUME TypeOK
  PROVE  /\ Tip \in 1..MaxTip /\ Tip \in Nat /\ MaxTip \in Nat
         /\ mem # None => mem \in Walk /\ WalkOK(mem) /\ mem.all \subseteq Chan /\ mem.next \in Nat
         /\ cur # None => cur \in Walk /\ WalkOK(cur) /\ cur.all \subseteq Chan /\ cur.next \in Nat
         /\ file # None => /\ file \in File /\ WalkOK(file) /\ file.all \subseteq Chan
                           /\ file.next \in Nat /\ file.next > 1 /\ file.lowest \in Nat
                           /\ file.reached \in Nat /\ file.last \in Nat /\ file.last <= MaxDrops
         /\ h \in Nat /\ target \in Nat /\ shown.upTo \in Nat /\ drops \in Nat
<1>1. /\ \A x \in Heights : x \in Nat
      /\ \A x \in 0..MaxDrops : x \in Nat /\ x <= MaxDrops
      /\ \A x \in 1..MaxTip : x \in Nat
      /\ \A x \in 0..MaxTip : x \in Nat
      /\ MaxTip \in Nat
  BY ParametersAssumption DEF Heights
<1>2. /\ Tip \in 1..MaxTip /\ drops \in 0..MaxDrops /\ h \in Heights /\ target \in 0..MaxTip
      /\ shown.upTo \in Heights
  BY DEF TypeOK
<1>3. mem # None => mem \in Walk /\ WalkOK(mem) /\ mem.all \subseteq Chan /\ mem.next \in Heights
  BY DEF TypeOK, Walk
<1>4. cur # None => cur \in Walk /\ WalkOK(cur) /\ cur.all \subseteq Chan /\ cur.next \in Heights
  BY DEF TypeOK, Walk
<1>5. file # None => /\ file \in File /\ WalkOK(file) /\ file.all \subseteq Chan
                     /\ file.next \in Heights /\ file.next > 1 /\ file.lowest \in Heights
                     /\ file.reached \in Heights /\ file.last \in 0..MaxDrops
  BY DEF TypeOK, File
<1>6. /\ Tip \in Nat /\ h \in Nat /\ target \in Nat /\ shown.upTo \in Nat /\ drops \in Nat
  BY <1>1, <1>2, Zenon
<1>7. /\ mem # None => mem.next \in Nat
      /\ cur # None => cur.next \in Nat
      /\ file # None => /\ file.next \in Nat /\ file.lowest \in Nat /\ file.reached \in Nat
                        /\ file.last \in Nat /\ file.last <= MaxDrops
  BY <1>1, <1>3, <1>4, <1>5, Zenon
<1> QED
  BY <1>1, <1>2, <1>3, <1>4, <1>5, <1>6, <1>7, Zenon

LEMMA NewWalkOK ==
  ASSUME NEW F, F \subseteq Chan
  PROVE  NewWalk(F) \in Walk /\ WalkOK(NewWalk(F)) /\ NewWalk(F).all = F
         /\ NewWalk(F).next = 0
<1>1. 0 \in Heights
  BY ParametersAssumption DEF Heights
<1> QED
  BY <1>1 DEF NewWalk, Walk, WalkOK

LEMMA TearOK ==
  ASSUME NEW w \in Walk, WalkOK(w), NEW n, Tip \in 1..MaxTip
  PROVE  /\ Tear(w, n) \in Walk /\ WalkOK(Tear(w, n))
         /\ Tear(w, n).all = w.all /\ Tear(w, n).next = w.next
         /\ Tear(w, n).spent = w.spent /\ Tear(w, n).swept = w.swept
         /\ Tear(w, n).torn = IF Tip < n THEN w.torn \cup {Tip} ELSE w.torn
<1>1. Tip \in Heights \ {0}
  BY ParametersAssumption DEF Heights
<1> QED
  BY <1>1 DEF Tear, Walk, WalkOK

LEMMA CutOK ==
  ASSUME NEW w \in Walk, WalkOK(w), NEW n \in Heights
  PROVE  LET v == [w EXCEPT !.next = n, !.torn = Below(@, n)]
         IN  /\ v \in Walk /\ WalkOK(v) /\ v.all = w.all /\ v.next = n
             /\ v.spent = w.spent /\ v.swept = w.swept /\ v.torn = {i \in w.torn : i < n}
  BY DEF Walk, WalkOK, Below

LEMMA LookIntoOK ==
  ASSUME NEW w \in Walk, WalkOK(w), NEW at \in Nat
  PROVE  /\ LookInto(w, at) \in Walk /\ WalkOK(LookInto(w, at))
         /\ LookInto(w, at).all = w.all /\ LookInto(w, at).next = w.next
         /\ LookInto(w, at).torn = w.torn \ {at}
         /\ w.swept \subseteq LookInto(w, at).swept
         /\ \A c \in w.all :
              /\ w.spent[c] # None => LookInto(w, at).spent[c] = w.spent[c]
              /\ LookInto(w, at).spent[c] = None => \A t \in Closes(c) : minedAt[t] # at
              /\ (w.spent[c] = None /\ LookInto(w, at).spent[c] # None)
                   => /\ LookInto(w, at).spent[c] \in Closes(c)
                      /\ minedAt[LookInto(w, at).spent[c]] = at
              /\ (LookInto(w, at).spent[c] = PeerClose[c] /\ c \notin LookInto(w, at).swept)
                   => minedAt[Sweep[c]] # at
<1> DEFINE spent == [c \in Chan |-> IF c \in w.all /\ w.spent[c] = None /\ CloseIn(c, at) # {}
                               THEN CHOOSE t \in CloseIn(c, at) : TRUE ELSE w.spent[c]]
           found == w.found \cup {c \in w.all : minedAt[Fund[c]] = at}
           swept == w.swept \cup {c \in w.all : spent[c] = PeerClose[c] /\ minedAt[Sweep[c]] = at}
<1>1. /\ LookInto(w, at).all = w.all /\ LookInto(w, at).next = w.next
      /\ LookInto(w, at).spent = spent /\ LookInto(w, at).found = found
      /\ LookInto(w, at).swept = swept /\ LookInto(w, at).torn = w.torn \ {at}
  BY DEF LookInto, Walk
<1>2. LookInto(w, at) = [w EXCEPT !.found = found, !.spent = spent, !.swept = swept,
                                  !.torn = w.torn \ {at}]
  BY DEF LookInto
<1>3. \A c \in Chan : CloseIn(c, at) # {} =>
        /\ (CHOOSE t \in CloseIn(c, at) : TRUE) \in Closes(c)
        /\ minedAt[CHOOSE t \in CloseIn(c, at) : TRUE] = at
  BY DEF CloseIn
<1>4. \A c \in Chan : Closes(c) \subseteq Tx
  BY DEF Tx
<1>5. spent \in [Chan -> Tx \cup {None}]
  BY <1>3, <1>4 DEF Walk
<1>6. w.all \subseteq Chan /\ w.found \subseteq w.all /\ w.swept \subseteq w.all
  BY DEF Walk, WalkOK
<1>7. found \subseteq w.all /\ swept \subseteq w.all
  BY <1>6
<1>8. \A c \in w.swept : w.spent[c] = PeerClose[c] /\ w.spent[c] # None
  BY <1>4, <1>6, ParametersAssumption DEF WalkOK, Closes
<1> HIDE DEF found
<1>9. LookInto(w, at) \in Walk
  BY <1>2, <1>5, <1>6, <1>7 DEF Walk
<1>10. \A c \in Chan : spent[c] = None \/ (c \in w.all /\ spent[c] \in Closes(c))
  BY <1>3 DEF WalkOK
<1>11. \A c \in swept : spent[c] = PeerClose[c]
  BY <1>6, <1>8
<1>12. WalkOK(LookInto(w, at))
  BY <1>1, <1>7, <1>10, <1>11 DEF WalkOK
<1>13. \A c \in w.all :
         /\ w.spent[c] # None => spent[c] = w.spent[c]
         /\ spent[c] = None => \A t \in Closes(c) : minedAt[t] # at
         /\ (w.spent[c] = None /\ spent[c] # None)
              => spent[c] \in Closes(c) /\ minedAt[spent[c]] = at
         /\ (spent[c] = PeerClose[c] /\ c \notin swept) => minedAt[Sweep[c]] # at
  <2>1. \A c \in w.all : spent[c] = None => \A t \in Closes(c) : minedAt[t] # at
    BY <1>3, <1>4, <1>6, ParametersAssumption DEF CloseIn
  <2> QED
    BY <2>1, <1>3, <1>6
<1> QED
  BY <1>1, <1>9, <1>12, <1>13

LEMMA LoadWalkOK ==
  ASSUME NEW F, F \subseteq file.all, file \in File, WalkOK(file)
  PROVE  /\ LoadWalk(F) \in Walk /\ WalkOK(LoadWalk(F))
         /\ LoadWalk(F).all = F /\ LoadWalk(F).next = file.next
         /\ LoadWalk(F).torn = file.torn
         /\ \A c \in F : /\ LoadWalk(F).spent[c] = file.spent[c]
                         /\ c \in LoadWalk(F).swept <=> c \in file.swept
<1>1. F \subseteq Chan
  BY DEF File
<1>2. \A c \in F : LoadWalk(F).spent[c] = file.spent[c]
  BY <1>1 DEF LoadWalk
<1>3. LoadWalk(F) \in Walk
  BY <1>1 DEF LoadWalk, Walk, File
<1>4. WalkOK(LoadWalk(F))
  BY <1>1 DEF LoadWalk, WalkOK
<1> QED
  BY <1>2, <1>3, <1>4 DEF LoadWalk

-----------------------------------------------------------------------------
(* The chain's steps.                                                      *)

LEMMA InitInv == Init => IInv
<1> SUFFICES ASSUME Init PROVE IInv
  OBVIOUS
<1>1. Tip = StartTip /\ \A i \in 1..Tip : block[i] = 0
  BY ParametersAssumption DEF Init, Tip
<1>2. \A c \in Chan : minedAt[Fund[c]] = IF c \in Pending THEN 0 ELSE Hint[c]
  <2> SUFFICES ASSUME NEW c \in Chan
               PROVE  minedAt[Fund[c]] = IF c \in Pending THEN 0 ELSE Hint[c]
    OBVIOUS
  <2>1. Fund[c] \in Tx /\ \A d \in Chan : Fund[c] = Fund[d] => c = d
    BY ParametersAssumption DEF Tx
  <2>2. CASE c \in Pending
    BY <2>1, <2>2 DEF Init
  <2>3. CASE c \notin Pending
    <3>1. (CHOOSE d \in Chan : Fund[c] = Fund[d]) = c
      BY <2>1
    <3> QED
      BY <2>1, <2>3, <3>1 DEF Init
  <2> QED
    BY <2>2, <2>3
<1>3. \A c \in Chan : \A t \in Closes(c) \cup {Sweep[c]} : t \in Tx /\ minedAt[t] = 0
  <2> SUFFICES ASSUME NEW c \in Chan, NEW t \in Closes(c) \cup {Sweep[c]}
               PROVE  t \in Tx /\ minedAt[t] = 0
    OBVIOUS
  <2>1. t \in Tx /\ \A d \in Chan : t # Fund[d]
    BY ParametersAssumption DEF Tx
  <2> QED
    BY <2>1 DEF Init
<1>4. minedAt \in [Tx -> 0..Tip]
  <2>1. \A c \in Chan : minedAt[Fund[c]] \in 0..Tip
    BY <1>1, <1>2, ParametersAssumption
  <2>2. \A t \in Tx : minedAt[t] \in 0..Tip
    BY <1>1, <1>3, <2>1, ParametersAssumption DEF Tx
  <2> QED
    BY <2>2 DEF Init
<1>5. TypeOK
  <2>1. block \in Seq(0..MaxDrops) /\ drops \in 0..MaxDrops /\ Tip \in 1..MaxTip
    <3>1. [i \in 1..StartTip |-> 0] \in Seq(0..MaxDrops)
      BY ParametersAssumption
    <3> QED
      BY <1>1, <3>1, ParametersAssumption DEF Init
  <2>2. shown \in [verdict: [Chan -> {"unverified", "open", "spent", "collect"}],
                   upTo: Heights, torn: SUBSET (Heights \ {0})]
    BY ParametersAssumption DEF Init, NothingShown, Heights
  <2>3. listed \subseteq Chan /\ gone \subseteq Chan \ listed
    BY DEF Init
  <2>4. file = None /\ mem = None /\ cur = None
    BY DEF Init
  <2>5. /\ pc \in {"idle", "start", "walk", "save"} /\ (pc = "idle" <=> cur = None)
        /\ job \in {"check", "search"} /\ covered \subseteq Chan
        /\ h \in Heights /\ target \in 0..MaxTip
    BY ParametersAssumption DEF Init, Heights
  <2>6. same \in BOOLEAN /\ searched \in BOOLEAN
    BY Zenon DEF Init
  <2> QED
    BY <1>4, <2>1, <2>2, <2>3, <2>4, <2>5, <2>6 DEF TypeOK
<1>6. ChainInv
  <2>1. \A c \in Chan : minedAt[Fund[c]] > 0 => Hint[c] <= minedAt[Fund[c]]
    BY <1>2, ParametersAssumption
  <2>2. \A c \in Chan : \A t \in Closes(c) \cup {Sweep[c]} : ~(minedAt[t] > 0)
    BY <1>3
  <2>3. \A i \in 1..Tip : block[i] <= drops
    BY <1>1 DEF Init
  <2> QED
    BY <2>1, <2>2, <2>3 DEF ChainInv
<1>7. WalkParts
  BY DEF Init, NothingShown, WalkParts, MemInv, WorkInv, FileInv, ShownInv
<1>8. CoveredInv /\ NoChannelIsForgotten
  BY DEF Init, CoveredInv, NoChannelIsForgotten
<1> QED
  BY <1>5, <1>6, <1>7, <1>8 DEF IInv

LEMMA ConnectedBlock ==
  ASSUME TypeOK, Connect
  PROVE  /\ block' \in Seq(0..MaxDrops) /\ Tip' = Tip + 1 /\ Tip \in 1..MaxTip /\ Tip' <= MaxTip
         /\ \A i \in 1..Tip : block'[i] = block[i]
         /\ block'[Tip + 1] = drops
         /\ minedAt' \in [Tx -> 0..Tip']
         /\ \A t \in Tx : minedAt'[t] # minedAt[t] => minedAt[t] = 0 /\ minedAt'[t] = Tip + 1
<1>1. /\ block' = Append(block, drops) /\ block \in Seq(0..MaxDrops) /\ drops \in 0..MaxDrops
      /\ Tip \in 1..MaxTip /\ Tip < MaxTip
  BY DEF Connect, TypeOK
<1>2. /\ block' \in Seq(0..MaxDrops) /\ Tip' = Tip + 1
      /\ \A i \in 1..Tip : block'[i] = block[i]
      /\ block'[Tip + 1] = drops
  BY <1>1 DEF Tip
<1>3. PICK T \in SUBSET Mineable :
        /\ MayBeMined(T)
        /\ minedAt' = [t \in Tx |-> IF t \in T THEN Tip + 1 ELSE minedAt[t]]
  BY DEF Connect
<1>4. \A t \in T : minedAt[t] = 0
  BY <1>3 DEF MayBeMined
<1>5. minedAt' \in [Tx -> 0..Tip']
  BY <1>1, <1>2, <1>3, ParametersAssumption DEF TypeOK
<1>6. \A t \in Tx : minedAt'[t] # minedAt[t] => minedAt[t] = 0 /\ minedAt'[t] = Tip + 1
  BY <1>3, <1>4
<1>7. Tip' <= MaxTip
  BY <1>1, <1>2, ParametersAssumption
<1> QED
  BY <1>1, <1>2, <1>5, <1>6, <1>7

LEMMA DroppedBlock ==
  ASSUME TypeOK, Disconnect
  PROVE  /\ block' \in Seq(0..MaxDrops) /\ Tip' = Tip - 1 /\ Tip \in 2..MaxTip
         /\ drops' = drops + 1 /\ drops' \in 0..MaxDrops
         /\ \A i \in 1..Tip' : block'[i] = block[i]
         /\ minedAt' \in [Tx -> 0..Tip']
         /\ \A t \in Tx : minedAt'[t] = IF minedAt[t] = Tip THEN 0 ELSE minedAt[t]
<1>1. /\ block' = SubSeq(block, 1, Tip - 1) /\ block \in Seq(0..MaxDrops)
      /\ Tip \in 2..MaxTip /\ drops' = drops + 1 /\ drops' \in 0..MaxDrops
  BY ParametersAssumption DEF Disconnect, TypeOK
<1>2. \A i \in 1..(Tip - 1) : block[i] \in 0..MaxDrops
  <2> SUFFICES ASSUME NEW i \in 1..(Tip - 1) PROVE block[i] \in 0..MaxDrops
    OBVIOUS
  <2>1. i \in 1..Len(block)
    BY <1>1 DEF Tip
  <2> QED
    BY <1>1, <2>1, ElementOfSeq
<1>3. /\ block' \in Seq(0..MaxDrops) /\ Tip' = Tip - 1
      /\ \A i \in 1..(Tip - 1) : block'[i] = block[i]
  <2>1. 1 \in Int /\ Tip - 1 \in Int
    BY <1>1
  <2>2. /\ SubSeq(block, 1, Tip - 1) \in Seq(0..MaxDrops)
        /\ Len(SubSeq(block, 1, Tip - 1)) = IF 1 <= Tip - 1 THEN (Tip - 1) - 1 + 1 ELSE 0
        /\ \A i \in 1..((Tip - 1) - 1 + 1) : SubSeq(block, 1, Tip - 1)[i] = block[1 + i - 1]
    BY <1>2, <2>1, SubSeqProperties
  <2>3. Tip' = Len(block')
    BY DEF Tip
  <2>4. (Tip - 1) - 1 + 1 = Tip - 1 /\ 1 <= Tip - 1 /\ \A i \in 1..(Tip - 1) : 1 + i - 1 = i
    BY <1>1
  <2> QED
    BY <1>1, <2>2, <2>3, <2>4
<1>4. minedAt' = [t \in Tx |-> IF minedAt[t] = Tip THEN 0 ELSE minedAt[t]]
  BY DEF Disconnect
<1>5. minedAt' \in [Tx -> 0..Tip']
  BY <1>1, <1>3, <1>4 DEF TypeOK
<1> QED
  BY <1>1, <1>3, <1>4, <1>5

LEMMA AwaitedSame ==
  ASSUME NEW v, NEW w, NEW c, v.spent[c] = w.spent[c], c \in v.swept <=> c \in w.swept
  PROVE  Awaited(v, c) = Awaited(w, c)
  BY DEF Awaited, Collects

LEMMA AwaitedIn ==
  ASSUME NEW w, NEW c \in Chan
  PROVE  Awaited(w, c) \subseteq Closes(c) \cup {Sweep[c]} /\ Awaited(w, c) \subseteq Tx
  BY DEF Awaited, Tx

LEMMA ConnectSafe ==
  ASSUME TypeOK, TypeOK', ChainInv', Connect,
         NEW c \in Chan, NEW t \in Closes(c) \cup {Sweep[c]}, NEW n \in Int, NEW torn,
         Safe(c, t, n, torn)
  PROVE  /\ minedAt'[t] \notin (1..n) \ torn
         /\ \A i \in (Tip' + 1)..n : i \in torn \/ i < Hint[c]
<1>1. /\ t \in Tx /\ Tip' = Tip + 1 /\ Tip \in Nat
      /\ minedAt'[t] # minedAt[t] => minedAt'[t] = Tip + 1
  BY ConnectedBlock DEF Tx
<1>2. minedAt'[t] > 0 => Hint[c] <= minedAt'[t]
  BY DEF ChainInv
<1>3. minedAt[t] \in 0..Tip
  BY <1>1 DEF TypeOK
<1> QED
  BY <1>1, <1>2, <1>3, ParametersAssumption DEF Safe

LEMMA DisconnectSafe ==
  ASSUME TypeOK, Disconnect,
         NEW c \in Chan, NEW t \in Tx, NEW n \in Int, NEW torn,
         Safe(c, t, n, torn)
  PROVE  LET now == IF Tip < n + 1 THEN torn \cup {Tip} ELSE torn
         IN  /\ minedAt'[t] \notin (1..n) \ now
             /\ \A i \in (Tip' + 1)..n : i \in now \/ i < Hint[c]
<1>1. /\ Tip' = Tip - 1 /\ Tip \in Nat
      /\ minedAt'[t] = minedAt[t] \/ minedAt'[t] = 0
  BY DroppedBlock
<1> QED
  BY <1>1 DEF Safe

LEMMA ConnectChain ==
  ASSUME TypeOK, ChainInv, Connect
  PROVE  ChainInv'
<1>1. /\ Tip' = Tip + 1 /\ Tip \in Nat /\ block'[Tip + 1] = drops
      /\ \A i \in 1..Tip : block'[i] = block[i]
  BY ConnectedBlock
<1>2. drops' = drops /\ drops \in Nat
  BY DEF Connect, TypeOK
<1>3. PICK T \in SUBSET Mineable :
        /\ MayBeMined(T)
        /\ minedAt' = [t \in Tx |-> IF t \in T THEN Tip + 1 ELSE minedAt[t]]
  BY DEF Connect
<1>4. \A t \in Tx : /\ minedAt[t] \in 0..Tip
                    /\ t \in T => minedAt[t] = 0 /\ minedAt'[t] = Tip + 1
                    /\ t \notin T => minedAt'[t] = minedAt[t]
  BY <1>3 DEF MayBeMined, TypeOK
<1>5. ASSUME NEW c \in Chan
      PROVE  /\ minedAt'[Fund[c]] > 0 => Hint[c] <= minedAt'[Fund[c]]
             /\ \A t \in Closes(c) : minedAt'[t] > 0 =>
                  0 < minedAt'[Fund[c]] /\ minedAt'[Fund[c]] <= minedAt'[t]
             /\ minedAt'[Sweep[c]] > 0 =>
                  0 < minedAt'[PeerClose[c]] /\ minedAt'[PeerClose[c]] <= minedAt'[Sweep[c]]
             /\ \A t \in Closes(c) \cup {Sweep[c]} : minedAt'[t] > 0 => Hint[c] <= minedAt'[t]
  <2>1. Fund[c] \in Tx /\ Sweep[c] \in Tx /\ Closes(c) \subseteq Tx /\ PeerClose[c] \in Closes(c)
        /\ Hint[c] \in Nat
    BY ParametersAssumption DEF Tx, Closes
  <2>2. \A t \in T : \A p \in ParentOf(t) : p \in T \/ minedAt[p] > 0
    BY <1>3 DEF MayBeMined
  <2>3. (\A t \in Closes(c) : Fund[c] \in ParentOf(t)) /\ PeerClose[c] \in ParentOf(Sweep[c])
    BY DEF ParentOf
  <2>4. Fund[c] \in T => Hint[c] <= Tip + 1
    BY <1>3 DEF MayBeMined
  <2>5. minedAt'[Fund[c]] > 0 => Hint[c] <= minedAt'[Fund[c]]
    BY <1>4, <2>1, <2>4 DEF ChainInv
  <2>6. \A t \in Closes(c) : minedAt'[t] > 0 =>
          0 < minedAt'[Fund[c]] /\ minedAt'[Fund[c]] <= minedAt'[t]
    <3> SUFFICES ASSUME NEW t \in Closes(c), minedAt'[t] > 0
                 PROVE  0 < minedAt'[Fund[c]] /\ minedAt'[Fund[c]] <= minedAt'[t]
      OBVIOUS
    <3>1. CASE t \in T
      BY <3>1, <1>1, <1>4, <2>1, <2>2, <2>3
    <3>2. CASE t \notin T
      <4>1. minedAt[t] > 0 /\ t \in Tx /\ minedAt'[t] = minedAt[t]
        BY <3>2, <1>4, <2>1
      <4>2. 0 < minedAt[Fund[c]] /\ minedAt[Fund[c]] <= minedAt[t]
        BY <4>1 DEF ChainInv
      <4> QED
        BY <4>1, <4>2, <1>4, <2>1
    <3> QED
      BY <3>1, <3>2
  <2>7. minedAt'[Sweep[c]] > 0 =>
          0 < minedAt'[PeerClose[c]] /\ minedAt'[PeerClose[c]] <= minedAt'[Sweep[c]]
    <3> SUFFICES ASSUME minedAt'[Sweep[c]] > 0
                 PROVE  0 < minedAt'[PeerClose[c]] /\ minedAt'[PeerClose[c]] <= minedAt'[Sweep[c]]
      OBVIOUS
    <3>1. CASE Sweep[c] \in T
      BY <3>1, <1>1, <1>4, <2>1, <2>2, <2>3
    <3>2. CASE Sweep[c] \notin T
      <4>1. minedAt[Sweep[c]] > 0 /\ minedAt'[Sweep[c]] = minedAt[Sweep[c]]
        BY <3>2, <1>4, <2>1
      <4>2. 0 < minedAt[PeerClose[c]] /\ minedAt[PeerClose[c]] <= minedAt[Sweep[c]]
        BY <4>1 DEF ChainInv
      <4> QED
        BY <4>1, <4>2, <1>4, <2>1
    <3> QED
      BY <3>1, <3>2
  <2>8. \A t \in Tx : minedAt'[t] \in Int
    BY <1>1, <1>4
  <2>9. \A t \in Closes(c) \cup {Sweep[c]} : minedAt'[t] > 0 => Hint[c] <= minedAt'[t]
    BY <2>1, <2>5, <2>6, <2>7, <2>8
  <2> QED
    BY <2>5, <2>6, <2>7, <2>9
<1>6. \A i \in 1..Tip' : block'[i] <= drops'
  BY <1>1, <1>2 DEF ChainInv
<1> QED
  BY <1>5, <1>6 DEF ChainInv

LEMMA DisconnectChain ==
  ASSUME TypeOK, ChainInv, Disconnect
  PROVE  ChainInv'
<1>1. /\ Tip' = Tip - 1 /\ Tip \in Nat /\ drops' = drops + 1 /\ drops \in Nat
      /\ \A i \in 1..Tip' : block'[i] = block[i]
      /\ \A t \in Tx : minedAt'[t] = IF minedAt[t] = Tip THEN 0 ELSE minedAt[t]
      /\ \A t \in Tx : minedAt[t] \in 0..Tip
  BY DroppedBlock DEF TypeOK
<1>2. ASSUME NEW c \in Chan
      PROVE  /\ minedAt'[Fund[c]] > 0 => Hint[c] <= minedAt'[Fund[c]]
             /\ \A t \in Closes(c) : minedAt'[t] > 0 =>
                  0 < minedAt'[Fund[c]] /\ minedAt'[Fund[c]] <= minedAt'[t]
             /\ minedAt'[Sweep[c]] > 0 =>
                  0 < minedAt'[PeerClose[c]] /\ minedAt'[PeerClose[c]] <= minedAt'[Sweep[c]]
             /\ \A t \in Closes(c) \cup {Sweep[c]} : minedAt'[t] > 0 => Hint[c] <= minedAt'[t]
  <2>1. Fund[c] \in Tx /\ Sweep[c] \in Tx /\ Closes(c) \subseteq Tx /\ PeerClose[c] \in Tx
    BY DEF Tx, Closes
  <2>2. minedAt'[Fund[c]] > 0 => Hint[c] <= minedAt'[Fund[c]]
    BY <1>1, <2>1 DEF ChainInv
  <2>3. \A t \in Closes(c) : minedAt'[t] > 0 =>
                  0 < minedAt'[Fund[c]] /\ minedAt'[Fund[c]] <= minedAt'[t]
    BY <1>1, <2>1 DEF ChainInv
  <2>4. minedAt'[Sweep[c]] > 0 =>
          0 < minedAt'[PeerClose[c]] /\ minedAt'[PeerClose[c]] <= minedAt'[Sweep[c]]
    BY <1>1, <2>1 DEF ChainInv
  <2>5. \A t \in Closes(c) \cup {Sweep[c]} : minedAt'[t] > 0 => Hint[c] <= minedAt'[t]
    BY <1>1, <2>1 DEF ChainInv
  <2> QED
    BY <2>2, <2>3, <2>4, <2>5
<1>3. \A i \in 1..Tip' : block'[i] <= drops'
  <2> SUFFICES ASSUME NEW i \in 1..Tip' PROVE block'[i] <= drops'
    OBVIOUS
  <2>1. i \in 1..Tip /\ block'[i] = block[i] /\ block[i] <= drops
    BY <1>1 DEF ChainInv
  <2>2. block[i] \in Int
    BY <2>1, ElementOfSeq, ParametersAssumption DEF TypeOK, Tip
  <2> QED
    BY <1>1, <2>1, <2>2
<1> QED
  BY <1>2, <1>3 DEF ChainInv

LEMMA ConnectCovers ==
  ASSUME TypeOK, TypeOK', ChainInv', Connect,
         NEW w, w.all \subseteq Chan, NEW n \in Int, Covers(w, n)
  PROVE  \A c \in w.all : \A t \in Awaited(w, c) :
           /\ minedAt'[t] \notin (1..(n - 1)) \ w.torn
           /\ \A i \in (Tip' + 1)..(n - 1) : i \in w.torn \/ i < Hint[c]
<1> SUFFICES ASSUME NEW c \in w.all, NEW t \in Awaited(w, c)
             PROVE  /\ minedAt'[t] \notin (1..(n - 1)) \ w.torn
                    /\ \A i \in (Tip' + 1)..(n - 1) : i \in w.torn \/ i < Hint[c]
  OBVIOUS
<1>1. c \in Chan /\ t \in Closes(c) \cup {Sweep[c]} /\ n - 1 \in Int
  BY AwaitedIn
<1>2. Safe(c, t, n - 1, w.torn)
  BY DEF Covers
<1> QED
  BY <1>1, <1>2, ConnectSafe

LEMMA DisconnectCovers ==
  ASSUME TypeOK, Disconnect,
         NEW w, w.all \subseteq Chan, NEW n \in Int, Covers(w, n)
  PROVE  LET torn == IF Tip < n THEN w.torn \cup {Tip} ELSE w.torn
         IN  \A c \in w.all : \A t \in Awaited(w, c) :
               /\ minedAt'[t] \notin (1..(n - 1)) \ torn
               /\ \A i \in (Tip' + 1)..(n - 1) : i \in torn \/ i < Hint[c]
<1> DEFINE torn == IF Tip < n THEN w.torn \cup {Tip} ELSE w.torn
<1> SUFFICES ASSUME NEW c \in w.all, NEW t \in Awaited(w, c)
             PROVE  /\ minedAt'[t] \notin (1..(n - 1)) \ torn
                    /\ \A i \in (Tip' + 1)..(n - 1) : i \in torn \/ i < Hint[c]
  OBVIOUS
<1>1. c \in Chan /\ t \in Tx /\ n - 1 \in Int /\ (n - 1) + 1 = n
  BY AwaitedIn
<1>2. Safe(c, t, n - 1, w.torn)
  BY DEF Covers
<1>3. LET now == IF Tip < (n - 1) + 1 THEN w.torn \cup {Tip} ELSE w.torn
      IN  /\ minedAt'[t] \notin (1..(n - 1)) \ now
          /\ \A i \in (Tip' + 1)..(n - 1) : i \in now \/ i < Hint[c]
  BY <1>1, <1>2, DisconnectSafe
<1> QED
  BY <1>1, <1>3

LEMMA ConnectKeeps == IInv /\ Connect => IInv'
<1> SUFFICES ASSUME IInv, Connect PROVE IInv'
  OBVIOUS
<1> USE DEF IInv
<1>1. UNCHANGED <<drops, lnd, file, mem, work, shown, past>>
  BY DEF Connect
<1>2. TypeOK'
  BY <1>1, ConnectedBlock DEF TypeOK, lnd, work, past
<1>3. ChainInv'
  BY ConnectChain
<1>4. Tip' = Tip + 1 /\ Tip \in Nat /\ block'[Tip + 1] = drops
      /\ \A i \in 1..Tip : block'[i] = block[i]
  BY ConnectedBlock
<1>5. MemInv'
  <2> SUFFICES ASSUME mem # None PROVE Covers(mem, mem.next)'
    BY <1>1 DEF MemInv
  <2>1. mem.all \subseteq Chan /\ mem.next \in Int /\ Covers(mem, mem.next)
    BY ParametersAssumption DEF TypeOK, Walk, Heights, WalkParts, MemInv
  <2> QED
    BY <1>1, <1>2, <1>3, <2>1, ConnectCovers DEF Covers, Safe
<1>6. WorkInv'
  <2> SUFFICES ASSUME cur # None
               PROVE  Covers(cur, Position)' /\ (pc = "walk" => cur.next <= h /\ h > 0)'
    BY <1>1 DEF WorkInv, work
  <2>1. cur.all \subseteq Chan /\ Position \in Int /\ Covers(cur, Position)
    BY ParametersAssumption DEF TypeOK, Walk, Heights, Position, WalkParts, WorkInv
  <2>2. cur' = cur /\ Position' = Position
    BY <1>1 DEF Position, work
  <2>3. Covers(cur, Position)'
    BY <1>1, <1>2, <1>3, <2>1, <2>2, ConnectCovers DEF Covers, Safe
  <2> QED
    BY <1>1, <2>3 DEF WalkParts, WorkInv, work
<1>7. FileInv'
  <2> SUFFICES ASSUME file # None PROVE FileInv'
    BY <1>1 DEF FileInv
  <2>1. /\ file.all \subseteq Chan /\ file.next \in Nat /\ file.next > 1 /\ file.lowest \in Nat
        /\ file.last \in Nat /\ file.reached \in Nat
    BY ParametersAssumption DEF TypeOK, File, Heights
  <2>2. file.next = file.reached - Back + 1 /\ 0 < file.lowest /\ file.lowest <= Tip + 1
    BY DEF WalkParts, FileInv
  <2>3. file.next <= file.lowest =>
          Covers(file, file.next)' /\ block'[file.next - 1] = file.last
    <3> SUFFICES ASSUME file.next <= file.lowest
                 PROVE  Covers(file, file.next)' /\ block'[file.next - 1] = file.last
      OBVIOUS
    <3>1. Covers(file, file.next) /\ block[file.next - 1] = file.last
      BY DEF WalkParts, FileInv
    <3>2. Covers(file, file.next)'
      BY <1>1, <1>2, <1>3, <2>1, <3>1, ConnectCovers DEF Covers, Safe
    <3>3. file.next - 1 \in 1..Tip
      BY <1>4, <2>1, <2>2
    <3> QED
      BY <1>4, <3>1, <3>2, <3>3
  <2>4. file.lowest < file.next =>
          file.last < drops' /\ \A i \in (file.lowest)..Tip' : file.last < block'[i]
    <3> SUFFICES ASSUME file.lowest < file.next
                 PROVE  file.last < drops /\ \A i \in (file.lowest)..(Tip + 1) : file.last < block'[i]
      BY <1>1, <1>4
    <3>1. file.last < drops /\ \A i \in (file.lowest)..Tip : file.last < block[i]
      BY DEF WalkParts, FileInv
    <3>2. \A i \in (file.lowest)..(Tip + 1) : i = Tip + 1 \/ (i \in (file.lowest)..Tip /\ i \in 1..Tip)
      BY <1>4, <2>1, <2>2
    <3> QED
      BY <1>4, <3>1, <3>2
  <2> QED
    BY <1>1, <1>4, <2>1, <2>2, <2>3, <2>4 DEF FileInv
<1>8. ShownInv'
  <2> SUFFICES ASSUME NEW c \in Chan
               PROVE  /\ shown.verdict[c] = "open" =>
                           \A t \in Closes(c) : Safe(c, t, shown.upTo, shown.torn)'
                      /\ shown.verdict[c] = "collect" =>
                           Safe(c, Sweep[c], shown.upTo, shown.torn)'
    BY <1>1 DEF ShownInv
  <2>1. shown.upTo \in Int
    BY ParametersAssumption DEF TypeOK, Heights
  <2>2. \A t \in Closes(c) \cup {Sweep[c]} :
          Safe(c, t, shown.upTo, shown.torn) => Safe(c, t, shown.upTo, shown.torn)'
    BY <1>1, <1>2, <1>3, <2>1, ConnectSafe DEF Safe
  <2> QED
    BY <2>2 DEF WalkParts, ShownInv
<1>9. CoveredInv' /\ NoChannelIsForgotten'
  BY <1>1 DEF CoveredInv, NoChannelIsForgotten, past, work
<1> QED
  BY <1>2, <1>3, <1>5, <1>6, <1>7, <1>8, <1>9 DEF WalkParts

LEMMA DisconnectKeeps == IInv /\ Disconnect => IInv'
<1> SUFFICES ASSUME IInv, Disconnect PROVE IInv'
  OBVIOUS
<1> USE DEF IInv
<1>1. /\ mem' = IF mem = None THEN None ELSE Tear(mem, mem.next)
      /\ cur' = IF cur = None THEN None ELSE Tear(cur, Position)
      /\ shown' = Tear(shown, shown.upTo + 1)
      /\ file' = IF file = None THEN None ELSE [file EXCEPT !.lowest = Min({@, Tip})]
      /\ UNCHANGED <<lnd, pc, job, same, h, target, past>>
  BY DEF Disconnect, Position
<1>2. /\ Tip' = Tip - 1 /\ Tip \in 2..MaxTip /\ Tip' \in 1..MaxTip /\ Tip \in Nat /\ Tip' \in Nat
      /\ drops' = drops + 1 /\ drops \in Nat /\ drops' \in 0..MaxDrops
      /\ \A i \in 1..Tip' : block'[i] = block[i]
  BY DroppedBlock, ParametersAssumption DEF TypeOK
<1>3. mem # None =>
        /\ mem' \in Walk /\ WalkOK(mem') /\ mem' # None /\ mem'.all = mem.all
        /\ mem'.next = mem.next /\ mem'.spent = mem.spent /\ mem'.swept = mem.swept
        /\ mem'.torn = IF Tip < mem.next THEN mem.torn \cup {Tip} ELSE mem.torn
  <2> SUFFICES ASSUME mem # None
               PROVE  /\ mem' \in Walk /\ WalkOK(mem') /\ mem' # None /\ mem'.all = mem.all
                      /\ mem'.next = mem.next /\ mem'.spent = mem.spent
                      /\ mem'.swept = mem.swept
                      /\ mem'.torn = IF Tip < mem.next THEN mem.torn \cup {Tip} ELSE mem.torn
    OBVIOUS
  <2>1. mem \in Walk /\ WalkOK(mem) /\ Tip \in 1..MaxTip /\ mem' = Tear(mem, mem.next)
    BY <1>1, TypeFacts
  <2>2. /\ mem' \in Walk /\ WalkOK(mem') /\ mem'.all = mem.all
        /\ mem'.next = mem.next /\ mem'.spent = mem.spent /\ mem'.swept = mem.swept
        /\ mem'.torn = IF Tip < mem.next THEN mem.torn \cup {Tip} ELSE mem.torn
    BY <2>1, TearOK
  <2> QED
    BY <2>2, NoneIsApart
<1>4. cur # None =>
        /\ cur' \in Walk /\ WalkOK(cur') /\ cur' # None /\ cur'.all = cur.all
        /\ cur'.next = cur.next /\ cur'.spent = cur.spent /\ cur'.swept = cur.swept
        /\ cur'.torn = IF Tip < Position THEN cur.torn \cup {Tip} ELSE cur.torn
  <2> SUFFICES ASSUME cur # None
               PROVE  /\ cur' \in Walk /\ WalkOK(cur') /\ cur' # None /\ cur'.all = cur.all
                      /\ cur'.next = cur.next /\ cur'.spent = cur.spent
                      /\ cur'.swept = cur.swept
                      /\ cur'.torn = IF Tip < Position THEN cur.torn \cup {Tip} ELSE cur.torn
    OBVIOUS
  <2>1. cur \in Walk /\ WalkOK(cur) /\ Tip \in 1..MaxTip /\ cur' = Tear(cur, Position)
    BY <1>1, TypeFacts
  <2>2. /\ cur' \in Walk /\ WalkOK(cur') /\ cur'.all = cur.all
        /\ cur'.next = cur.next /\ cur'.spent = cur.spent /\ cur'.swept = cur.swept
        /\ cur'.torn = IF Tip < Position THEN cur.torn \cup {Tip} ELSE cur.torn
    BY <2>1, TearOK
  <2> QED
    BY <2>2, NoneIsApart
<1>5. file # None =>
        /\ file' \in File /\ WalkOK(file') /\ file' # None /\ file'.all = file.all
        /\ file'.next = file.next /\ file'.spent = file.spent /\ file'.swept = file.swept
        /\ file'.torn = file.torn /\ file'.last = file.last /\ file'.reached = file.reached
        /\ file'.lowest = IF file.lowest <= Tip THEN file.lowest ELSE Tip
  <2> SUFFICES ASSUME file # None
               PROVE  /\ file' \in File /\ WalkOK(file') /\ file' # None /\ file'.all = file.all
                      /\ file'.next = file.next /\ file'.spent = file.spent
                      /\ file'.swept = file.swept /\ file'.torn = file.torn
                      /\ file'.last = file.last /\ file'.reached = file.reached
                      /\ file'.lowest = IF file.lowest <= Tip THEN file.lowest ELSE Tip
    OBVIOUS
  <2>1. file \in File /\ WalkOK(file) /\ file.lowest \in Nat /\ Tip \in Heights
    BY <1>2, TypeFacts DEF Heights
  <2>2. Min({file.lowest, Tip}) = IF file.lowest <= Tip THEN file.lowest ELSE Tip
    BY <1>2, <2>1, MinTwo
  <2>3. file' = [file EXCEPT !.lowest = IF file.lowest <= Tip THEN file.lowest ELSE Tip]
    BY <1>1, <2>2
  <2> HIDE DEF IInv
  <2>4. file' \in File
    BY <2>1, <2>3 DEF File
  <2> QED
    BY <2>1, <2>3, <2>4, NoneIsApart DEF File, WalkOK
<1>6. /\ shown'.verdict = shown.verdict /\ shown'.upTo = shown.upTo
      /\ shown'.torn = IF Tip < shown.upTo + 1 THEN shown.torn \cup {Tip} ELSE shown.torn
      /\ shown' \in [verdict: [Chan -> {"unverified", "open", "spent", "collect"}],
                     upTo: Heights, torn: SUBSET (Heights \ {0})]
  <2>1. Tip \in Heights \ {0}
    BY <1>2, ParametersAssumption DEF Heights
  <2> QED
    BY <1>1, <2>1 DEF Tear, TypeOK
<1>7. TypeOK'
  <2>1. /\ block' \in Seq(0..MaxDrops) /\ minedAt' \in [Tx -> 0..Tip']
        /\ mem = None => mem' = None
        /\ cur = None <=> cur' = None
        /\ file = None => file' = None
    BY <1>1, <1>4, DroppedBlock
  <2>2. /\ listed' = listed /\ gone' = gone /\ pc' = pc /\ job' = job /\ same' = same /\ h' = h
        /\ target' = target /\ covered' = covered /\ searched' = searched
    BY <1>1 DEF lnd, past
  <2>3. file' # None => file' \in File /\ WalkOK(file') /\ file'.next > 1
    BY <1>5, <2>1 DEF TypeOK
  <2>4. /\ mem' # None => mem' \in Walk /\ WalkOK(mem')
        /\ cur' # None => cur' \in Walk /\ WalkOK(cur')
    BY <1>3, <1>4, <2>1
  <2> QED
    BY <1>2, <1>6, <2>1, <2>2, <2>3, <2>4 DEF TypeOK
<1>8. ChainInv'
  BY DisconnectChain
<1>9. MemInv'
  <2> SUFFICES ASSUME mem # None PROVE Covers(mem, mem.next)'
    BY <1>1 DEF MemInv
  <2>1. mem.all \subseteq Chan /\ mem.next \in Int /\ Covers(mem, mem.next)
    BY ParametersAssumption DEF TypeOK, Walk, Heights, WalkParts, MemInv
  <2>2. \A c \in mem.all : Awaited(mem', c) = Awaited(mem, c)
    BY <1>3, AwaitedSame
  <2> QED
    BY <1>3, <2>1, <2>2, DisconnectCovers DEF Covers, Safe
<1>10. WorkInv'
  <2> SUFFICES ASSUME cur # None
               PROVE  Covers(cur, Position)' /\ (pc = "walk" => cur.next <= h /\ h > 0)'
    BY <1>1 DEF WorkInv
  <2>1. cur.all \subseteq Chan /\ Position \in Int /\ Covers(cur, Position)
    BY ParametersAssumption DEF TypeOK, Walk, Heights, Position, WalkParts, WorkInv
  <2>2. \A c \in cur.all : Awaited(cur', c) = Awaited(cur, c)
    BY <1>4, AwaitedSame
  <2>3. Position' = Position
    BY <1>1, <1>4 DEF Position
  <2>4. Covers(cur, Position)'
    BY <1>4, <2>1, <2>2, <2>3, DisconnectCovers DEF Covers, Safe
  <2> QED
    BY <1>1, <1>4, <2>4 DEF WalkParts, WorkInv
<1>11. FileInv'
  <2> SUFFICES ASSUME file # None PROVE FileInv'
    BY <1>1 DEF FileInv
  <2>1. /\ file.all \subseteq Chan /\ file.next \in Nat /\ file.next > 1 /\ file.lowest \in Nat
        /\ file.last \in Nat /\ file.reached \in Nat /\ file.last <= MaxDrops
    BY ParametersAssumption DEF TypeOK, File, Heights
  <2>2. file.next = file.reached - Back + 1 /\ 0 < file.lowest /\ file.lowest <= Tip + 1
    BY DEF WalkParts, FileInv
  <2>3. file'.next <= file'.lowest =>
          Covers(file, file.next)' /\ block'[file'.next - 1] = file'.last
    <3> SUFFICES ASSUME file.next <= file.lowest, file.next <= Tip
                 PROVE  Covers(file, file.next)' /\ block'[file.next - 1] = file.last
      BY <1>2, <1>5, <2>1
    <3>1. Covers(file, file.next) /\ block[file.next - 1] = file.last
      BY DEF WalkParts, FileInv
    <3>2. \A c \in file.all : Awaited(file', c) = Awaited(file, c)
      BY <1>5, AwaitedSame
    <3>3. ~(Tip < file.next)
      BY <1>2, <2>1
    <3>4. Covers(file, file.next)'
      BY <1>5, <2>1, <3>1, <3>2, <3>3, DisconnectCovers DEF Covers, Safe
    <3> QED
      BY <1>2, <2>1, <3>1, <3>4
  <2>4. file'.lowest < file'.next =>
          file'.last < drops' /\ \A i \in (file'.lowest)..Tip' : file'.last < block'[i]
    <3> SUFFICES ASSUME file'.lowest < file.next
                 PROVE  /\ file.last < drops + 1
                        /\ \A i \in (file'.lowest)..(Tip - 1) : file.last < block'[i]
      BY <1>2, <1>5
    <3>1. CASE file.lowest < file.next
      <4>1. file.last < drops /\ \A i \in (file.lowest)..Tip : file.last < block[i]
        BY <3>1 DEF WalkParts, FileInv
      <4>2. \A i \in (file'.lowest)..(Tip - 1) : i \in (file.lowest)..Tip /\ i \in 1..Tip'
        BY <1>2, <1>5, <2>1, <2>2
      <4> QED
        BY <1>2, <2>1, <4>1, <4>2
    <3>2. CASE file.next <= file.lowest
      <4>1. block[file.next - 1] = file.last /\ file'.lowest = Tip
        BY <1>5, <2>1, <3>2 DEF WalkParts, FileInv
      <4>2. file.next - 1 \in 1..Tip
        BY <1>2, <2>1, <2>2, <3>2
      <4>3. file.last <= drops
        BY <4>1, <4>2 DEF ChainInv
      <4> QED
        BY <1>2, <2>1, <4>1, <4>3
    <3> QED
      BY <2>1, <3>1, <3>2
  <2> QED
    BY <1>2, <1>5, <2>1, <2>2, <2>3, <2>4 DEF FileInv
<1>12. ShownInv'
  <2> SUFFICES ASSUME NEW c \in Chan
               PROVE  /\ shown.verdict[c] = "open" =>
                           \A t \in Closes(c) : Safe(c, t, shown.upTo, shown.torn)'
                      /\ shown.verdict[c] = "collect" =>
                           Safe(c, Sweep[c], shown.upTo, shown.torn)'
    BY <1>6 DEF ShownInv
  <2>1. shown.upTo \in Int /\ Closes(c) \cup {Sweep[c]} \subseteq Tx
    BY TypeFacts DEF Tx
  <2>2. \A t \in Closes(c) \cup {Sweep[c]} :
          Safe(c, t, shown.upTo, shown.torn) => Safe(c, t, shown.upTo, shown.torn)'
    <3> SUFFICES ASSUME NEW t \in Closes(c) \cup {Sweep[c]},
                        Safe(c, t, shown.upTo, shown.torn)
                 PROVE  Safe(c, t, shown.upTo, shown.torn)'
      OBVIOUS
    <3> DEFINE now == IF Tip < shown.upTo + 1 THEN shown.torn \cup {Tip} ELSE shown.torn
    <3>1. /\ minedAt'[t] \notin (1..(shown.upTo)) \ now
          /\ \A i \in (Tip' + 1)..(shown.upTo) : i \in now \/ i < Hint[c]
      BY <2>1, DisconnectSafe
    <3> QED
      BY <1>6, <3>1 DEF Safe
  <2> QED
    BY <2>2 DEF WalkParts, ShownInv
<1>13. CoveredInv' /\ NoChannelIsForgotten'
  <2>1. file' # None <=> file # None
    BY <1>1, <1>5
  <2>2. mem' # None <=> mem # None
    BY <1>1, <1>3
  <2>3. cur # None => pc' = pc /\ job' = job /\ cur'.all = cur.all
    BY <1>1, <1>4
  <2> QED
    BY <1>1, <1>3, <1>4, <1>5, <2>1, <2>2, <2>3 DEF CoveredInv, NoChannelIsForgotten, past, TypeOK
<1> QED
  BY <1>7, <1>8, <1>9, <1>10, <1>11, <1>12, <1>13 DEF WalkParts

-----------------------------------------------------------------------------
(* The steps of lnd and of the program, which leave the chain alone.       *)

LEMMA SameChain ==
  ASSUME UNCHANGED chain
  PROVE  /\ Tip' = Tip
         /\ \A c, t, n, torn : Safe(c, t, n, torn)' <=> Safe(c, t, n, torn)
         /\ ChainInv => ChainInv'
         /\ (UNCHANGED mem /\ MemInv) => MemInv'
         /\ (UNCHANGED file /\ FileInv) => FileInv'
         /\ (UNCHANGED shown /\ ShownInv) => ShownInv'
<1>1. Tip' = Tip /\ block' = block /\ minedAt' = minedAt /\ drops' = drops
  BY DEF chain, Tip
<1>2. \A c, t, n, torn : Safe(c, t, n, torn)' <=> Safe(c, t, n, torn)
  BY <1>1 DEF Safe
<1>3. ChainInv => ChainInv'
  BY <1>1 DEF ChainInv
<1>4. (UNCHANGED mem /\ MemInv) => MemInv'
  BY <1>2 DEF MemInv, Covers
<1>5. (UNCHANGED file /\ FileInv) => FileInv'
  BY <1>1, <1>2 DEF FileInv, Covers
<1>6. (UNCHANGED shown /\ ShownInv) => ShownInv'
  BY <1>2 DEF ShownInv
<1> QED
  BY <1>1, <1>2, <1>3, <1>4, <1>5, <1>6

LEMMA LndKeeps ==
  ASSUME IInv, NEW c \in Chan, LndListsOpen(c) \/ LndSeesClose(c)
  PROVE  IInv'
<1> USE DEF IInv
<1>1. /\ UNCHANGED <<chain, file, mem, work, shown, past>>
      /\ listed' \subseteq Chan /\ gone' \subseteq Chan \ listed'
  BY DEF LndListsOpen, LndSeesClose, TypeOK
<1>2. TypeOK'
  BY <1>1, SameChain DEF TypeOK, chain, work, past
<1>3. ChainInv' /\ MemInv' /\ FileInv' /\ ShownInv'
  BY <1>1, SameChain DEF WalkParts
<1>4. WorkInv'
  BY <1>1, SameChain DEF WalkParts, WorkInv, Covers, Position, work
<1>5. CoveredInv' /\ NoChannelIsForgotten'
  BY <1>1 DEF CoveredInv, NoChannelIsForgotten, work, past
<1> QED
  BY <1>2, <1>3, <1>4, <1>5 DEF WalkParts

LEMMA NothingKeeps == IInv /\ NothingToCheck => IInv'
<1> SUFFICES ASSUME IInv, NothingToCheck PROVE IInv'
  OBVIOUS
<1> USE DEF IInv
<1>1. UNCHANGED <<chain, lnd, file, mem, work, past>> /\ shown' = NothingShown
  BY DEF NothingToCheck
<1>2. /\ NothingShown \in [verdict: [Chan -> {"unverified", "open", "spent", "collect"}],
                           upTo: Heights, torn: SUBSET (Heights \ {0})]
      /\ \A c \in Chan : NothingShown.verdict[c] = "unverified"
  BY ParametersAssumption DEF NothingShown, Heights
<1>3. TypeOK'
  BY <1>1, <1>2, SameChain DEF TypeOK, chain, lnd, work, past
<1>4. ChainInv' /\ MemInv' /\ FileInv'
  BY <1>1, SameChain DEF WalkParts
<1>5. ShownInv'
  BY <1>1, <1>2 DEF ShownInv
<1>6. WorkInv'
  BY <1>1, SameChain DEF WalkParts, WorkInv, Covers, Position, work
<1>7. CoveredInv' /\ NoChannelIsForgotten'
  BY <1>1 DEF CoveredInv, NoChannelIsForgotten, work, past
<1> QED
  BY <1>3, <1>4, <1>5, <1>6, <1>7 DEF WalkParts

\* Fundings has every channel of the last files.
LEMMA FundingsCover ==
  ASSUME IInv, searched
  PROVE  Fundings \subseteq Chan /\ covered \subseteq Fundings
<1>1. Fundings \subseteq Chan
  BY TypeFacts DEF IInv, TypeOK, Fundings, SavedFundings
<1>2. covered \subseteq Fundings
  BY DEF IInv, CoveredInv, NoChannelIsForgotten, Fundings, SavedFundings
<1> QED
  BY <1>1, <1>2

\* A check or a search begins with a walk that covers what it says.
LEMMA GoKeeps ==
  ASSUME IInv, pc = "idle", NEW j \in {"check", "search"}, NEW w \in Walk, NEW s \in BOOLEAN,
         Go(j, w, s), WalkOK(w), Covers(w, w.next), (j = "check") <=> searched,
         j = "check" => covered \subseteq w.all,
         UNCHANGED <<chain, lnd, file, mem, shown, past>>
  PROVE  IInv'
<1> USE DEF IInv
<1>1. pc' = "start" /\ job' = j /\ cur' = w /\ same' = s /\ h' = h /\ target' = target
  BY DEF Go
<1>2. w # None
  BY NoneIsApart
<1>3. TypeOK'
  <2>1. same' \in BOOLEAN /\ job' \in {"check", "search"}
    BY <1>1, Zenon
  <2> QED
    BY <1>1, <1>2, <2>1, SameChain DEF TypeOK, chain, lnd, past
<1>4. ChainInv' /\ MemInv' /\ FileInv' /\ ShownInv'
  BY SameChain DEF WalkParts
<1>5. WorkInv'
  BY <1>1, SameChain DEF WorkInv, Covers, Position
<1>6. CoveredInv' /\ NoChannelIsForgotten'
  BY <1>1 DEF CoveredInv, NoChannelIsForgotten, past
<1> QED
  BY <1>3, <1>4, <1>5, <1>6 DEF WalkParts

LEMMA NewWalkCovers ==
  ASSUME TypeOK, NEW F, F \subseteq Chan
  PROVE  Covers(NewWalk(F), NewWalk(F).next)
<1>1. NewWalk(F).next = 0 /\ Tip \in Nat
  BY NewWalkOK, TypeFacts
<1> QED
  BY <1>1 DEF Covers, Safe

\* The file is used only when nothing it covers was replaced.
LEMMA FitsCovers ==
  ASSUME IInv, NEW F, F \subseteq file.all, Fits(F)
  PROVE  Covers(LoadWalk(F), LoadWalk(F).next)
<1>1. /\ file # None /\ file.next \in 2..(Tip + 1) /\ block[file.next - 1] = file.last
      /\ file \in File /\ WalkOK(file) /\ file.next \in Nat /\ file.lowest \in Nat /\ Tip \in Nat
  BY TypeFacts DEF IInv, Fits
<1>2. file.next <= file.lowest
  <2> SUFFICES ASSUME file.lowest < file.next PROVE FALSE
    BY <1>1
  <2>1. /\ \A i \in (file.lowest)..Tip : file.last < block[i]
        /\ file.next - 1 \in (file.lowest)..Tip
    BY <1>1 DEF IInv, WalkParts, FileInv
  <2>2. file.last < file.last /\ file.last \in Int
    BY <1>1, <2>1 DEF File
  <2> QED
    BY <2>2
<1>3. Covers(file, file.next)
  BY <1>1, <1>2 DEF IInv, WalkParts, FileInv
<1>4. /\ LoadWalk(F).all = F /\ LoadWalk(F).next = file.next /\ LoadWalk(F).torn = file.torn
      /\ \A c \in F : Awaited(LoadWalk(F), c) = Awaited(file, c)
  BY <1>1, LoadWalkOK, AwaitedSame
<1> QED
  BY <1>3, <1>4 DEF Covers

LEMMA StartKeeps == IInv /\ (CarryOn \/ CarryOnSaved \/ CheckFromStart \/ Search) => IInv'
<1> SUFFICES ASSUME IInv, CarryOn \/ CarryOnSaved \/ CheckFromStart \/ Search PROVE IInv'
  OBVIOUS
<1>1. TypeOK /\ UNCHANGED <<chain, lnd, file, mem, shown, past>> /\ pc = "idle"
  BY DEF IInv, CarryOn, CarryOnSaved, CheckFromStart, Search
<1>2. CASE CarryOn
  <2>1. Go("check", mem, TRUE) /\ searched /\ mem # None
    BY <1>2 DEF CarryOn, InMemory
  <2>2. mem \in Walk /\ WalkOK(mem) /\ Covers(mem, mem.next) /\ covered \subseteq mem.all
    BY <1>1, <2>1, TypeFacts DEF IInv, WalkParts, MemInv, CoveredInv
  <2> QED
    BY <1>1, <2>1, <2>2, GoKeeps
<1>3. CASE CarryOnSaved
  <2>1. Go("check", LoadWalk(Fundings), FALSE) /\ searched /\ Fits(Fundings)
    BY <1>3 DEF CarryOnSaved
  <2>2. file # None /\ Fundings \subseteq file.all
    BY <2>1 DEF Fits
  <2>3. file \in File /\ WalkOK(file)
    BY <1>1, <2>2, TypeFacts
  <2>4. /\ LoadWalk(Fundings) \in Walk /\ WalkOK(LoadWalk(Fundings))
        /\ LoadWalk(Fundings).all = Fundings
    BY <2>2, <2>3, LoadWalkOK
  <2>5. Covers(LoadWalk(Fundings), LoadWalk(Fundings).next) /\ covered \subseteq Fundings
    BY <2>1, <2>2, FitsCovers, FundingsCover
  <2> QED
    BY <1>1, <2>1, <2>4, <2>5, GoKeeps
<1>4. CASE CheckFromStart
  <2>1. Go("check", NewWalk(Fundings), FALSE) /\ searched
    BY <1>4 DEF CheckFromStart
  <2>2. Fundings \subseteq Chan /\ covered \subseteq Fundings
    BY <2>1, FundingsCover
  <2>3. /\ NewWalk(Fundings) \in Walk /\ WalkOK(NewWalk(Fundings))
        /\ NewWalk(Fundings).all = Fundings
        /\ Covers(NewWalk(Fundings), NewWalk(Fundings).next)
    BY <1>1, <2>2, NewWalkOK, NewWalkCovers
  <2> QED
    BY <1>1, <2>1, <2>2, <2>3, GoKeeps
<1>5. CASE Search
  <2>1. Go("search", NewWalk(listed), FALSE) /\ ~searched /\ listed \subseteq Chan
    BY <1>1, <1>5 DEF Search, TypeOK
  <2>2. /\ NewWalk(listed) \in Walk /\ WalkOK(NewWalk(listed))
        /\ Covers(NewWalk(listed), NewWalk(listed).next)
    BY <1>1, <2>1, NewWalkOK, NewWalkCovers
  <2> QED
    BY <1>1, <2>1, <2>2, GoKeeps
<1> QED
  BY <1>2, <1>3, <1>4, <1>5

-----------------------------------------------------------------------------
(* chainWalk.run.                                                          *)

\* While the walk goes on, only it and its place change.
LEMMA WalkingKeeps ==
  ASSUME IInv, pc \in {"start", "walk"}, pc' = "walk",
         UNCHANGED <<chain, lnd, file, mem, job, same, shown, past>>,
         cur' \in Walk, WalkOK(cur'), cur'.all = cur.all, cur'.next = cur.next,
         h' \in Heights, target' \in 0..MaxTip,
         cur.next <= h', h' > 0, Covers(cur', h')
  PROVE  IInv'
<1> USE DEF IInv
<1>1. cur # None /\ cur' # None
  BY NoneIsApart DEF TypeOK
<1>2. TypeOK'
  BY <1>1, SameChain DEF TypeOK, chain, lnd, past
<1>3. ChainInv' /\ MemInv' /\ FileInv' /\ ShownInv'
  BY SameChain DEF WalkParts
<1>4. WorkInv'
  BY SameChain DEF WorkInv, Covers, Position
<1>5. CoveredInv' /\ NoChannelIsForgotten'
  BY <1>1 DEF CoveredInv, NoChannelIsForgotten, past
<1> QED
  BY <1>2, <1>3, <1>4, <1>5 DEF WalkParts

\* A walk that goes straight to where the next channel starts leaves nothing out.
LEMMA JumpCovers ==
  ASSUME TypeOK, ChainInv, NEW w, w.all \subseteq Chan, NEW n \in Nat,
         \A c \in w.all : Awaited(w, c) # {} => n <= Hint[c]
  PROVE  Covers(w, n)
<1> SUFFICES ASSUME NEW c \in w.all, NEW t \in Awaited(w, c)
             PROVE  Safe(c, t, n - 1, w.torn)
  BY DEF Covers
<1>1. c \in Chan /\ t \in Closes(c) \cup {Sweep[c]} /\ t \in Tx /\ n <= Hint[c]
  BY AwaitedIn
<1>2. minedAt[t] \in Nat /\ (minedAt[t] > 0 => Hint[c] <= minedAt[t])
  BY <1>1 DEF TypeOK, ChainInv
<1>3. Hint[c] \in Nat /\ Tip \in Nat
  BY <1>1, TypeFacts, ParametersAssumption
<1> QED
  BY <1>1, <1>2, <1>3 DEF Safe

LEMMA RunKeeps == IInv /\ Run => IInv'
<1> SUFFICES ASSUME IInv, Run PROVE IInv'
  OBVIOUS
<1>1. /\ pc = "start" /\ pc' = "walk" /\ target' = Tip /\ cur' = cur
      /\ h' = IF cur.next = 0 THEN NextStart(cur, 0, Tip) ELSE cur.next
      /\ UNCHANGED <<chain, lnd, file, mem, job, same, shown, past>>
  BY DEF Run
<1>2. TypeOK /\ ChainInv /\ cur # None
  BY <1>1 DEF IInv, TypeOK
<1>3. /\ cur \in Walk /\ WalkOK(cur) /\ cur.all \subseteq Chan /\ cur.next \in Nat
      /\ Tip \in 1..MaxTip /\ Tip \in Nat /\ MaxTip \in Nat /\ cur.next \in Heights
  BY <1>2, TypeFacts DEF Walk
<1>4. h' \in Heights /\ cur.next <= h' /\ h' > 0 /\ Covers(cur, h')
  <2>1. CASE cur.next = 0
    <3>1. /\ NextStart(cur, 0, Tip) \in Nat /\ NextStart(cur, 0, Tip) <= Tip + 1
          /\ 0 < NextStart(cur, 0, Tip)
          /\ \A c \in cur.all : 0 < Hint[c] => NextStart(cur, 0, Tip) <= Hint[c]
      <4>1. 0 \in Nat /\ 0 <= Tip
        BY <1>3
      <4> QED
        BY <1>3, <4>1, NextStartFacts
    <3>2. \A c \in cur.all : 0 < Hint[c]
      BY <1>3, ParametersAssumption
    <3>3. Covers(cur, NextStart(cur, 0, Tip))
      BY <1>2, <1>3, <3>1, <3>2, JumpCovers
    <3> QED
      BY <1>1, <1>3, <2>1, <3>1, <3>3 DEF Heights
  <2>2. CASE cur.next # 0
    <3>1. Covers(cur, cur.next)
      BY <1>1, <1>2 DEF IInv, WalkParts, WorkInv, Position
    <3> QED
      BY <1>1, <1>3, <2>2, <3>1
  <2> QED
    BY <2>1, <2>2
<1>5. target' \in 0..MaxTip
  BY <1>1, <1>3
<1> QED
  BY <1>1, <1>3, <1>4, <1>5, WalkingKeeps

LEMMA LookIntoCovers ==
  ASSUME TypeOK, ChainInv, NEW w \in Walk, WalkOK(w), NEW at \in Nat, at > 0, at <= Tip,
         Covers(w, at)
  PROVE  Covers(LookInto(w, at), at + 1)
<1> DEFINE v == LookInto(w, at)
<1>1. /\ v.all = w.all /\ v.torn = w.torn \ {at} /\ w.swept \subseteq v.swept
      /\ w.all \subseteq Chan /\ Tip \in Nat /\ (at + 1) - 1 = at
  <2>1. /\ LookInto(w, at).all = w.all /\ LookInto(w, at).torn = w.torn \ {at}
        /\ w.swept \subseteq LookInto(w, at).swept
    BY ONLY LookIntoOK, w \in Walk, WalkOK(w), at \in Nat, SMT
  <2>2. w.all \subseteq Chan
    BY DEF Walk
  <2>3. Tip \in Nat
    BY TypeFacts, Zenon
  <2> QED
    BY <2>1, <2>2, <2>3
<1> SUFFICES ASSUME NEW c \in w.all, NEW t \in Awaited(v, c)
             PROVE  Safe(c, t, at, w.torn \ {at})
  BY <1>1 DEF Covers
<1>2. c \in Chan /\ t \in Tx /\ minedAt[t] \in 0..Tip
  BY <1>1, AwaitedIn DEF TypeOK
<1>3. /\ w.spent[c] # None => v.spent[c] = w.spent[c]
      /\ v.spent[c] = None => \A u \in Closes(c) : minedAt[u] # at
      /\ (w.spent[c] = None /\ v.spent[c] # None)
            => v.spent[c] \in Closes(c) /\ minedAt[v.spent[c]] = at
      /\ (v.spent[c] = PeerClose[c] /\ c \notin v.swept) => minedAt[Sweep[c]] # at
  BY LookIntoOK
<1> HIDE DEF v
<1>4. minedAt[t] # at
  BY <1>3 DEF Awaited, Collects
<1>5. CASE t \in Awaited(w, c)
  <2>1. Safe(c, t, at - 1, w.torn)
    BY <1>5 DEF Covers
  <2> QED
    BY <1>1, <1>2, <1>4, <2>1 DEF Safe
<1>6. CASE t \notin Awaited(w, c)
  <2>1. w.spent[c] = None /\ v.spent[c] # None
    BY <1>1, <1>3, <1>6 DEF Awaited, Collects
  <2>2. v.spent[c] = PeerClose[c] /\ t = Sweep[c]
    BY <2>1 DEF Awaited, Collects
  <2>3. minedAt[PeerClose[c]] = at
    BY <1>3, <2>1, <2>2
  <2>4. minedAt[t] > 0 => at <= minedAt[t]
    BY <1>2, <2>2, <2>3 DEF ChainInv
  <2> QED
    BY <1>1, <1>2, <1>4, <2>4 DEF Safe
<1> QED
  BY <1>5, <1>6

LEMMA BlockKeeps == IInv /\ WalkBlock => IInv'
<1> SUFFICES ASSUME IInv, WalkBlock PROVE IInv'
  OBVIOUS
<1>1. /\ pc = "walk" /\ pc' = "walk" /\ h <= target /\ h <= Tip /\ h' = h + 1
      /\ cur' = LookInto(cur, h)
      /\ target' = IF h = target THEN Max({Tip, target}) ELSE target
      /\ UNCHANGED <<chain, lnd, file, mem, job, same, shown, past>>
  BY DEF WalkBlock
<1>2. TypeOK /\ ChainInv /\ cur # None
  BY <1>1 DEF IInv, TypeOK
<1>3. /\ cur \in Walk /\ WalkOK(cur) /\ Tip \in 1..MaxTip /\ Tip \in Nat /\ MaxTip \in Nat
      /\ h \in Nat /\ target \in Nat /\ target \in 0..MaxTip /\ cur.next \in Nat
  BY <1>2, TypeFacts DEF TypeOK
<1>4. Covers(cur, h) /\ cur.next <= h /\ h > 0
  BY <1>1, <1>2 DEF IInv, WalkParts, WorkInv, Position
<1>5. /\ cur' \in Walk /\ WalkOK(cur') /\ cur'.all = cur.all /\ cur'.next = cur.next
      /\ Covers(cur', h')
  BY <1>1, <1>2, <1>3, <1>4, LookIntoOK, LookIntoCovers
<1>6. h' \in Heights /\ cur.next <= h' /\ h' > 0
  BY <1>1, <1>3, <1>4 DEF Heights
<1>7. target' \in 0..MaxTip
  <2>1. Max({Tip, target}) = IF Tip <= target THEN target ELSE Tip
    BY <1>3, MaxTwo
  <2> QED
    BY <1>1, <1>3, <2>1
<1> QED
  BY <1>1, <1>5, <1>6, <1>7, WalkingKeeps

LEMMA SkipKeeps == IInv /\ SkipBlocks => IInv'
<1> SUFFICES ASSUME IInv, SkipBlocks PROVE IInv'
  OBVIOUS
<1>1. /\ pc = "walk" /\ pc' = "walk" /\ h <= target /\ Watched(cur, h) = {}
      /\ h' = NextStart(cur, h, target) /\ cur' = cur /\ target' = target
      /\ UNCHANGED <<chain, lnd, file, mem, job, same, shown, past>>
  BY DEF SkipBlocks
<1>2. TypeOK /\ ChainInv /\ cur # None
  BY <1>1 DEF IInv, TypeOK
<1>3. /\ cur \in Walk /\ WalkOK(cur) /\ cur.all \subseteq Chan /\ MaxTip \in Nat
      /\ h \in Nat /\ target \in Nat /\ target \in 0..MaxTip /\ cur.next \in Nat
  BY <1>2, TypeFacts DEF TypeOK
<1>4. cur.next <= h
  BY <1>1, <1>2 DEF IInv, WalkParts, WorkInv
<1>5. /\ h' \in Nat /\ h' <= target + 1 /\ h < h'
      /\ \A c \in cur.all : h < Hint[c] => h' <= Hint[c]
  BY <1>1, <1>3, NextStartFacts
<1>6. \A c \in cur.all : Awaited(cur, c) # {} => h < Hint[c]
  <2>1. \A c \in cur.all : Awaited(cur, c) # {} => ~(Hint[c] <= h)
    BY <1>1 DEF Watched, Awaited
  <2> QED
    BY <1>3, <2>1, ParametersAssumption
<1>7. Covers(cur, h')
  BY <1>2, <1>3, <1>5, <1>6, JumpCovers
<1>8. h' \in Heights /\ cur.next <= h' /\ h' > 0
  BY <1>3, <1>4, <1>5 DEF Heights
<1> QED
  BY <1>1, <1>3, <1>7, <1>8, WalkingKeeps

\* A walk that is cut short covers what is before the cut.
LEMMA CutCovers ==
  ASSUME TypeOK, NEW v, NEW w, NEW n \in Int, NEW m \in Int, n <= m, Covers(w, m),
         v.all = w.all, w.all \subseteq Chan, v.torn = {i \in w.torn : i < n},
         \A c \in w.all : Awaited(v, c) = Awaited(w, c)
  PROVE  Covers(v, n)
<1> SUFFICES ASSUME NEW c \in w.all, NEW t \in Awaited(w, c)
             PROVE  Safe(c, t, n - 1, {i \in w.torn : i < n})
  BY DEF Covers
<1>1. Safe(c, t, m - 1, w.torn) /\ Tip \in Nat
  BY TypeFacts DEF Covers
<1>2. t \in Tx /\ minedAt[t] \in Nat
  BY AwaitedIn DEF TypeOK
<1> QED
  BY <1>1, <1>2 DEF Safe

\* The program is idle again; its memory still has the last files' channels.
LEMMA IdleKeeps ==
  ASSUME IInv, Idle, UNCHANGED <<chain, lnd>>,
         file' # None => file' \in File /\ WalkOK(file') /\ file'.next > 1,
         mem' # None => mem' \in Walk /\ WalkOK(mem'),
         shown' \in [verdict: [Chan -> {"unverified", "open", "spent", "collect"}],
                     upTo: Heights, torn: SUBSET (Heights \ {0})],
         covered' \subseteq Chan, searched' \in BOOLEAN,
         MemInv', FileInv', ShownInv',
         file' = None => covered' = {},
         searched' /\ mem' # None => covered' \subseteq mem'.all,
         NoChannelIsForgotten'
  PROVE  IInv'
<1> USE DEF IInv
<1>1. /\ pc' = "idle" /\ job' = "check" /\ cur' = None /\ same' = FALSE /\ h' = 0 /\ target' = 0
      /\ 0 \in Heights /\ 0 \in 0..MaxTip
  BY ParametersAssumption DEF Idle, Heights
<1>2. TypeOK'
  <2>1. same' \in BOOLEAN
    BY <1>1, Zenon
  <2>2. /\ listed' \subseteq Chan /\ gone' \subseteq Chan \ listed'
        /\ block' \in Seq(0..MaxDrops) /\ Tip' \in 1..MaxTip /\ drops' \in 0..MaxDrops
        /\ minedAt' \in [Tx -> 0..Tip']
    BY SameChain DEF TypeOK, chain, lnd
  <2> QED
    BY <1>1, <2>1, <2>2 DEF TypeOK
<1>3. ChainInv'
  BY SameChain
<1>4. WorkInv' /\ CoveredInv'
  BY <1>1 DEF WorkInv, CoveredInv
<1> QED
  BY <1>2, <1>3, <1>4 DEF WalkParts

LEMMA EndsKeeps == IInv /\ WalkEnds => IInv'
<1> SUFFICES ASSUME IInv, WalkEnds PROVE IInv'
  OBVIOUS
<1> DEFINE next == IF NeverStarted THEN 0 ELSE target + 1
           w == [cur EXCEPT !.next = next, !.torn = Below(@, next)]
<1>1. /\ pc = "walk" /\ h > target /\ cur' = w /\ mem' = w
      /\ pc' = "save" /\ same' = FALSE /\ h' = 0 /\ target' = 0
      /\ UNCHANGED <<chain, lnd, file, job, shown, past>>
  BY DEF WalkEnds
<1>2. TypeOK /\ ChainInv /\ cur # None
  BY <1>1 DEF IInv, TypeOK
<1>3. /\ cur \in Walk /\ WalkOK(cur) /\ cur.all \subseteq Chan /\ MaxTip \in Nat
      /\ h \in Nat /\ target \in 0..MaxTip
  BY <1>2, TypeFacts DEF TypeOK
<1>4. next \in Heights /\ next \in Int /\ next <= h
  BY <1>1, <1>3 DEF Heights
<1>5. /\ w \in Walk /\ WalkOK(w) /\ w.all = cur.all /\ w.next = next
      /\ w.spent = cur.spent /\ w.swept = cur.swept /\ w.torn = {i \in cur.torn : i < next}
  BY <1>3, <1>4, CutOK
<1> HIDE DEF w, next
<1>6. Covers(w, w.next)
  <2>1. Covers(cur, h)
    BY <1>1, <1>2 DEF IInv, WalkParts, WorkInv, Position
  <2>2. \A c \in cur.all : Awaited(w, c) = Awaited(cur, c)
    BY <1>5, AwaitedSame
  <2> QED
    BY <1>2, <1>3, <1>4, <1>5, <2>1, <2>2, CutCovers
<1>7. w # None
  BY <1>5, NoneIsApart
<1>8. TypeOK'
  <2>1. same' \in BOOLEAN
    BY <1>1, Zenon
  <2>2. h' \in Heights /\ target' \in 0..MaxTip
    BY <1>1, <1>3 DEF Heights
  <2> QED
    BY <1>1, <1>2, <1>5, <1>7, <2>1, <2>2, SameChain DEF TypeOK, chain, lnd, past
<1>9. ChainInv' /\ FileInv' /\ ShownInv'
  BY <1>1, SameChain DEF IInv, WalkParts
<1>10. MemInv' /\ WorkInv'
  BY <1>1, <1>6, SameChain DEF MemInv, WorkInv, Covers, Position
<1>11. CoveredInv' /\ NoChannelIsForgotten'
  BY <1>1, <1>5, <1>7 DEF IInv, CoveredInv, NoChannelIsForgotten, past
<1> QED
  BY <1>8, <1>9, <1>10, <1>11 DEF IInv, WalkParts

LEMMA FailsKeeps == IInv /\ WalkFails => IInv'
<1> SUFFICES ASSUME IInv, WalkFails PROVE IInv'
  OBVIOUS
<1> DEFINE w == [cur EXCEPT !.torn = Below(@, cur.next)]
<1>1. /\ pc \in {"start", "walk"} /\ mem' = IF same THEN w ELSE mem
      /\ Idle /\ UNCHANGED <<chain, lnd, file, shown, past>>
  BY DEF WalkFails
<1>2. TypeOK /\ ChainInv /\ cur # None
  BY <1>1 DEF IInv, TypeOK
<1>3. /\ cur \in Walk /\ WalkOK(cur) /\ cur.all \subseteq Chan /\ cur.next \in Nat /\ h \in Nat
  BY <1>2, TypeFacts
<1>4. /\ w \in Walk /\ WalkOK(w) /\ w.all = cur.all /\ w.next = cur.next
      /\ w.spent = cur.spent /\ w.swept = cur.swept /\ w.torn = {i \in cur.torn : i < cur.next}
  BY <1>3 DEF Walk, WalkOK, Below
<1> HIDE DEF w
<1>5. Covers(w, w.next)
  <2>1. Covers(cur, Position) /\ Position \in Int /\ cur.next <= Position
    BY <1>2, <1>3 DEF IInv, WalkParts, WorkInv, Position
  <2>2. \A c \in cur.all : Awaited(w, c) = Awaited(cur, c)
    BY <1>4, AwaitedSame
  <2> QED
    BY <1>2, <1>3, <1>4, <2>1, <2>2, CutCovers
<1>6. mem' # None => mem' \in Walk /\ WalkOK(mem')
  BY <1>1, <1>2, <1>4, TypeFacts
<1>7. MemInv' /\ FileInv' /\ ShownInv'
  <2>1. FileInv' /\ ShownInv'
    BY <1>1, SameChain DEF IInv, WalkParts
  <2>2. MemInv'
    BY <1>1, <1>5, SameChain DEF IInv, WalkParts, MemInv, Covers
  <2> QED
    BY <2>1, <2>2
<1>8. searched' /\ mem' # None => covered' \subseteq mem'.all
  BY <1>1, <1>4 DEF IInv, CoveredInv, past, TypeOK
<1>9. /\ file' = file /\ shown' = shown /\ covered' = covered /\ searched' = searched
      /\ searched' \in BOOLEAN /\ covered' \subseteq Chan
      /\ file' # None => file' \in File /\ WalkOK(file') /\ file'.next > 1
      /\ shown' \in [verdict: [Chan -> {"unverified", "open", "spent", "collect"}],
                     upTo: Heights, torn: SUBSET (Heights \ {0})]
  BY <1>1, <1>2 DEF past, TypeOK
<1>10. (file' = None => covered' = {}) /\ NoChannelIsForgotten'
  BY <1>9 DEF IInv, CoveredInv, NoChannelIsForgotten
<1> QED
  BY <1>1, <1>6, <1>7, <1>8, <1>9, <1>10, IdleKeeps

-----------------------------------------------------------------------------
(* chainWalk.save, the verdicts, a restart.                                *)

LEMMA SaveGood ==
  ASSUME IInv, pc = "save", Save, UNCHANGED chain
  PROVE  /\ file' # None /\ file' \in File /\ WalkOK(file') /\ file'.next > 1
         /\ file'.all = cur.all /\ FileInv'
<1> DEFINE next == cur.next - Back
           f == [all |-> cur.all, found |-> cur.found, spent |-> cur.spent,
                 swept |-> cur.swept, next |-> next, last |-> block[next - 1],
                 torn |-> Below(cur.torn, next),
                 reached |-> cur.next - 1, lowest |-> Min({cur.next, Tip + 1})]
<1>1. cur.next > Back + 1 /\ next - 1 <= Tip /\ file' = f
  BY DEF Save
<1>2. TypeOK /\ ChainInv /\ cur # None
  BY DEF IInv, TypeOK
<1>3. /\ cur \in Walk /\ WalkOK(cur) /\ cur.all \subseteq Chan /\ cur.next \in Heights
      /\ cur.next \in Nat /\ Tip \in 1..MaxTip /\ Tip \in Nat /\ MaxTip \in Nat
      /\ Back \in Nat \ {0} /\ MaxDrops \in Nat
  BY <1>2, TypeFacts, ParametersAssumption DEF Walk
<1>4. /\ next \in Nat /\ next > 1 /\ next < cur.next /\ next \in Heights /\ next - 1 \in 1..Tip
      /\ cur.next - 1 \in Heights
  BY <1>1, <1>3 DEF Heights
<1>5. /\ Min({cur.next, Tip + 1}) \in Heights /\ next <= Min({cur.next, Tip + 1})
      /\ 0 < Min({cur.next, Tip + 1}) /\ Min({cur.next, Tip + 1}) <= Tip + 1
  <2>1. Min({cur.next, Tip + 1}) = IF cur.next <= Tip + 1 THEN cur.next ELSE Tip + 1
    BY <1>3, MinTwo
  <2> QED
    BY <1>1, <1>3, <1>4, <2>1 DEF Heights
<1>6. block[next - 1] \in 0..MaxDrops
  BY <1>2, <1>4, ElementOfSeq DEF TypeOK, Tip
<1> HIDE DEF next
<1>7. f \in File
  BY <1>3, <1>4, <1>5, <1>6 DEF File, Walk, Below
<1>8. /\ f.all = cur.all /\ f.next = next /\ f.spent = cur.spent /\ f.swept = cur.swept
      /\ f.torn = {i \in cur.torn : i < next} /\ f.last = block[next - 1]
      /\ f.reached = cur.next - 1 /\ f.lowest = Min({cur.next, Tip + 1})
      /\ f.found = cur.found
  BY DEF Below
<1> HIDE DEF f
<1>9. WalkOK(f)
  BY <1>3, <1>8 DEF WalkOK
<1>10. Covers(f, next)
  <2>1. Covers(cur, cur.next)
    BY <1>2 DEF IInv, WalkParts, WorkInv, Position
  <2>2. \A c \in cur.all : Awaited(f, c) = Awaited(cur, c)
    BY <1>8, AwaitedSame
  <2> QED
    BY <1>2, <1>3, <1>4, <1>8, <2>1, <2>2, CutCovers
<1>11. FileInv'
  <2>1. next = (cur.next - 1) - Back + 1
    BY <1>3 DEF next
  <2>2. \A c \in f.all : \A t \in Awaited(f, c) :
          /\ minedAt[t] \notin (1..(f.next - 1)) \ f.torn
          /\ \A i \in (Tip + 1)..(f.next - 1) : i \in f.torn \/ i < Hint[c]
    BY <1>8, <1>10 DEF Covers, Safe
  <2>3. ~(f.lowest < f.next)
    BY <1>4, <1>5, <1>7, <1>8 DEF Heights
  <2>4. block' = block /\ Tip' = Tip /\ minedAt' = minedAt
    BY SameChain DEF chain
  <2>5. Covers(file, file.next)'
    BY <1>1, <2>2, <2>4 DEF Covers, Safe
  <2> QED
    BY <1>1, <1>5, <1>8, <2>1, <2>3, <2>4, <2>5 DEF FileInv
<1>12. f # None
  BY <1>7, NoneIsApart
<1> QED
  BY <1>1, <1>4, <1>7, <1>8, <1>9, <1>11, <1>12

\* The verdicts say of the chain what the walk covers.
LEMMA VerdictGood ==
  ASSUME IInv, pc = "save", UNCHANGED chain,
         shown' = [verdict |-> [c \in Chan |-> Verdict(cur, c)],
                   upTo |-> Max({0, cur.next - 1}), torn |-> cur.torn]
  PROVE  /\ shown' \in [verdict: [Chan -> {"unverified", "open", "spent", "collect"}],
                        upTo: Heights, torn: SUBSET (Heights \ {0})]
         /\ ShownInv'
<1>1. TypeOK /\ cur # None
  BY DEF IInv, TypeOK
<1>2. cur \in Walk /\ cur.all \subseteq Chan /\ cur.next \in Nat /\ cur.next \in Heights
      /\ Tip \in Nat /\ Tip > 0
  BY <1>1, TypeFacts DEF Walk
<1>3. Covers(cur, cur.next)
  BY <1>1 DEF IInv, WalkParts, WorkInv, Position
<1>4. Max({0, cur.next - 1}) = IF cur.next = 0 THEN 0 ELSE cur.next - 1
  <2>1. CASE cur.next = 0
    <3>1. \E m \in {0, -1} : \A x \in {0, -1} : m >= x
      OBVIOUS
    <3>2. Max({0, -1}) \in {0, -1} /\ \A x \in {0, -1} : Max({0, -1}) >= x
      BY <3>1 DEF Max
    <3>3. Max({0, -1}) = 0
      BY <3>2
    <3> QED
      BY <2>1, <3>3
  <2>2. CASE cur.next # 0
    <3>1. cur.next - 1 \in Nat /\ 0 \in Nat
      BY <1>2, <2>2
    <3> QED
      BY <2>2, <3>1, MaxTwo
  <2> QED
    BY <2>1, <2>2
<1>5. /\ shown'.upTo = IF cur.next = 0 THEN 0 ELSE cur.next - 1
      /\ shown'.torn = cur.torn /\ \A c \in Chan : shown'.verdict[c] = Verdict(cur, c)
  BY <1>4
<1>6. shown' \in [verdict: [Chan -> {"unverified", "open", "spent", "collect"}],
                  upTo: Heights, torn: SUBSET (Heights \ {0})]
  <2>1. \A c \in Chan : Verdict(cur, c) \in {"unverified", "open", "spent", "collect"}
    BY DEF Verdict
  <2>2. Max({0, cur.next - 1}) \in Heights
    BY <1>2, <1>4, ParametersAssumption DEF Heights
  <2> QED
    BY <1>2, <2>1, <2>2 DEF Walk
<1>7. ASSUME NEW c \in cur.all, NEW t \in Awaited(cur, c)
      PROVE  /\ minedAt'[t] \notin (1..(shown'.upTo)) \ shown'.torn
             /\ \A i \in (Tip' + 1)..(shown'.upTo) : i \in shown'.torn \/ i < Hint[c]
  <2>1. Safe(c, t, cur.next - 1, cur.torn)
    BY <1>3 DEF Covers
  <2>2. Safe(c, t, IF cur.next = 0 THEN 0 ELSE cur.next - 1, cur.torn)
    BY <1>2, <2>1 DEF Safe
  <2> QED
    BY <1>5, <2>2, SameChain DEF Safe, chain
<1>8. \A c \in Chan : Verdict(cur, c) = "open" => c \in cur.all /\ Awaited(cur, c) = Closes(c)
  BY DEF Verdict, Awaited
<1>9. \A c \in Chan : Verdict(cur, c) = "collect" =>
        c \in cur.all /\ Awaited(cur, c) = {Sweep[c]}
  BY DEF Verdict, Awaited
<1>10. ShownInv'
  BY <1>5, <1>7, <1>8, <1>9 DEF ShownInv, Safe
<1> QED
  BY <1>6, <1>10

LEMMA SavedKeeps == IInv /\ Saved => IInv'
<1> SUFFICES ASSUME IInv, Saved PROVE IInv'
  OBVIOUS
<1> DEFINE since == IF job = "search" THEN cur.all ELSE covered \cup cur.all
<1>1. /\ pc = "save" /\ (Save \/ TooShortToSave) /\ Idle /\ UNCHANGED <<chain, lnd, mem>>
      /\ covered' = IF file' = file THEN covered \cap since ELSE since
      /\ shown' = IF job = "search" THEN shown
                  ELSE [verdict |-> [c \in Chan |-> Verdict(cur, c)],
                        upTo |-> Max({0, cur.next - 1}), torn |-> cur.torn]
      /\ searched' \in {searched, TRUE}
  BY DEF Saved
<1>2. TypeOK /\ cur # None /\ mem # None /\ mem.all = cur.all
  BY <1>1 DEF IInv, TypeOK, CoveredInv
<1>3. cur.all \subseteq Chan /\ mem \in Walk /\ WalkOK(mem)
  BY <1>2, TypeFacts
<1>4. /\ file' # None => file' \in File /\ WalkOK(file') /\ file'.next > 1
      /\ FileInv'
      /\ file' # file => file' # None /\ file'.all = cur.all
  <2>1. CASE Save
    BY <1>1, <2>1, SaveGood
  <2>2. CASE TooShortToSave
    BY <1>1, <1>2, <2>2, SameChain DEF TooShortToSave, IInv, WalkParts, TypeOK
  <2> QED
    BY <1>1, <2>1, <2>2
<1>5. /\ shown' \in [verdict: [Chan -> {"unverified", "open", "spent", "collect"}],
                     upTo: Heights, torn: SUBSET (Heights \ {0})]
      /\ ShownInv'
  <2>1. CASE job = "search"
    BY <1>1, <1>2, <2>1, SameChain DEF IInv, WalkParts, TypeOK
  <2>2. CASE job # "search"
    BY <1>1, <2>2, VerdictGood
  <2> QED
    BY <2>1, <2>2
<1>6. MemInv'
  BY <1>1, SameChain DEF IInv, WalkParts
<1>7. job # "search" => covered \subseteq cur.all
  BY <1>1, <1>2 DEF IInv, CoveredInv, TypeOK
<1>8. since = cur.all
  BY <1>7
<1>9. covered' \subseteq cur.all /\ (file' = file => covered' \subseteq covered)
  BY <1>1, <1>8
<1>10. (file' = None => covered' = {}) /\ NoChannelIsForgotten'
  <2>1. file = None => covered = {}
    BY DEF IInv, CoveredInv
  <2>2. file # None => covered \subseteq file.all
    BY DEF IInv, NoChannelIsForgotten
  <2> QED
    BY <1>4, <1>9, <2>1, <2>2 DEF NoChannelIsForgotten
<1>11. searched' \in BOOLEAN
  BY <1>1, <1>2, Zenon DEF TypeOK
<1>12. /\ mem' # None => mem' \in Walk /\ WalkOK(mem')
       /\ mem' # None => covered' \subseteq mem'.all
       /\ covered' \subseteq Chan
  BY <1>1, <1>2, <1>3, <1>9
<1> QED
  BY <1>1, <1>4, <1>5, <1>6, <1>10, <1>11, <1>12, IdleKeeps

LEMMA StopKeeps == IInv /\ (SaveFails \/ Restart) => IInv'
<1> SUFFICES ASSUME IInv, SaveFails \/ Restart PROVE IInv'
  OBVIOUS
<1>1. /\ Idle /\ UNCHANGED <<chain, lnd, file, past>>
      /\ (UNCHANGED <<mem, shown>> /\ pc = "save") \/ (mem' = None /\ shown' = NothingShown)
  BY DEF SaveFails, Restart
<1>2. TypeOK /\ FileInv' /\ file' = file /\ covered' = covered /\ searched' = searched
  BY <1>1, SameChain DEF IInv, WalkParts, past
<1>3. /\ MemInv'
      /\ mem' # None => mem' \in Walk /\ WalkOK(mem')
      /\ searched' /\ mem' # None => covered' \subseteq mem'.all
  BY <1>1, <1>2, SameChain, TypeFacts DEF IInv, WalkParts, MemInv, CoveredInv
<1>4. /\ shown' \in [verdict: [Chan -> {"unverified", "open", "spent", "collect"}],
                     upTo: Heights, torn: SUBSET (Heights \ {0})]
      /\ ShownInv'
  <2>1. CASE UNCHANGED shown
    BY <1>1, <1>2, <2>1, SameChain DEF IInv, WalkParts, TypeOK
  <2>2. CASE shown' = NothingShown
    <3>1. /\ NothingShown \in [verdict: [Chan -> {"unverified", "open", "spent", "collect"}],
                               upTo: Heights, torn: SUBSET (Heights \ {0})]
          /\ \A c \in Chan : NothingShown.verdict[c] = "unverified"
      BY ParametersAssumption DEF NothingShown, Heights
    <3> QED
      BY <2>2, <3>1 DEF ShownInv
  <2> QED
    BY <1>1, <2>1, <2>2
<1>5. /\ file' # None => file' \in File /\ WalkOK(file') /\ file'.next > 1
      /\ covered' \subseteq Chan /\ (file' = None => covered' = {})
      /\ NoChannelIsForgotten'
  BY <1>2 DEF TypeOK, IInv, CoveredInv, NoChannelIsForgotten
<1>6. searched' \in BOOLEAN
  BY <1>2 DEF TypeOK
<1> QED
  BY <1>1, <1>2, <1>3, <1>4, <1>5, <1>6, IdleKeeps

-----------------------------------------------------------------------------
LEMMA StutterKeeps == IInv /\ UNCHANGED vars => IInv'
<1> SUFFICES ASSUME IInv, UNCHANGED vars PROVE IInv'
  OBVIOUS
<1> USE DEF IInv
<1>1. UNCHANGED <<chain, lnd, file, mem, work, shown, past>>
  BY DEF vars
<1>2. TypeOK'
  BY <1>1, SameChain DEF TypeOK, chain, lnd, work, past
<1>3. ChainInv' /\ MemInv' /\ FileInv' /\ ShownInv'
  BY <1>1, SameChain DEF WalkParts
<1>4. WorkInv'
  BY <1>1, SameChain DEF WalkParts, WorkInv, Covers, Position, work
<1>5. CoveredInv' /\ NoChannelIsForgotten'
  BY <1>1 DEF CoveredInv, NoChannelIsForgotten, work, past
<1> QED
  BY <1>2, <1>3, <1>4, <1>5 DEF WalkParts

LEMMA NextInv == IInv /\ [Next]_vars => IInv'
<1> SUFFICES ASSUME IInv, [Next]_vars PROVE IInv'
  OBVIOUS
<1>1. CASE Connect \/ Disconnect
  BY <1>1, ConnectKeeps, DisconnectKeeps
<1>2. CASE \E c \in Chan : LndListsOpen(c) \/ LndSeesClose(c)
  BY <1>2, LndKeeps
<1>3. CASE NothingToCheck \/ CarryOn \/ CarryOnSaved \/ CheckFromStart \/ Search
  BY <1>3, NothingKeeps, StartKeeps
<1>4. CASE Run \/ WalkBlock \/ SkipBlocks \/ WalkEnds \/ WalkFails
  BY <1>4, RunKeeps, BlockKeeps, SkipKeeps, EndsKeeps, FailsKeeps
<1>5. CASE Saved \/ SaveFails \/ Restart
  BY <1>5, SavedKeeps, StopKeeps
<1>6. CASE UNCHANGED vars
  BY <1>6, StutterKeeps
<1> QED
  BY <1>1, <1>2, <1>3, <1>4, <1>5, <1>6 DEF Next

LEMMA SpecInv == Spec => []IInv
  BY InitInv, NextInv, PTL DEF Spec

(***************************************************************************)
(* The walks in memory, at work and on file are what loadWalk, run and     *)
(* save make of them, in every state.                                      *)
(***************************************************************************)
THEOREM TypeCorrect == Spec => []TypeOK
<1>1. IInv => TypeOK
  BY DEF IInv
<1> QED
  BY <1>1, SpecInv, PTL

(***************************************************************************)
(* For any chain, any backup and any number of starts: a channel shown as  *)
(* open is closed in no block up to the one the check reached, but for     *)
(* blocks replaced under a walk in memory (CheckChannelsOnChain, loadWalk).*)
(***************************************************************************)
THEOREM NoCloseIsMissedHolds == Spec => []NoCloseIsMissed
<1>1. IInv => NoCloseIsMissed
  BY DEF IInv, WalkParts, ShownInv, Safe, NoCloseIsMissed, WalkedOver
<1> QED
  BY <1>1, SpecInv, PTL

(***************************************************************************)
(* For any chain: what is shown as left to collect is swept in no block    *)
(* the check went over, whichever starts saw the close and the sweep       *)
(* (fundingState.toUsSpent, through save and loadWalk).                    *)
(***************************************************************************)
THEOREM NothingCollectedTwiceHolds == Spec => []NothingCollectedTwice
<1>1. IInv => NothingCollectedTwice
  BY DEF IInv, WalkParts, ShownInv, Safe, NothingCollectedTwice, WalkedOver
<1> QED
  BY <1>1, SpecInv, PTL

(***************************************************************************)
(* For any set of channels: the file a check writes has every channel of   *)
(* the files before it, back to the last search (CheckChannelsOnChain's    *)
(* earlier channels, savedFundings).                                       *)
(***************************************************************************)
THEOREM NoChannelIsForgottenHolds == Spec => []NoChannelIsForgotten
<1>1. IInv => NoChannelIsForgotten
  BY DEF IInv
<1> QED
  BY <1>1, SpecInv, PTL

(***************************************************************************)
(* For any margin: a reorganisation within it leaves the file on a block   *)
(* of the chain (walkStateBack, save).                                     *)
(***************************************************************************)
THEOREM OrdinaryReorgIsCheapHolds == Spec => []OrdinaryReorgIsCheap
<1>1. IInv => OrdinaryReorgIsCheap
  <2> SUFFICES ASSUME IInv, file # None, file.reached - file.lowest < Back
               PROVE  file.next <= Tip + 1 /\ block[file.next - 1] = file.last
    BY DEF OrdinaryReorgIsCheap
  <2>1. /\ file.next \in Nat /\ file.lowest \in Nat /\ file.reached \in Nat /\ Tip \in Nat
        /\ Back \in Nat
    BY TypeFacts, ParametersAssumption DEF IInv
  <2>2. file.next = file.reached - Back + 1 /\ file.lowest <= Tip + 1
    BY DEF IInv, WalkParts, FileInv
  <2>3. file.next <= file.lowest
    BY <2>1, <2>2
  <2> QED
    BY <2>1, <2>2, <2>3 DEF IInv, WalkParts, FileInv
<1> QED
  BY <1>1, SpecInv, PTL

=============================================================================
