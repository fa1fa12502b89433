------------------------- MODULE Accounting_proofs -------------------------
(***************************************************************************)
(* Proofs about Accounting, for any finite set of channels, amounts and    *)
(* fee bumps: what a Status leaves out, however the world moves between    *)
(* the answers it is made of, when the app stops waiting, and that the     *)
(* figures of one moment add up to the money there is.                     *)
(***************************************************************************)
EXTENDS Accounting, Folding, TLAPS, FiniteSetTheorems, SequenceTheorems

\* The channels and their closes.
ChannelInv ==
  /\ kind \in [Chan -> {"peer", "own", "coop"}]
  /\ close \in [Chan -> {"no", "sent", "mined"}]
  /\ lnd \in [Chan -> {"open", "waiting", "force", "closed"}]

\* What lnd and the wallet know of a close is so on chain.
WorldInv ==
  \A c \in Chan :
    /\ lnd[c] = "force" => kind[c] # "coop"
    /\ lnd[c] = "closed" => Home(c)
    /\ kind[c] = "coop" /\ close[c] = "mined" => CloseTx(c) \in mined
    /\ CloseTx(c) \in mined => kind[c] = "coop"

\* What the last check found: a spent channel stays spent, a payout that is
\* not to collect has arrived, and a channel it does not know is not open.
CheckInv ==
  \A c \in Chan :
    /\ checks.verdict[c] \in {"none", "open", "spent"}
    /\ PayoutKnown(c) => c \in checks.collect \/ Home(c)
    /\ checks.done /\ checks.verdict[c] = "none" => lnd[c] # "open"

\* The answers so far.
AnswerInv ==
  /\ pc # "idle" => checks.done /\ st = None
  /\ DOMAIN rd = DOMAIN NothingRead
  /\ \A c \in Chan :
       /\ pc \in {"idle", "txs", "open"} => c \notin rd.open
       /\ pc \in {"idle", "txs", "open", "pending"} => c \notin rd.waiting /\ c \notin rd.force
       /\ c \in rd.paid => Home(c)
       /\ c \in rd.open => checks.verdict[c] # "none"
       /\ c \in rd.force => kind[c] # "coop"
       /\ pc = "pending" /\ c \notin rd.open => lnd[c] # "open"
       /\ pc = "swept" /\ "pending" \notin rd.warnings /\ c \notin rd.open
          => c \in rd.waiting \cup rd.force \/ Home(c)

IInv == ChannelInv /\ WorldInv /\ CheckInv /\ AnswerInv /\ NothingIsLeftOut

-----------------------------------------------------------------------------
\* What the wallet has stays in it.
LEMMA HomeStays ==
  ASSUME NEW c \in Chan, Home(c), kind' = kind, mined \subseteq mined'
  PROVE  Home(c)'
  BY DEF Home, Spent, CloseTx

\* A close that counts as swept has paid: an anchor alone is less than half.
LEMMA SweptIsHome ==
  ASSUME NEW force, NEW c \in SweptBy(force), kind[c] # "coop"
  PROVE  Home(c)
<1>1. BroughtIn(c) * 2 >= Owed
  BY DEF SweptBy
<1>2. SUFFICES ASSUME <<"pay", c>> \notin Spent(mined) PROVE FALSE
  BY DEF Home
<1>3. Brought(<<"pay", c>>) = 0
  BY <1>2 DEF Brought
<1>4. CASE <<"anchor", c>> \notin Spent(mined)
  BY <1>1, <1>3, <1>4, AmountsAssumption DEF Brought, BroughtIn
<1>5. CASE <<"anchor", c>> \in Spent(mined)
  <2> DEFINE t == CHOOSE u \in mined : <<"anchor", c>> \in Inputs(u)
  <2>1. <<"anchor", c>> \in Inputs(t)
    BY <1>5 DEF Spent
  <2>2. t.what = "anchor"
    BY <2>1 DEF Inputs
  <2>3. Brought(<<"anchor", c>>) = 1
    BY <1>5, <2>2 DEF Brought, Amount
  <2> QED BY <1>1, <1>3, <2>3, AmountsAssumption DEF BroughtIn
<1> QED BY <1>4, <1>5

\* Nothing is left out of the Status put together from the answers.
LEMMA AssembleIsWhole ==
  ASSUME IInv, pc = "swept", NEW swept, NEW warnings,
         \A c \in Chan : c \in rd.force \cap swept => Home(c),
         rd.warnings \subseteq warnings, NEW c \in Chan, ~Home(c),
         ~("pending" \in warnings /\ ~PayoutKnown(c))
  PROVE  LET s == Assemble(swept, warnings) IN
         c \in s.channels \cup s.collect \cup s.pending \cup s.unresolved
<1> DEFINE s == Assemble(swept, warnings)
<1>1. /\ s.channels = {d \in rd.open : checks.verdict[d] = "open"}
      /\ s.collect = checks.collect
      /\ s.pending = ((rd.waiting \ rd.paid) \cup (rd.force \ swept)) \ {d \in Chan : PayoutKnown(d)}
      /\ s.unresolved = {d \in rd.open : checks.verdict[d] = "spent"}
                        \ ({d \in Chan : PayoutKnown(d)} \cup (rd.waiting \cup rd.force))
  BY DEF Assemble
<1>2. CASE PayoutKnown(c)
  BY <1>1, <1>2 DEF IInv, CheckInv
<1>3. CASE ~PayoutKnown(c) /\ c \in rd.waiting \cup rd.force
  BY <1>1, <1>3 DEF IInv, AnswerInv
<1>4. CASE ~PayoutKnown(c) /\ c \notin rd.waiting \cup rd.force
  <2>1. c \in rd.open
    BY <1>4 DEF IInv, AnswerInv
  <2>2. checks.verdict[c] \in {"open", "spent"}
    BY <2>1 DEF IInv, AnswerInv, CheckInv
  <2> QED BY <1>1, <1>4, <2>1, <2>2
<1> QED BY <1>2, <1>3, <1>4

-----------------------------------------------------------------------------
LEMMA InitIInv == Init => IInv
BY DEF Init, IInv, ChannelInv, WorldInv, CheckInv, AnswerInv, NothingIsLeftOut, PayoutKnown,
       NotChecked, NothingRead, CloseTx, Home

\* A step of the world keeps what the app has read true enough.
LEMMA WorldKeepsIInv == ASSUME IInv, World PROVE IInv'
<1> USE DEF IInv
<1> DEFINE Keeps == /\ mined \subseteq mined' /\ kind' = kind /\ Moves
                    /\ \A c \in Chan : lnd'[c] = "open" => lnd[c] = "open"
<1>1. ASSUME Keeps, ChannelInv', WorldInv' PROVE IInv'
  <2>1. \A c \in Chan : Home(c) => Home(c)'
    BY <1>1, HomeStays
  <2>2. CheckInv'
    BY <1>1, <2>1 DEF CheckInv, PayoutKnown, Moves, ChannelInv
  <2>3. AnswerInv'
    BY <1>1, <2>1 DEF AnswerInv, Moves, status, ChannelInv, NothingRead
  <2>4. NothingIsLeftOut'
    BY <1>1 DEF NothingIsLeftOut, Moves
  <2> QED BY <1>1, <2>2, <2>3, <2>4
<1>2. ASSUME NEW c \in Chan, CloseSent(c) PROVE Keeps /\ ChannelInv' /\ WorldInv'
  BY <1>2 DEF CloseSent, Moves, ChannelInv, WorldInv, Home, Spent
<1>3. ASSUME NEW c \in Chan, CloseMined(c) PROVE Keeps /\ ChannelInv' /\ WorldInv'
  <2>1. Keeps /\ ChannelInv'
    BY <1>3 DEF CloseMined, Moves, ChannelInv
  <2>2. \A d \in Chan : Home(d) => Home(d)'
    BY <2>1, HomeStays
  <2>3. \A d \in Chan : CloseTx(d) = CloseTx(c) => d = c
    BY DEF CloseTx
  <2> QED BY <1>3, <2>1, <2>2, <2>3 DEF CloseMined, WorldInv, ChannelInv, Moves
<1>4. ASSUME NEW c \in Chan, LndNoticesClose(c) PROVE Keeps /\ ChannelInv' /\ WorldInv'
  BY <1>4 DEF LndNoticesClose, Moves, ChannelInv, WorldInv, Home, Spent
<1>5. ASSUME NEW t, mined' = mined \cup {t}, t.what # "close", Moves, UNCHANGED <<close, lnd>>
      PROVE  Keeps /\ ChannelInv' /\ WorldInv'
  <2>1. Keeps /\ ChannelInv'
    BY <1>5 DEF Moves, ChannelInv
  <2>2. \A d \in Chan : Home(d) => Home(d)'
    BY <2>1, HomeStays
  <2>3. \A d \in Chan : CloseTx(d) # t
    BY <1>5 DEF CloseTx
  <2> QED BY <1>5, <2>1, <2>2, <2>3 DEF WorldInv, Moves
<1>6. ASSUME NEW c \in Chan, PhoneSpends(c) PROVE Keeps /\ ChannelInv' /\ WorldInv'
  <2>1. PICK t \in {PhoneTx(c), AnchorTx(c)} : mined' = mined \cup {t}
    BY <1>6 DEF PhoneSpends
  <2>2. t.what # "close"
    BY <2>1 DEF PhoneTx, AnchorTx
  <2> QED BY <1>5, <1>6, <2>1, <2>2 DEF PhoneSpends
<1>7. ASSUME NEW c \in Chan, LndResolves(c) PROVE Keeps /\ ChannelInv' /\ WorldInv'
  BY <1>7 DEF LndResolves, Moves, ChannelInv, WorldInv, Home, Spent
<1>8. ASSUME NEW B \in SUBSET Chan, LndSweeps(B) PROVE Keeps /\ ChannelInv' /\ WorldInv'
  BY <1>8 DEF LndSweeps, Moves, ChannelInv, WorldInv, Home, Spent
<1>9. ASSUME NEW t, SweepMined(t) PROVE Keeps /\ ChannelInv' /\ WorldInv'
  BY <1>5, <1>9 DEF SweepMined
<1> QED BY <1>1, <1>2, <1>3, <1>4, <1>6, <1>7, <1>8, <1>9 DEF World

LEMMA CheckKeepsIInv == ASSUME IInv, Check PROVE IInv'
<1> USE DEF IInv
<1>1. /\ UNCHANGED <<world, pc, rd>> /\ pc = "idle" /\ st' = None
      /\ checks' = OnChain(walked') /\ {c \in Chan : lnd[c] = "open"} \subseteq walked'
  BY DEF Check, status
<1>2. ChannelInv' /\ WorldInv'
  BY <1>1 DEF ChannelInv, WorldInv, Home, Spent, world
<1>3. CheckInv'
  BY <1>1 DEF CheckInv, OnChain, PayoutKnown, Home, Spent, world, ChannelInv
<1>4. AnswerInv'
  BY <1>1, <1>3 DEF AnswerInv, Home, Spent, world, NothingRead
<1> QED BY <1>1, <1>2, <1>3, <1>4 DEF NothingIsLeftOut

\* The steps of status.
LEMMA StatusKeepsIInv ==
  ASSUME IInv, ReadBalance \/ ReadTxs \/ ReadOpen \/ ReadPending \/ ReadSwept \/ StatusFails
  PROVE  IInv'
<1> USE DEF IInv
<1>1. UNCHANGED <<kind, close, lnd, mined, checks>>
  BY DEF ReadBalance, ReadTxs, ReadOpen, ReadPending, ReadSwept, StatusFails, Answer, world
<1>2. ChannelInv' /\ WorldInv' /\ CheckInv' /\ (\A c \in Chan : Home(c)' <=> Home(c))
  BY <1>1 DEF ChannelInv, WorldInv, CheckInv, Home, Spent, PayoutKnown
<1>3. ASSUME ReadBalance PROVE AnswerInv' /\ NothingIsLeftOut'
  BY <1>3 DEF ReadBalance, Answer, AnswerInv, NothingIsLeftOut, NothingRead
<1>4. ASSUME ReadTxs PROVE AnswerInv' /\ NothingIsLeftOut'
  <2>1. \A c \in Chan : CloseTx(c) \in mined => Home(c)
    BY DEF WorldInv, Home
  <2>2. /\ DOMAIN rd' = DOMAIN rd /\ rd'.paid \subseteq rd.paid \cup {c \in Chan : CloseTx(c) \in mined}
        /\ rd'.open = rd.open /\ rd'.waiting = rd.waiting /\ rd'.force = rd.force
    <3>1. CASE rd' = [rd EXCEPT !.warnings = @ \cup {"txs"}]
      BY <3>1 DEF AnswerInv, NothingRead
    <3>2. CASE \E u : rd' = [rd EXCEPT !.unconf = u, !.paid = {c \in Chan : CloseTx(c) \in mined}]
      BY <3>2 DEF AnswerInv, NothingRead
    <3> QED BY <1>4, <3>1, <3>2 DEF ReadTxs
  <2> QED BY <1>1, <1>2, <1>4, <2>1, <2>2 DEF ReadTxs, Answer, AnswerInv, NothingIsLeftOut
<1>5. ASSUME ReadOpen PROVE AnswerInv' /\ NothingIsLeftOut'
  <2>1. /\ DOMAIN rd' = DOMAIN rd /\ rd'.paid = rd.paid /\ rd'.open = {c \in Chan : lnd[c] = "open"}
        /\ rd'.waiting = rd.waiting /\ rd'.force = rd.force
    BY <1>5 DEF ReadOpen, AnswerInv, NothingRead
  <2> QED BY <1>1, <1>2, <1>5, <2>1 DEF ReadOpen, Answer, AnswerInv, NothingIsLeftOut, CheckInv
<1>6. ASSUME ReadPending PROVE AnswerInv' /\ NothingIsLeftOut'
  <2>1. /\ DOMAIN rd' = DOMAIN rd /\ rd'.paid = rd.paid /\ rd'.open = rd.open
        /\ \/ "pending" \in rd'.warnings /\ rd'.waiting = rd.waiting /\ rd'.force = rd.force
           \/ /\ rd'.waiting = {c \in Chan : lnd[c] = "waiting"}
              /\ rd'.force = {c \in Chan : lnd[c] = "force"}
    <3>1. CASE rd' = [rd EXCEPT !.warnings = @ \cup {"pending"}]
      BY <3>1 DEF AnswerInv, NothingRead
    <3>2. CASE rd' = [rd EXCEPT !.waiting = {c \in Chan : lnd[c] = "waiting"},
                                !.force = {c \in Chan : lnd[c] = "force"}]
      BY <3>2 DEF AnswerInv, NothingRead
    <3> QED BY <1>6, <3>1, <3>2 DEF ReadPending
  <2>2. \A c \in Chan : c \notin rd.open /\ lnd[c] \notin {"waiting", "force"} => Home(c)
    BY <1>6 DEF ReadPending, Answer, AnswerInv, ChannelInv, WorldInv
  <2> QED BY <1>1, <1>2, <1>6, <2>1, <2>2 DEF ReadPending, Answer, AnswerInv, NothingIsLeftOut, WorldInv
<1>7. ASSUME ReadSwept PROVE AnswerInv' /\ NothingIsLeftOut'
  <2>1. AnswerInv'
    BY <1>1, <1>7 DEF ReadSwept, Answer, AnswerInv, NothingRead
  <2>2. PICK swept, warnings : /\ st' = Assemble(swept, warnings) /\ rd.warnings \subseteq warnings
                               /\ swept = {} \/ swept = SweptBy(rd.force)
    BY <1>7 DEF ReadSwept
  <2>3. \A c \in Chan : c \in rd.force \cap swept => Home(c)
    BY <2>2, SweptIsHome DEF AnswerInv
  <2>4. pc = "swept"
    BY <1>7 DEF ReadSwept, Answer
  <2>5. st'.warnings = warnings
    BY <2>2 DEF Assemble
  <2> QED BY <1>1, <1>2, <2>1, <2>2, <2>3, <2>4, <2>5, AssembleIsWhole DEF NothingIsLeftOut, PayoutKnown
<1>8. ASSUME StatusFails PROVE AnswerInv' /\ NothingIsLeftOut'
  BY <1>1, <1>8 DEF StatusFails, Answer, AnswerInv, NothingIsLeftOut, NothingRead
<1> QED BY <1>2, <1>3, <1>4, <1>5, <1>6, <1>7, <1>8

LEMMA RestartKeepsIInv == ASSUME IInv, Restart PROVE IInv'
BY DEF IInv, Restart, ChannelInv, WorldInv, CheckInv, AnswerInv, NothingIsLeftOut, PayoutKnown,
       NotChecked, NothingRead, Home, Spent, world

LEMMA StutterKeepsIInv == ASSUME IInv, UNCHANGED vars PROVE IInv'
BY DEF IInv, ChannelInv, WorldInv, CheckInv, AnswerInv, NothingIsLeftOut, PayoutKnown, Home, Spent,
       vars, world, status

LEMMA StepIInv == IInv /\ [Next]_vars => IInv'
BY WorldKeepsIInv, CheckKeepsIInv, StatusKeepsIInv, RestartKeepsIInv, StutterKeepsIInv DEF Next, App

(***************************************************************************)
(* status (core/node.go:528-670) leaves no channel out whose money has not *)
(* arrived, whatever lnd and the chain do between its five calls.          *)
(***************************************************************************)
THEOREM StatusIsWhole == Spec => []NothingIsLeftOut
<1>1. IInv => NothingIsLeftOut
  BY DEF IInv
<1> QED BY InitIInv, StepIInv, <1>1, PTL DEF Spec

\* The app waits for nothing more: all there is, is in the wallet or open.
DoneMeansDone ==
  st # None /\ ~Collecting(st) =>
    \A c \in Chan : Home(c) \/ c \in st.channels \/ "pending" \in st.warnings

(***************************************************************************)
(* collecting (main.go:338-348), which keeps the command line running and  *)
(* the app's "Keep the app open", does not end while a close still owes.   *)
(***************************************************************************)
THEOREM NotDoneTooEarly == Spec => []DoneMeansDone
<1>1. NothingIsLeftOut => DoneMeansDone
  BY DEF NothingIsLeftOut, DoneMeansDone, Collecting
<1> QED BY <1>1, StatusIsWhole, PTL

-----------------------------------------------------------------------------
(* Sums of amounts.                                                        *)

\* A sum of amounts is the total, whichever is added first.
LEMMA SumIsTotal ==
  ASSUME NEW D, IsFiniteSet(D), \A t \in D : Amount(t) \in Int
  PROVE  \E g : /\ IsTotal(g, D, [t \in D |-> Amount(t)])
                /\ \A A \in SUBSET D : SumOf(A) = g[A]
<1> DEFINE w == [t \in D |-> Amount(t)]
<1>1. w \in [D -> Int]
  OBVIOUS
<1>2. PICK g : IsTotal(g, D, w)
  <2> HIDE DEF w
  <2> QED BY <1>1, TotalExists
<1>3. ASSUME NEW A \in SUBSET D PROVE SumOf(A) = g[A]
  <2> DEFINE pick(s) == CHOOSE x \in s : TRUE
             sums(f) == f = [s \in SUBSET A |-> IF s = {} THEN 0 ELSE Amount(pick(s)) + f[s \ {pick(s)}]]
             f == CHOOSE x : sums(x)
  <2>1. SumOf(A) = f[A]
    BY DEF SumOf, MapThenSumSet, MapThenFoldSet
  <2>2. sums(f)
    <3> DEFINE q == [s \in SUBSET A |-> g[s]]
    <3>1. ASSUME NEW s \in SUBSET A, s # {} PROVE g[s] = Amount(pick(s)) + g[s \ {pick(s)}]
      <4>1. pick(s) \in s /\ s \in SUBSET D /\ w[pick(s)] = Amount(pick(s))
        BY <3>1
      <4> HIDE DEF w, pick
      <4> QED BY <1>2, <4>1 DEF IsTotal
    <3>2. g[{}] = 0
      BY <1>2 DEF IsTotal
    <3> HIDE DEF pick
    <3>3. sums(q)
      BY <3>1, <3>2
    <3> HIDE DEF sums, q
    <3> QED BY <3>3
  <2>3. f[{}] = 0 /\ \A u \in SUBSET A : u # {} => \E x \in u : f[u] = w[x] + f[u \ {x}]
    <3>1. ASSUME NEW u \in SUBSET A, u # {} PROVE f[u] = w[pick(u)] + f[u \ {pick(u)}] /\ pick(u) \in u
      <4>1. pick(u) \in u /\ w[pick(u)] = Amount(pick(u))
        BY <3>1
      <4>2. f[u] = Amount(pick(u)) + f[u \ {pick(u)}]
        <5> HIDE DEF f, pick
        <5> QED BY <2>2, <3>1
      <4> HIDE DEF f, w
      <4> QED BY <4>1, <4>2
    <3>2. f[{}] = 0
      <4> HIDE DEF f, pick
      <4> QED BY <2>2
    <3> HIDE DEF f, w, pick
    <3> QED BY <3>1, <3>2
  <2> HIDE DEF f, w, pick, sums
  <2>4. AddsOneByOne(f, A, w)
    BY <2>3 DEF AddsOneByOne
  <2> QED BY <1>2, <2>1, <2>4, TotalIsUnique
<1> QED BY <1>2, <1>3

\* What the proofs need of it.
LEMMA SumFacts ==
  ASSUME NEW D, IsFiniteSet(D), \A t \in D : Amount(t) \in Nat
  PROVE  /\ SumOf({}) = 0 /\ SumOf(D) \in Nat
         /\ \A t \in D : SumOf(D) = Amount(t) + SumOf(D \ {t})
         /\ \A K \in SUBSET D : SumOf(K) \in Nat /\ SumOf(D) = SumOf(D \ K) + SumOf(K)
<1> DEFINE w == [t \in D |-> Amount(t)]
<1>1. PICK g : IsTotal(g, D, w) /\ \A A \in SUBSET D : SumOf(A) = g[A]
  BY SumIsTotal
<1>2. w \in [D -> Int] /\ w \in [D -> Nat] /\ \A t \in D : w[t] = Amount(t)
  OBVIOUS
<1> HIDE DEF w
<1>3. \A A \in SUBSET D : g[A] \in Nat
  BY <1>1, <1>2, TotalOfNat
<1>4. ASSUME NEW K \in SUBSET D PROVE g[D] = g[D \ K] + g[K]
  <2>1. IsTotal(g, D, w) /\ Weighs(w, D)
    BY <1>1, <1>2 DEF Weighs
  <2>2. \A X \in SUBSET D : K \in SUBSET X => g[X] = g[X \ K] + g[K]
    BY <2>1, TotalSplits
  <2> QED BY <2>2
<1> QED BY <1>1, <1>2, <1>3, <1>4 DEF IsTotal

-----------------------------------------------------------------------------
(* What notOnItsWay leaves in.                                             *)

\* Transactions on their way that spend nothing spent and nothing twice.
MayConfirm(spent) ==
  {K \in SUBSET ToSet(sent) :
     /\ \A t \in K : Inputs(t) \cap spent = {}
     /\ \A t, u \in K : t # u => Inputs(t) \cap Inputs(u) = {}}

LEMMA KeptMayConfirm ==
  ASSUME sent \in Seq(Tx), NEW spent
  PROVE  Kept(spent) \in MayConfirm(spent)
<1> DEFINE R == MayConfirm(spent)
           D == 1..Len(sent)
           take(t, kept) == IF Inputs(t) \cap (spent \cup Spent(kept)) = {} THEN kept \cup {t} ELSE kept
           folds(f) == f = [s \in SUBSET D |-> IF s = {} THEN {} ELSE take(sent[Min(s)], f[s \ {Min(s)}])]
           f == CHOOSE x : folds(x)
<1>1. Len(sent) \in Nat /\ DOMAIN sent = D /\ \A i \in D : sent[i] \in ToSet(sent)
  BY DEF ToSet
<1>2. Kept(spent) = f[D]
  BY <1>1 DEF Kept, FoldRight, MapThenFoldSet
<1>3. {} \in R
  BY DEF MayConfirm
<1>4. ASSUME NEW i \in D, NEW K \in R PROVE take(sent[i], K) \in R
  <2>1. CASE Inputs(sent[i]) \cap (spent \cup Spent(K)) = {}
    <3>1. take(sent[i], K) = K \cup {sent[i]} /\ sent[i] \in ToSet(sent)
      BY <1>1, <2>1
    <3>2. \A t \in K : Inputs(t) \cap Inputs(sent[i]) = {}
      BY <2>1 DEF Spent
    <3> HIDE DEF take
    <3> QED BY <2>1, <3>1, <3>2 DEF MayConfirm
  <2>2. CASE Inputs(sent[i]) \cap (spent \cup Spent(K)) # {}
    BY <2>2
  <2> QED BY <2>1, <2>2
<1>5. ASSUME NEW s \in SUBSET D, s # {} PROVE Min(s) \in s
  <2>1. s \subseteq Nat
    BY <1>1
  <2> QED BY <1>5, <2>1, MinOf
<1> HIDE DEF take, R
<1>6. folds(f)
  <2> DEFINE T == [p \in D \X R |-> take(sent[p[1]], p[2])]
             ch == [s \in SUBSET D |-> Min(s)]
  <2>1. T \in [D \X R -> R]
    BY <1>4
  <2>2. \A s \in SUBSET D : s # {} => ch[s] \in s
    BY <1>5
  <2>3. PICK g : FoldsBy(g, D, R, {}, T, ch)
    <3>1. IsFiniteSet(D)
      BY <1>1, FS_Interval
    <3> HIDE DEF T, ch, D
    <3> QED BY <1>3, <2>1, <2>2, <3>1, FoldExists
  <2>4. g \in [SUBSET D -> R]
    BY <2>3 DEF FoldsBy
  <2>5. ASSUME NEW s \in SUBSET D, s # {} PROVE g[s] = take(sent[Min(s)], g[s \ {Min(s)}])
    <3>1. Min(s) \in D /\ g[s \ {Min(s)}] \in R
      BY <1>5, <2>4, <2>5
    <3>2. T[<<Min(s), g[s \ {Min(s)}]>>] = take(sent[Min(s)], g[s \ {Min(s)}])
      BY <3>1
    <3> QED BY <2>3, <2>5, <3>2 DEF FoldsBy
  <2>6. g[{}] = {}
    BY <2>3 DEF FoldsBy
  <2>7. folds(g)
    BY <2>4, <2>5, <2>6
  <2> HIDE DEF folds, T, ch
  <2> QED BY <2>7
<1>7. \A s \in SUBSET D : s \in {v \in SUBSET D : f[v] \in R}
  <2> DEFINE P == {v \in SUBSET D : f[v] \in R}
  <2>1. {} \in P
    BY <1>3, <1>6
  <2>2. ASSUME NEW s \in SUBSET D, s # {}, \A x \in s : s \ {x} \in P PROVE s \in P
    <3>1. Min(s) \in s /\ f[s \ {Min(s)}] \in R
      BY <1>5, <2>2
    <3>2. f[s] = take(sent[Min(s)], f[s \ {Min(s)}])
      <4> HIDE DEF f
      <4> QED BY <1>6, <2>2
    <3> HIDE DEF f
    <3> QED BY <1>4, <3>1, <3>2
  <2>3. \A s \in SUBSET D : s # {} /\ (\A x \in s : s \ {x} \in P) => s \in P
    BY <2>2
  <2>4. IsFiniteSet(D)
    BY <1>1, FS_Interval
  <2> HIDE DEF P, D, f
  <2>5. \A s \in SUBSET D : s \in P
    BY <2>1, <2>3, <2>4, EverySubset
  <2> QED BY <2>5 DEF P
<1>8. f[D] \in R
  <2> HIDE DEF f
  <2> QED BY <1>7
<1> QED BY <1>2, <1>8 DEF R

\* A transaction brings in what its closes pay, or less.
LEMMA AmountIs ==
  ASSUME NEW t \in Tx
  PROVE  /\ Amount(t) \in Nat /\ IsFiniteSet(t.of) /\ Cardinality(t.of) \in Nat
         /\ t.what = "lnd" => Amount(t) <= Owed * Cardinality(t.of)
         /\ t.what = "close" => Amount(t) = Owed
<1>1. t.of \subseteq Chan /\ t.n \in 0..Bumps
  BY DEF Tx
<1>2. IsFiniteSet(t.of) /\ Cardinality(t.of) \in Nat
  BY <1>1, AmountsAssumption, FS_Subset, FS_CardinalityType
<1>3. \A a, b, k \in Nat : a <= b => a * k \in Nat /\ a * k <= b * k
  OBVIOUS
<1>4. Owed - t.n \in Nat /\ Owed - t.n <= Owed /\ Owed \in Nat
  BY <1>1, AmountsAssumption
<1>5. (Owed - t.n) * Cardinality(t.of) \in Nat
      /\ (Owed - t.n) * Cardinality(t.of) <= Owed * Cardinality(t.of)
  BY <1>2, <1>3, <1>4
<1> QED BY <1>2, <1>4, <1>5 DEF Amount

\* What is on its way is finite, and so is a part of it.
LEMMA SentIsFinite ==
  ASSUME sent \in Seq(Tx)
  PROVE  ToSet(sent) \subseteq Tx /\ IsFiniteSet(ToSet(sent))
<1>1. DOMAIN sent = 1..Len(sent) /\ Len(sent) \in Nat /\ ToSet(sent) \subseteq Tx
  BY DEF ToSet
<1>2. sent \in Surjection(1..Len(sent), ToSet(sent))
  BY <1>1 DEF Surjection, ToSet
<1>3. IsFiniteSet(1..Len(sent))
  BY <1>1, FS_Interval
<1> QED BY <1>1, <1>2, <1>3, FS_Surjection

\* The unconfirmed balance, and what of it is not on its way.
LEMMA BalanceIs ==
  ASSUME sent \in Seq(Tx)
  PROVE  LET kept == Kept(Spent(mined) \cup Counted) IN
         /\ SumOf(ToSet(sent)) \in Nat /\ NotOnItsWay \in Nat /\ SumOf(kept) \in Nat
         /\ SumOf(ToSet(sent)) - NotOnItsWay = SumOf(kept)
<1> DEFINE kept == Kept(Spent(mined) \cup Counted)
           D == ToSet(sent)
<1>1. kept \in SUBSET D /\ D \ kept \in SUBSET D
  BY KeptMayConfirm DEF MayConfirm
<1>2. IsFiniteSet(D) /\ \A t \in D : Amount(t) \in Nat
  BY SentIsFinite, AmountIs
<1>3. NotOnItsWay = SumOf(D \ kept)
  BY DEF NotOnItsWay
<1> HIDE DEF kept, D
<1>4. /\ SumOf(D) \in Nat /\ SumOf(kept) \in Nat /\ SumOf(D \ kept) \in Nat
      /\ SumOf(D) = SumOf(D \ kept) + SumOf(kept)
  BY <1>1, <1>2, SumFacts
<1> QED BY <1>3, <1>4 DEF kept, D

\* What a sequence has without one of its elements.
LEMMA Removed ==
  ASSUME NEW S, NEW s \in Seq(S), NEW e
  PROVE  RemoveFirst(s, e) \in Seq(S) /\ ToSet(RemoveFirst(s, e)) \subseteq ToSet(s)
<1> DEFINE I == {i \in 1..Len(s) : s[i] = e}
           at == Min(I)
<1>1. CASE I # {}
  <2>1. Len(s) \in Nat /\ DOMAIN s = 1..Len(s) /\ \A i \in 1..Len(s) : s[i] \in ToSet(s) /\ s[i] \in S
    BY DEF ToSet
  <2>2. at \in 1..Len(s)
    <3>1. I \subseteq Nat /\ I \subseteq 1..Len(s)
      BY <2>1
    <3> HIDE DEF I
    <3> QED BY <1>1, <3>1, MinOf
  <2>3. RemoveFirst(s, e) = SubSeq(s, 1, at - 1) \o SubSeq(s, at + 1, Len(s))
    BY <1>1 DEF RemoveFirst, RemoveAt, SelectInSeq
  <2> HIDE DEF at
  <2>4. ASSUME NEW T, \A i \in 1..Len(s) : s[i] \in T
        PROVE  SubSeq(s, 1, at - 1) \o SubSeq(s, at + 1, Len(s)) \in Seq(T)
    <3>1. \A i \in 1..(at - 1) : s[i] \in T
      BY <2>1, <2>2, <2>4
    <3>2. \A i \in (at + 1)..Len(s) : s[i] \in T
      BY <2>1, <2>2, <2>4
    <3>3. 1 \in Int /\ at - 1 \in Int /\ at + 1 \in Int /\ Len(s) \in Int
      BY <2>1, <2>2
    <3>4. SubSeq(s, 1, at - 1) \in Seq(T) /\ SubSeq(s, at + 1, Len(s)) \in Seq(T)
      BY <3>1, <3>2, <3>3, SubSeqProperties
    <3> QED BY <3>4, ConcatProperties
  <2>5. \A q : q \in Seq(ToSet(s)) => ToSet(q) \subseteq ToSet(s)
    BY DEF ToSet
  <2> QED BY <2>1, <2>3, <2>4, <2>5
<1>2. CASE I = {}
  BY <1>2 DEF RemoveFirst
<1> QED BY <1>1, <1>2

-----------------------------------------------------------------------------
(* Types.                                                                  *)

LEMMA WorldKeepsType ==
  ASSUME IInv, TypeOK, World
  PROVE  TypeOK'
<1> DEFINE Keeps == mined' \subseteq Tx /\ sent' \in Seq(Tx) /\ Moves
                    /\ close' \in [Chan -> {"no", "sent", "mined"}]
                    /\ lnd' \in [Chan -> {"open", "waiting", "force", "closed"}]
<1> USE DEF TypeOK
<1>1. ASSUME Keeps PROVE TypeOK'
  BY <1>1 DEF Moves, status
<1>2. 0 \in 0..Bumps /\ Bumps \in Nat
  BY AmountsAssumption
<1>3. \A c \in Chan : CloseTx(c) \in Tx /\ PhoneTx(c) \in Tx /\ AnchorTx(c) \in Tx
  BY <1>2 DEF CloseTx, PhoneTx, AnchorTx, Tx
<1>4. ASSUME NEW c \in Chan, CloseSent(c) PROVE Keeps
  <2>1. sent' \in Seq(Tx)
    BY <1>3, <1>4 DEF CloseSent
  <2> QED BY <1>4, <2>1 DEF CloseSent
<1>5. ASSUME NEW c \in Chan, CloseMined(c) PROVE Keeps
  <2>1. sent' \in Seq(Tx) /\ mined' \subseteq Tx
    BY <1>3, <1>5, Removed DEF CloseMined
  <2> QED BY <1>5, <2>1 DEF CloseMined
<1>6. ASSUME NEW c \in Chan, LndNoticesClose(c) \/ LndResolves(c) PROVE Keeps
  BY <1>6 DEF LndNoticesClose, LndResolves
<1>7. ASSUME NEW c \in Chan, PhoneSpends(c) PROVE Keeps
  BY <1>3, <1>7 DEF PhoneSpends
<1>8. ASSUME NEW B \in SUBSET Chan, LndSweeps(B) PROVE Keeps
  <2> DEFINE S == {0} \cup {t.n : t \in ToSet(sent) \cup mined}
  <2>1. S \subseteq 0..Bumps /\ S # {}
    <3>1. \A t \in ToSet(sent) \cup mined : t.n \in 0..Bumps
      BY SentIsFinite DEF Tx
    <3> QED BY <1>2, <3>1
  <2>2. Max(S) \in S
    <3> HIDE DEF S
    <3> QED BY <1>2, <2>1, MaxUpTo
  <2>3. NextSweep \in Nat /\ NextSweep <= Bumps
    <3>1. NextSweep = Max(S) + 1 /\ NextSweep <= Bumps
      BY <1>8 DEF LndSweeps, NextSweep
    <3>2. Max(S) \in 0..Bumps
      BY <2>1, <2>2
    <3> HIDE DEF S
    <3> QED BY <1>2, <3>1, <3>2
  <2>4. LndTx(B, NextSweep) \in Tx
    BY <1>2, <2>3 DEF LndTx, Tx
  <2>5. sent' \in Seq(Tx)
    BY <1>8, <2>4 DEF LndSweeps
  <2> QED BY <1>8, <2>5 DEF LndSweeps
<1>9. ASSUME NEW t \in ToSet(sent), SweepMined(t) PROVE Keeps
  <2>1. sent' \in Seq(Tx) /\ mined' \subseteq Tx
    BY <1>9, Removed, SentIsFinite DEF SweepMined
  <2> QED BY <1>9, <2>1 DEF SweepMined
<1> QED BY <1>1, <1>4, <1>5, <1>6, <1>7, <1>8, <1>9 DEF World

\* The answers, one by one.
AnswerType ==
  /\ rd.open \subseteq Chan /\ rd.waiting \subseteq Chan /\ rd.force \subseteq Chan /\ rd.paid \subseteq Chan
  /\ rd.unconf \in Nat /\ rd.warnings \subseteq {"txs", "pending"}

LEMMA AnswersByField ==
  AnswerType <=> /\ \A f \in {"open", "waiting", "force", "paid"} : rd[f] \subseteq Chan
                 /\ rd.unconf \in Nat /\ rd.warnings \subseteq {"txs", "pending"}
BY DEF AnswerType

LEMMA StatusKeepsType ==
  ASSUME IInv, TypeOK, ReadBalance \/ ReadTxs \/ ReadOpen \/ ReadPending \/ ReadSwept \/ StatusFails
  PROVE  TypeOK'
<1>1. UNCHANGED <<world, walked, checks>>
  BY DEF ReadBalance, ReadTxs, ReadOpen, ReadPending, ReadSwept, StatusFails, Answer
<1>2. AnswerType
  BY AnswersByField DEF TypeOK
<1>3. SUFFICES /\ pc' \in {"idle", "txs", "open", "pending", "swept"} /\ AnswerType'
               /\ st' \in Status \cup {None} /\ moved' \in BOOLEAN
  <2>1. AnswerType' => /\ \A f \in {"open", "waiting", "force", "paid"} : rd'[f] \subseteq Chan
                       /\ rd'.unconf \in Nat /\ rd'.warnings \subseteq {"txs", "pending"}
    BY DEF AnswerType
  <2> QED BY <1>1, <2>1 DEF TypeOK, world
<1>4. st \in Status \cup {None} /\ moved \in BOOLEAN /\ checks.collect \subseteq Chan
  BY DEF TypeOK
<1>5. DOMAIN rd = {"unconf", "open", "waiting", "force", "paid", "warnings"}
  BY DEF IInv, AnswerInv, NothingRead
<1>6. SumOf(ToSet(sent)) \in Nat /\ NotOnItsWay \in Nat
  BY BalanceIs DEF TypeOK
<1>7. rd' = NothingRead => AnswerType'
  BY DEF NothingRead, AnswerType
<1>8. CASE ReadBalance
  <2>1. /\ rd'.unconf = SumOf(ToSet(sent)) /\ rd'.open = {} /\ rd'.waiting = {} /\ rd'.force = {}
        /\ rd'.paid = {} /\ rd'.warnings = {}
    BY <1>8 DEF ReadBalance, NothingRead
  <2> QED BY <1>6, <1>8, <2>1 DEF ReadBalance, Answer, AnswerType
<1>9. CASE ReadTxs
  <2>1. rd.unconf - NotOnItsWay \in Int
    BY <1>2, <1>6 DEF AnswerType
  <2> DEFINE Read == /\ rd'.open = rd.open /\ rd'.waiting = rd.waiting /\ rd'.force = rd.force
                     /\ rd'.paid \subseteq Chan /\ rd'.unconf \in Nat
                     /\ rd'.warnings \subseteq {"txs", "pending"}
  <2>2. Read
    <3>1. CASE rd' = [rd EXCEPT !.warnings = @ \cup {"txs"}]
      BY <1>2, <1>5, <3>1 DEF AnswerType
    <3>2. ASSUME NEW u \in Nat,
                 rd' = [rd EXCEPT !.unconf = u, !.paid = {c \in Chan : CloseTx(c) \in mined}]
          PROVE  Read
      BY <1>2, <1>5, <3>2 DEF AnswerType
    <3> HIDE DEF Read
    <3>3. CASE \E u \in Nat : rd' = [rd EXCEPT !.unconf = u, !.paid = {c \in Chan : CloseTx(c) \in mined}]
      BY <3>2, <3>3
    <3> DEFINE new == rd.unconf - NotOnItsWay
               u == IF new < 0 THEN 0 ELSE new
    <3>4. u \in Nat
      BY <2>1
    <3>5. CASE rd' = [rd EXCEPT !.unconf = u, !.paid = {c \in Chan : CloseTx(c) \in mined}]
      <4> HIDE DEF u
      <4> QED BY <3>3, <3>4, <3>5
    <3>6. \/ rd' = [rd EXCEPT !.unconf = u, !.paid = {c \in Chan : CloseTx(c) \in mined}]
          \/ rd' = [rd EXCEPT !.warnings = @ \cup {"txs"}]
      BY <1>9 DEF ReadTxs
    <3> HIDE DEF u
    <3> QED BY <3>1, <3>5, <3>6
  <2> QED BY <1>2, <1>4, <1>9, <2>2 DEF ReadTxs, Answer, AnswerType
<1>10. CASE ReadOpen
  <2>1. /\ rd'.open \subseteq Chan /\ rd'.waiting = rd.waiting /\ rd'.force = rd.force
        /\ rd'.paid = rd.paid /\ rd'.unconf = rd.unconf /\ rd'.warnings = rd.warnings
    BY <1>5, <1>10 DEF ReadOpen
  <2> QED BY <1>2, <1>4, <1>10, <2>1 DEF ReadOpen, Answer, AnswerType
<1>11. CASE ReadPending
  <2>1. /\ rd'.open = rd.open /\ rd'.paid = rd.paid /\ rd'.unconf = rd.unconf
        /\ rd'.waiting \subseteq Chan /\ rd'.force \subseteq Chan /\ rd'.warnings \subseteq {"txs", "pending"}
    <3>1. CASE rd' = [rd EXCEPT !.warnings = @ \cup {"pending"}]
      BY <1>2, <1>5, <3>1 DEF AnswerType
    <3>2. CASE rd' = [rd EXCEPT !.waiting = {c \in Chan : lnd[c] = "waiting"},
                                !.force = {c \in Chan : lnd[c] = "force"}]
      BY <1>2, <1>5, <3>2 DEF AnswerType
    <3> QED BY <1>11, <3>1, <3>2 DEF ReadPending
  <2> QED BY <1>2, <1>4, <1>11, <2>1 DEF ReadPending, Answer, AnswerType
<1>12. CASE ReadSwept
  <2>1. ASSUME NEW swept, NEW warnings, warnings \subseteq {"txs", "pending", "swept"}
        PROVE  Assemble(swept, warnings) \in Status
    BY <1>2, <1>4, <2>1 DEF Assemble, Status, AnswerType
  <2>2. st' \in Status
    <3>1. rd.warnings \subseteq {"txs", "pending"}
      BY <1>2 DEF AnswerType
    <3> QED BY <1>12, <2>1, <3>1 DEF ReadSwept
  <2> QED BY <1>4, <1>7, <1>12, <2>2 DEF ReadSwept, Answer, AnswerType
<1>13. CASE StatusFails
  BY <1>4, <1>7, <1>13 DEF StatusFails, Answer, AnswerType
<1> QED BY <1>8, <1>9, <1>10, <1>11, <1>12, <1>13

LEMMA TypeStep == ASSUME IInv, TypeOK, [Next]_vars PROVE TypeOK'
<1>1. CASE Check
  <2>1. \A W : /\ OnChain(W).done = TRUE /\ OnChain(W).verdict \in [Chan -> {"none", "open", "spent"}]
               /\ W \subseteq Chan => OnChain(W).collect \subseteq Chan
    BY DEF OnChain
  <2>2. walked' \subseteq Chan
    BY <1>1 DEF Check, TypeOK
  <2> QED BY <1>1, <2>1, <2>2 DEF Check, TypeOK, world, status
<1>2. CASE Restart
  <2>1. /\ NotChecked.done = FALSE /\ NotChecked.verdict \in [Chan -> {"none", "open", "spent"}]
        /\ NotChecked.collect = {}
    BY DEF NotChecked
  <2>2. AnswerType'
    BY <1>2 DEF Restart, NothingRead, AnswerType
  <2>3. \A f \in {"open", "waiting", "force", "paid"} : rd'[f] \subseteq Chan
    BY <2>2 DEF AnswerType
  <2> QED BY <1>2, <2>1, <2>2, <2>3 DEF Restart, TypeOK, world, AnswerType
<1>3. CASE UNCHANGED vars
  BY <1>3 DEF TypeOK, vars, world, status
<1> QED BY <1>1, <1>2, <1>3, WorldKeepsType, StatusKeepsType DEF Next, App

LEMMA TypeInit == Init => TypeOK
<1> SUFFICES ASSUME Init PROVE TypeOK
  OBVIOUS
<1>1. sent \in Seq(Tx)
  BY DEF Init
<1>2. AnswerType
  BY DEF Init, NothingRead, AnswerType
<1>3. NotChecked.done = FALSE /\ NotChecked.verdict \in [Chan -> {"none", "open", "spent"}]
      /\ NotChecked.collect = {}
  BY DEF NotChecked
<1> QED BY <1>1, <1>2, <1>3, AnswersByField DEF Init, TypeOK

-----------------------------------------------------------------------------
(* The wallet's transactions.                                              *)

ClosesGoOn ==
  \A c \in Chan : /\ lnd[c] = "force" => close[c] = "mined"
                  /\ CloseTx(c) \in mined => close[c] = "mined"
                  /\ CloseTx(c) \in ToSet(sent) => lnd[c] # "open"

PayingOut ==
  {t \in Tx :
     /\ t.what = "close" => \E c \in Chan : t = CloseTx(c) /\ kind[c] = "coop"
     /\ t.what \in {"lnd", "phone"} => \A c \in t.of : kind[c] # "coop" /\ close[c] = "mined"
     /\ t.what = "lnd" => \A c \in t.of : lnd[c] \in {"force", "closed"}}

WalletInv ==
  /\ ClosesGoOn
  /\ mined \cup ToSet(sent) \subseteq PayingOut
  /\ \A t \in ToSet(sent) : t.what \in {"close", "lnd"}

LEMMA WalletInit == Init => WalletInv
<1> SUFFICES ASSUME Init PROVE WalletInv
  OBVIOUS
<1>1. ToSet(sent) = {} /\ mined = {}
  BY DEF Init, ToSet
<1> QED BY <1>1 DEF Init, WalletInv, ClosesGoOn

LEMMA TxShapes ==
  \A c \in Chan : /\ CloseTx(c).what = "close" /\ CloseTx(c).of = {c}
                  /\ PhoneTx(c).what = "phone" /\ PhoneTx(c).of = {c} /\ AnchorTx(c).what = "anchor"
                  /\ \A d \in Chan : CloseTx(d) = CloseTx(c) => d = c
BY DEF CloseTx, PhoneTx, AnchorTx

LEMMA WalletStep ==
  ASSUME IInv, TypeOK, TypeOK', WalletInv, [Next]_vars
  PROVE  WalletInv'
<1> DEFINE Onward == /\ kind' = kind
                     /\ \A c \in Chan : /\ close[c] = "mined" => close'[c] = "mined"
                                        /\ lnd[c] # "open" => lnd'[c] # "open"
                                        /\ lnd[c] \in {"force", "closed"} => lnd'[c] \in {"force", "closed"}
                                        /\ lnd'[c] = "force" => close'[c] = "mined"
<1>1. CASE UNCHANGED world
  <2>1. ClosesGoOn'
    BY <1>1 DEF world, WalletInv, ClosesGoOn
  <2>2. PayingOut' = PayingOut
    BY <1>1 DEF world, PayingOut
  <2> QED BY <1>1, <2>1, <2>2 DEF world, WalletInv
<1>2. ASSUME Onward, NEW N,
             mined' \cup ToSet(sent') \subseteq mined \cup ToSet(sent) \cup N,
             \A t \in ToSet(sent') : t \in ToSet(sent) \/ t.what \in {"close", "lnd"},
             N \subseteq PayingOut',
             \A c \in Chan : CloseTx(c) \in mined' => CloseTx(c) \in mined \/ close'[c] = "mined",
             \A c \in Chan : CloseTx(c) \in ToSet(sent') => CloseTx(c) \in ToSet(sent) \/ lnd'[c] # "open"
      PROVE  WalletInv'
  <2>1. ClosesGoOn'
    BY <1>2 DEF WalletInv, ClosesGoOn
  <2>2. ASSUME NEW t \in mined' \cup ToSet(sent') PROVE t \in PayingOut'
    <3>1. CASE t \in N
      BY <1>2, <3>1
    <3>2. CASE t \in mined \cup ToSet(sent)
      <4>1. t \in PayingOut /\ t \in Tx /\ t.of \subseteq Chan
        BY <3>2 DEF WalletInv, PayingOut, Tx
      <4> QED BY <1>2, <4>1 DEF PayingOut
    <3> QED BY <1>2, <3>1, <3>2
  <2>3. \A t \in ToSet(sent') : t.what \in {"close", "lnd"}
    BY <1>2 DEF WalletInv
  <2> QED BY <2>1, <2>2, <2>3 DEF WalletInv
<1>3. ASSUME Onward, mined' \subseteq mined \cup ToSet(sent), ToSet(sent') \subseteq ToSet(sent),
             \A c \in Chan : CloseTx(c) \in mined' => CloseTx(c) \in mined \/ close'[c] = "mined"
      PROVE  WalletInv'
  <2> HIDE DEF Onward
  <2> QED BY <1>2, <1>3
<1>4. ASSUME NEW c \in Chan, CloseSent(c) PROVE WalletInv'
  <2>1. Onward /\ mined' = mined
    BY <1>4 DEF CloseSent, Moves, TypeOK, WalletInv, ClosesGoOn
  <2>2. CASE kind[c] = "coop"
    <3>1. sent' = Append(sent, CloseTx(c)) /\ lnd'[c] # "open"
      BY <1>4, <2>2 DEF CloseSent, TypeOK
    <3>2. CloseTx(c) \in Tx
      BY AmountsAssumption DEF CloseTx, Tx
    <3>3. ToSet(sent') = ToSet(sent) \cup {CloseTx(c)}
      BY <3>1, <3>2, Appended DEF TypeOK
    <3>4. CloseTx(c) \in PayingOut'
      <4>1. CloseTx(c).what = "close" /\ kind'[c] = "coop" /\ CloseTx(c) \in Tx
        BY <2>1, <2>2, TxShapes, AmountsAssumption DEF CloseTx, Tx
      <4> QED BY <4>1 DEF PayingOut
    <3>5. \A d \in Chan : CloseTx(d) \in ToSet(sent') => CloseTx(d) \in ToSet(sent) \/ lnd'[d] # "open"
      BY <3>1, <3>3, TxShapes
    <3>6. CloseTx(c).what = "close"
      BY TxShapes
    <3> HIDE DEF Onward
    <3> QED BY <1>2, <2>1, <3>3, <3>4, <3>5, <3>6
  <2>3. CASE kind[c] # "coop"
    BY <1>3, <1>4, <2>1, <2>3 DEF CloseSent
  <2> QED BY <2>2, <2>3
<1>5. ASSUME NEW c \in Chan, CloseMined(c) PROVE WalletInv'
  <2>1. Onward /\ close'[c] = "mined"
    BY <1>5 DEF CloseMined, Moves, TypeOK, WalletInv, ClosesGoOn
  <2>2. CASE kind[c] = "coop"
    <3>1. mined' = mined \cup {CloseTx(c)} /\ ToSet(sent') \subseteq ToSet(sent)
      BY <1>5, <2>2, Removed DEF CloseMined, TypeOK
    <3>2. CloseTx(c) \in PayingOut'
      <4>1. CloseTx(c).what = "close" /\ kind'[c] = "coop" /\ CloseTx(c) \in Tx
        BY <2>1, <2>2, TxShapes, AmountsAssumption DEF CloseTx, Tx
      <4> QED BY <4>1 DEF PayingOut
    <3>3. \A d \in Chan : CloseTx(d) \in mined' => CloseTx(d) \in mined \/ close'[d] = "mined"
      BY <2>1, <3>1, TxShapes
    <3> HIDE DEF Onward
    <3> QED BY <1>2, <2>1, <3>1, <3>2, <3>3
  <2>3. CASE kind[c] # "coop"
    BY <1>3, <1>5, <2>1, <2>3 DEF CloseMined
  <2> QED BY <2>2, <2>3
<1>6. ASSUME NEW c \in Chan, LndNoticesClose(c) \/ LndResolves(c) PROVE WalletInv'
  <2>1. Onward /\ mined' = mined /\ sent' = sent
    BY <1>6 DEF LndNoticesClose, LndResolves, Moves, TypeOK, WalletInv, ClosesGoOn
  <2> QED BY <1>3, <2>1
<1>7. ASSUME NEW c \in Chan, PhoneSpends(c) PROVE WalletInv'
  <2>1. PICK t \in {PhoneTx(c), AnchorTx(c)} : mined' = mined \cup {t}
    BY <1>7 DEF PhoneSpends
  <2>2. Onward /\ sent' = sent /\ kind[c] # "coop" /\ close[c] = "mined"
    BY <1>7 DEF PhoneSpends, Moves, WalletInv, ClosesGoOn
  <2>3. \/ t.what = "phone" /\ t.of = {c}
        \/ t.what = "anchor"
    BY <2>1, TxShapes
  <2>4. t \in PayingOut'
    <3>1. t \in Tx
      BY <2>1 DEF TypeOK
    <3> QED BY <2>2, <2>3, <3>1 DEF PayingOut
  <2>5. \A d \in Chan : CloseTx(d) # t
    BY <2>3, TxShapes
  <2> HIDE DEF Onward
  <2> QED BY <1>2, <2>1, <2>2, <2>4, <2>5
<1>8. ASSUME NEW B \in SUBSET Chan, LndSweeps(B) PROVE WalletInv'
  <2> DEFINE t == LndTx(B, NextSweep)
  <2>1. Onward /\ mined' = mined /\ sent' = Append(sent, t) /\ \A c \in B : lnd[c] = "force"
    BY <1>8 DEF LndSweeps, Moves, WalletInv, ClosesGoOn
  <2>2. t.what = "lnd" /\ t.of = B
    BY DEF LndTx
  <2>3. \A c \in B : kind[c] # "coop" /\ close[c] = "mined"
    BY <2>1 DEF WalletInv, ClosesGoOn, IInv, WorldInv
  <2>4. t \in Tx
    <3>1. t = sent'[Len(sent')] /\ Len(sent') \in DOMAIN sent'
      BY <2>1, AppendProperties DEF TypeOK
    <3> QED BY <3>1, SentIsFinite, AppendProperties DEF TypeOK
  <2> HIDE DEF t
  <2>5. ToSet(sent') = ToSet(sent) \cup {t}
    BY <2>1, <2>4, Appended DEF TypeOK
  <2>6. \A c \in Chan : CloseTx(c) # t
    BY <2>2, TxShapes
  <2>7. t \in PayingOut'
    BY <2>1, <2>2, <2>3, <2>4 DEF PayingOut
  <2> HIDE DEF Onward
  <2> QED BY <1>2, <2>1, <2>2, <2>5, <2>6, <2>7
<1>9. ASSUME NEW t \in ToSet(sent), SweepMined(t) PROVE WalletInv'
  <2>1. Onward /\ mined' = mined \cup {t} /\ t.what = "lnd" /\ ToSet(sent') \subseteq ToSet(sent)
    BY <1>9, Removed DEF SweepMined, Moves, TypeOK, WalletInv, ClosesGoOn
  <2>2. \A c \in Chan : CloseTx(c) # t
    BY <2>1, TxShapes
  <2> HIDE DEF Onward
  <2> QED BY <1>3, <2>1, <2>2
<1> QED BY <1>1, <1>4, <1>5, <1>6, <1>7, <1>8, <1>9
    DEF Next, World, App, Check, ReadBalance, ReadTxs, ReadOpen, ReadPending, ReadSwept,
        StatusFails, Restart, Answer, vars
-----------------------------------------------------------------------------
(* What transactions on their way bring in.                                *)

Pays(K) == UNION {t.of : t \in K}

\* Transactions that can confirm together pay out no close twice.
LEMMA PaysNoneTwice ==
  ASSUME TypeOK, WalletInv, NEW spent, NEW K \in MayConfirm(spent), NEW t \in K, NEW u \in K, t # u
  PROVE  t.of \cap u.of = {}
<1>1. Inputs(t) \cap Inputs(u) = {} /\ t \in ToSet(sent) /\ u \in ToSet(sent)
  BY DEF MayConfirm
<1>2. /\ t.what \in {"close", "lnd"} /\ u.what \in {"close", "lnd"}
      /\ t \in PayingOut /\ u \in PayingOut
  BY <1>1 DEF WalletInv
<1>3. SUFFICES ASSUME NEW c \in t.of \cap u.of PROVE FALSE
  OBVIOUS
<1>4. ASSUME NEW v \in PayingOut, v.what \in {"close", "lnd"}, c \in v.of
      PROVE  /\ v.what = "close" => v = CloseTx(c) /\ kind[c] = "coop"
             /\ v.what = "lnd" => kind[c] # "coop" /\ <<"pay", c>> \in Inputs(v)
  <2>1. v.what = "lnd" => Inputs(v) = {<<"pay", d>> : d \in v.of}
    BY DEF Inputs
  <2>2. ASSUME NEW d \in Chan, v = CloseTx(d) PROVE d = c
    BY <1>4, <2>2, TxShapes
  <2> QED BY <1>4, <2>1, <2>2 DEF PayingOut
<1> QED BY <1>1, <1>2, <1>3, <1>4

LEMMA PaysAtMost ==
  ASSUME TypeOK, WalletInv, NEW spent, NEW K \in MayConfirm(spent)
  PROVE  /\ Pays(K) \subseteq Chan /\ SumOf(K) \in Nat
         /\ SumOf(K) <= Owed * Cardinality(Pays(K))
<1>1. K \subseteq ToSet(sent) /\ K \subseteq Tx /\ IsFiniteSet(K)
  BY SentIsFinite, FS_Subset DEF MayConfirm, TypeOK
<1>2. \A u \in SUBSET K : /\ Pays(u) \subseteq Chan /\ IsFiniteSet(Pays(u)) /\ IsFiniteSet(u)
                          /\ Cardinality(Pays(u)) \in Nat
  <2>1. \A u \in SUBSET K : Pays(u) \subseteq Chan
    BY <1>1 DEF Pays, Tx
  <2> QED BY <1>1, <2>1, AmountsAssumption, FS_Subset, FS_CardinalityType
<1>3. \A t \in K : Amount(t) \in Nat
  BY <1>1, AmountIs
<1>4. ASSUME NEW t \in K
      PROVE  /\ IsFiniteSet(t.of) /\ Cardinality(t.of) \in Nat
             /\ Amount(t) <= Owed * Cardinality(t.of)
  <2>1. t \in Tx /\ t \in PayingOut /\ t.what \in {"close", "lnd"}
    BY <1>1 DEF WalletInv
  <2>2. CASE t.what = "close"
    <3>1. PICK c \in Chan : t = CloseTx(c)
      BY <2>1, <2>2 DEF PayingOut
    <3>2. t.of = {c} /\ Cardinality({c}) = 1
      BY <3>1, TxShapes, FS_Singleton
    <3>3. Cardinality(t.of) = 1
      BY <3>2, Zenon
    <3>4. Amount(t) = Owed /\ IsFiniteSet(t.of)
      BY <2>1, <2>2, AmountIs
    <3> QED BY <3>3, <3>4, AmountsAssumption
  <2> QED BY <2>1, <2>2, AmountIs
<1> DEFINE P == {u \in SUBSET K : SumOf(u) \in Nat /\ SumOf(u) <= Owed * Cardinality(Pays(u))}
<1>5. {} \in P
  <2>1. Pays({}) = {} /\ Cardinality({}) = 0
    BY FS_EmptySet DEF Pays
  <2>2. SumOf({}) = 0
    BY <1>1, <1>3, SumFacts
  <2> QED BY <2>1, <2>2, AmountsAssumption
<1>6. ASSUME NEW u \in SUBSET K, u # {}, \A x \in u : u \ {x} \in P PROVE u \in P
  <2>1. PICK t \in u : TRUE
    BY <1>6
  <2> DEFINE rest == u \ {t}
  <2>2. /\ SumOf(u) \in Nat /\ SumOf(u) = Amount(t) + SumOf(rest)
        /\ SumOf(rest) \in Nat /\ SumOf(rest) <= Owed * Cardinality(Pays(rest))
    <3>1. IsFiniteSet(u) /\ \A x \in u : Amount(x) \in Nat
      BY <1>2, <1>3
    <3>2. SumOf(u) \in Nat /\ SumOf(u) = Amount(t) + SumOf(u \ {t})
      BY <3>1, SumFacts
    <3> QED BY <1>6, <3>2
  <2>3. Pays(u) = Pays(rest) \cup t.of
    BY DEF Pays
  <2>4. Pays(rest) \cap t.of = {}
    BY PaysNoneTwice DEF Pays
  <2>5. /\ IsFiniteSet(Pays(rest)) /\ IsFiniteSet(t.of)
        /\ Cardinality(Pays(rest)) \in Nat /\ Cardinality(t.of) \in Nat
        /\ Amount(t) \in Nat /\ Amount(t) <= Owed * Cardinality(t.of)
    BY <1>2, <1>3, <1>4
  <2>6. Cardinality(Pays(u)) = Cardinality(Pays(rest)) + Cardinality(t.of)
    <3>1. Cardinality({}) = 0
      BY FS_EmptySet
    <3> HIDE DEF rest
    <3> QED BY <2>3, <2>4, <2>5, <3>1, FS_Union
  <2>7. \A a, b, x, y \in Nat : a <= Owed * x /\ b <= Owed * y => a + b <= Owed * (y + x)
    BY AmountsAssumption
  <2> HIDE DEF rest
  <2> QED BY <2>2, <2>5, <2>6, <2>7
<1>7. \A u \in SUBSET K : u # {} /\ (\A x \in u : u \ {x} \in P) => u \in P
  BY <1>6
<1>8. \A u \in SUBSET K : u \in P
  <2> HIDE DEF P
  <2> QED BY <1>1, <1>5, <1>7, EverySubset
<1> QED BY <1>2, <1>8

-----------------------------------------------------------------------------
(* The answers of one moment.                                              *)

FreshInv ==
  ~moved =>
    /\ pc = "txs" => rd.unconf = SumOf(ToSet(sent))
    /\ pc \in {"open", "pending", "swept"} /\ "txs" \notin rd.warnings =>
         /\ rd.paid = {c \in Chan : CloseTx(c) \in mined}
         /\ \E K \in MayConfirm(Spent(mined) \cup Counted) : rd.unconf = SumOf(K)
    /\ pc \in {"pending", "swept"} => rd.open = {c \in Chan : lnd[c] = "open"}
    /\ pc = "swept" /\ "pending" \notin rd.warnings =>
         /\ rd.waiting = {c \in Chan : lnd[c] = "waiting"}
         /\ rd.force = {c \in Chan : lnd[c] = "force"}

LEMMA FreshStep ==
  ASSUME IInv, TypeOK, FreshInv, [Next]_vars
  PROVE  FreshInv'
<1>1. CASE pc' = "idle"
  BY <1>1 DEF FreshInv
<1>2. CASE World
  <2>1. moved' = (pc # "idle") /\ pc' = pc
    BY <1>2 DEF World, CloseSent, CloseMined, LndNoticesClose, PhoneSpends, LndResolves, LndSweeps,
                SweepMined, Moves, status
  <2> QED BY <1>1, <2>1 DEF FreshInv
<1>3. CASE UNCHANGED vars
  BY <1>3 DEF vars, world, status, FreshInv, MayConfirm, Counted
<1> SUFFICES ASSUME ReadBalance \/ ReadTxs \/ ReadOpen \/ ReadPending PROVE FreshInv'
  BY <1>1, <1>2, <1>3 DEF Next, App, Check, ReadSwept, StatusFails, Restart, Answer, status
<1>4. UNCHANGED <<kind, close, lnd, mined, sent, checks>>
  BY DEF ReadBalance, ReadTxs, ReadOpen, ReadPending, Answer, world
<1>5. DOMAIN rd = {"unconf", "open", "waiting", "force", "paid", "warnings"}
  BY DEF IInv, AnswerInv, NothingRead
<1> DEFINE Can == MayConfirm(Spent(mined) \cup Counted)
<1>6. Can' = Can
  BY <1>4 DEF MayConfirm, Counted
<1>7. CASE ReadBalance
  BY <1>4, <1>7 DEF ReadBalance, Answer, NothingRead, FreshInv
<1>8. CASE ReadTxs
  <2>1. CASE rd' = [rd EXCEPT !.warnings = @ \cup {"txs"}]
    <3>1. "txs" \in rd'.warnings
      BY <1>5, <2>1
    <3> QED BY <1>8, <3>1 DEF ReadTxs, Answer, FreshInv
  <2>2. CASE "txs" \notin rd'.warnings /\ ~moved
    <3> DEFINE K == Kept(Spent(mined) \cup Counted)
               new == rd.unconf - NotOnItsWay
    <3>1. rd.unconf = SumOf(ToSet(sent))
      BY <1>8, <2>2 DEF ReadTxs, Answer, FreshInv
    <3>2. K \in Can /\ SumOf(K) \in Nat /\ new = SumOf(K)
      BY <3>1, BalanceIs, KeptMayConfirm DEF TypeOK
    <3>3. rd' = [rd EXCEPT !.unconf = IF new < 0 THEN 0 ELSE new,
                           !.paid = {c \in Chan : CloseTx(c) \in mined}]
      BY <1>5, <1>8, <2>2 DEF ReadTxs
    <3>4. ~(SumOf(K) < 0)
      BY <3>2
    <3> HIDE DEF K
    <3>5. rd' = [rd EXCEPT !.unconf = SumOf(K), !.paid = {c \in Chan : CloseTx(c) \in mined}]
      BY <3>2, <3>3, <3>4
    <3>6. rd'.unconf = SumOf(K) /\ rd'.paid = {c \in Chan : CloseTx(c) \in mined}
      BY <1>5, <3>5
    <3>7. pc' = "open" /\ \E k \in Can' : rd'.unconf = SumOf(k)
      <4> HIDE DEF Can
      <4> QED BY <1>6, <1>8, <3>2, <3>6 DEF ReadTxs, Answer
    <3> QED BY <1>4, <3>6, <3>7 DEF FreshInv
  <2>3. moved' = moved /\ pc' = "open"
    BY <1>8 DEF ReadTxs, Answer
  <2> QED BY <2>2, <2>3 DEF FreshInv
<1> DEFINE Same == ~moved /\ "txs" \notin rd.warnings =>
                     /\ rd.paid = {c \in Chan : CloseTx(c) \in mined}
                     /\ \E K \in Can : rd.unconf = SumOf(K)
<1>9. CASE ReadOpen
  <2>1. /\ rd'.unconf = rd.unconf /\ rd'.paid = rd.paid /\ rd'.warnings = rd.warnings
        /\ rd'.open = {c \in Chan : lnd[c] = "open"}
    BY <1>5, <1>9 DEF ReadOpen
  <2>2. pc = "open" /\ pc' = "pending" /\ moved' = moved
    BY <1>9 DEF ReadOpen, Answer
  <2>3. Same
    BY <2>2 DEF FreshInv
  <2>4. Same'
    <3> HIDE DEF Can
    <3> QED BY <1>4, <1>6, <2>1, <2>2, <2>3
  <2> QED BY <1>4, <2>1, <2>2, <2>4 DEF FreshInv
<1>10. CASE ReadPending
  <2>1. /\ rd'.unconf = rd.unconf /\ rd'.paid = rd.paid /\ rd'.open = rd.open
        /\ "txs" \in rd'.warnings <=> "txs" \in rd.warnings
        /\ "pending" \notin rd'.warnings => /\ rd'.waiting = {c \in Chan : lnd[c] = "waiting"}
                                            /\ rd'.force = {c \in Chan : lnd[c] = "force"}
    <3>1. CASE rd' = [rd EXCEPT !.warnings = @ \cup {"pending"}]
      BY <1>5, <3>1
    <3>2. CASE rd' = [rd EXCEPT !.waiting = {c \in Chan : lnd[c] = "waiting"},
                                !.force = {c \in Chan : lnd[c] = "force"}]
      BY <1>5, <3>2
    <3> QED BY <1>10, <3>1, <3>2 DEF ReadPending
  <2>2. pc = "pending" /\ pc' = "swept" /\ moved' = moved
    BY <1>10 DEF ReadPending, Answer
  <2>3. Same /\ (~moved => rd.open = {c \in Chan : lnd[c] = "open"})
    BY <2>2 DEF FreshInv
  <2>4. Same'
    <3> HIDE DEF Can
    <3> QED BY <1>4, <1>6, <2>1, <2>2, <2>3
  <2> QED BY <1>4, <2>1, <2>2, <2>3, <2>4 DEF FreshInv
<1> QED BY <1>7, <1>8, <1>9, <1>10
-----------------------------------------------------------------------------
(* The figures of a Status add up.                                         *)

\* Confirmed money of a close is a mined transaction of that close.
LEMMA HomeIsMined ==
  ASSUME TypeOK, WalletInv, NEW c \in Chan, Home(c)
  PROVE  close[c] = "mined"
<1>1. CASE kind[c] = "coop"
  BY <1>1 DEF Home, WalletInv, ClosesGoOn
<1>2. CASE kind[c] # "coop"
  <2>1. PICK t \in mined : <<"pay", c>> \in Inputs(t)
    BY <1>2 DEF Home, Spent
  <2>2. t \in Tx /\ t \in PayingOut
    BY DEF WalletInv, TypeOK
  <2>3. t.what \in {"lnd", "phone"} /\ c \in t.of
    BY <2>1, <2>2 DEF Inputs, Tx
  <2> QED BY <2>2, <2>3 DEF PayingOut
<1> QED BY <1>1, <1>2

\* What is on its way pays out closes that lnd tells of and nobody else.
LEMMA OnItsWayIsListed ==
  ASSUME TypeOK, WalletInv, NEW K \in MayConfirm(Spent(mined) \cup Counted), NEW c \in Pays(K)
  PROVE  /\ c \in Chan /\ ~Home(c) /\ lnd[c] # "open"
         /\ c \in checks.collect => kind[c] = "coop"
         /\ \E t \in ToSet(sent) : {<<"pay", c>>, <<"fund", c>>} \cap Inputs(t) # {}
<1>1. PICK t \in K : c \in t.of
  BY DEF Pays
<1>2. t \in ToSet(sent) /\ Inputs(t) \cap (Spent(mined) \cup Counted) = {}
  BY DEF MayConfirm
<1>3. t \in PayingOut /\ t.what \in {"close", "lnd"} /\ c \in Chan
  BY <1>1, <1>2 DEF WalletInv, PayingOut, Tx
<1>4. CASE t.what = "close"
  <2>1. t = CloseTx(c) /\ kind[c] = "coop"
    BY <1>1, <1>3, <1>4, TxShapes DEF PayingOut
  <2>2. <<"fund", c>> \in Inputs(t)
    BY <2>1 DEF Inputs, CloseTx
  <2>3. CloseTx(c) \notin mined
    BY <1>2, <2>1, <2>2 DEF Spent
  <2> QED BY <1>2, <1>3, <2>1, <2>2, <2>3 DEF Home, WalletInv, ClosesGoOn
<1>5. CASE t.what = "lnd"
  <2>1. kind[c] # "coop" /\ lnd[c] \in {"force", "closed"}
    BY <1>1, <1>3, <1>5 DEF PayingOut
  <2>2. <<"pay", c>> \in Inputs(t)
    BY <1>1, <1>5 DEF Inputs
  <2> QED BY <1>2, <1>3, <2>1, <2>2 DEF Home, Counted
<1> QED BY <1>3, <1>4, <1>5

\* Sets counted in parts.
LEMMA InTwoParts ==
  ASSUME NEW A, NEW B, IsFiniteSet(A), IsFiniteSet(B), A \cap B = {}
  PROVE  /\ IsFiniteSet(A \cup B) /\ Cardinality(A) \in Nat /\ Cardinality(B) \in Nat
         /\ Cardinality(A \cup B) = Cardinality(A) + Cardinality(B)
<1>1. Cardinality({}) = 0
  BY FS_EmptySet
<1>2. Cardinality(A \cap B) = 0
  BY <1>1, Zenon
<1>3. Cardinality(A) \in Nat /\ Cardinality(B) \in Nat
  BY FS_CardinalityType
<1>4. /\ IsFiniteSet(A \cup B)
      /\ Cardinality(A \cup B) = Cardinality(A) + Cardinality(B) - Cardinality(A \cap B)
  BY FS_Union
<1> QED BY <1>2, <1>3, <1>4

LEMMA InThreeParts ==
  ASSUME NEW A, NEW B, NEW C, IsFiniteSet(A \cup B \cup C),
         A \cap B = {}, A \cap C = {}, B \cap C = {}
  PROVE  /\ Cardinality(A) \in Nat /\ Cardinality(B) \in Nat /\ Cardinality(C) \in Nat
         /\ Cardinality(A \cup B \cup C) = Cardinality(A) + Cardinality(B) + Cardinality(C)
<1>1. IsFiniteSet(A) /\ IsFiniteSet(B) /\ IsFiniteSet(C)
  BY FS_Subset
<1>2. /\ IsFiniteSet(A \cup B) /\ Cardinality(A) \in Nat /\ Cardinality(B) \in Nat
      /\ Cardinality(A \cup B) = Cardinality(A) + Cardinality(B)
  BY <1>1, InTwoParts
<1>3. (A \cup B) \cap C = {}
  OBVIOUS
<1>4. /\ Cardinality(C) \in Nat
      /\ Cardinality((A \cup B) \cup C) = Cardinality(A \cup B) + Cardinality(C)
  BY <1>1, <1>2, <1>3, InTwoParts
<1> QED BY <1>2, <1>4

\* The Status put together from the answers of one moment.
LEMMA AssembleAddsUp ==
  ASSUME IInv, TypeOK, WalletInv, FreshInv, pc = "swept", ~moved, rd.warnings = {},
         checks = OnChain(walked), NEW s, s = Assemble(SweptBy(rd.force), {}), s.unresolved = {}
  PROVE  LET there == Owed * Cardinality({c \in Chan : ~Home(c)})
             shown == s.unconf
                      + Owed * (Cardinality(s.channels) + Cardinality(s.collect) + Cardinality(s.pending))
             listed == {c \in s.pending :
                          Home(c) \/ \E t \in ToSet(sent) : {<<"pay", c>>, <<"fund", c>>} \cap Inputs(t) # {}}
         IN shown \in there..(there + Owed * Cardinality(listed))
<1> DEFINE N == {c \in Chan : ~Home(c)}
           U == s.channels \cup s.collect \cup s.pending
           listed == {c \in s.pending :
                        Home(c) \/ \E t \in ToSet(sent) : {<<"pay", c>>, <<"fund", c>>} \cap Inputs(t) # {}}
           byWalk == {c \in Chan : PayoutKnown(c)}
<1>1. /\ s.channels = {c \in rd.open : checks.verdict[c] = "open"}
      /\ s.collect = checks.collect
      /\ s.pending = ((rd.waiting \ rd.paid) \cup (rd.force \ SweptBy(rd.force))) \ byWalk
      /\ s.unconf = rd.unconf
  BY DEF Assemble
<1>2. /\ rd.open = {c \in Chan : lnd[c] = "open"}
      /\ rd.waiting = {c \in Chan : lnd[c] = "waiting"}
      /\ rd.force = {c \in Chan : lnd[c] = "force"}
  BY DEF FreshInv
<1>3. /\ \A c \in Chan : /\ checks.verdict[c] = "open" => close[c] # "mined"
                         /\ c \in checks.collect => PayoutKnown(c) /\ ~Home(c)
      /\ checks.collect \subseteq Chan
  <2> DEFINE gone == {d \in walked : close[d] = "mined"}
  <2>1. /\ checks.verdict = [c \in Chan |-> CASE c \in gone -> "spent"
                                               [] c \in walked \ gone -> "open" [] OTHER -> "none"]
        /\ checks.collect = {c \in gone : kind[c] = "peer" /\ <<"pay", c>> \notin Spent(mined)}
    BY DEF OnChain
  <2>2. walked \subseteq Chan
    BY DEF TypeOK
  <2>3. checks.collect \subseteq Chan
    BY <2>1, <2>2
  <2>4. ASSUME NEW c \in Chan, checks.verdict[c] = "open" PROVE close[c] # "mined"
    <3>1. c \notin gone \/ checks.verdict[c] = "spent"
      <4> HIDE DEF gone
      <4> QED BY <2>1
    <3>2. c \in walked \/ checks.verdict[c] = "none" \/ c \in gone
      <4> HIDE DEF gone
      <4> QED BY <2>1
    <3> QED BY <2>4, <3>1, <3>2
  <2>5. ASSUME NEW c \in checks.collect PROVE PayoutKnown(c) /\ ~Home(c)
    <3>1. c \in gone /\ kind[c] = "peer" /\ <<"pay", c>> \notin Spent(mined) /\ c \in Chan
      BY <2>1, <2>2
    <3>2. checks.verdict[c] = "spent"
      <4> HIDE DEF gone
      <4> QED BY <2>1, <3>1
    <3> QED BY <3>1, <3>2 DEF PayoutKnown, Home
  <2> QED BY <2>3, <2>4, <2>5
<1>4. /\ U \subseteq Chan /\ s.channels \cap s.collect = {}
      /\ s.channels \cap s.pending = {} /\ s.collect \cap s.pending = {}
  <2>1. s.channels \cap s.collect = {}
    BY <1>1, <1>3 DEF PayoutKnown
  <2> QED BY <1>1, <1>2, <1>3, <2>1
<1>5. N \subseteq U
  <2>1. \A c \in Chan : c \in rd.force \cap SweptBy(rd.force) => Home(c)
    BY SweptIsHome DEF IInv, AnswerInv
  <2>2. ASSUME NEW c \in N PROVE c \in U \cup s.unresolved
    BY <2>1, AssembleIsWhole
  <2> QED BY <2>2
<1>6. \A c \in U : Home(c) => c \in listed
  <2>1. \A c \in s.channels \cup s.collect : ~Home(c)
    BY <1>1, <1>2, <1>3, HomeIsMined
  <2> QED BY <2>1
<1>7. PICK K \in MayConfirm(Spent(mined) \cup Counted) : rd.unconf = SumOf(K)
  BY DEF FreshInv
<1>8. Pays(K) \subseteq listed \cap N
  <2>1. SUFFICES ASSUME NEW c \in Pays(K) PROVE c \in listed /\ c \in N
    OBVIOUS
  <2>2. /\ c \in Chan /\ ~Home(c) /\ lnd[c] # "open"
        /\ c \in checks.collect => kind[c] = "coop"
        /\ \E t \in ToSet(sent) : {<<"pay", c>>, <<"fund", c>>} \cap Inputs(t) # {}
    BY OnItsWayIsListed
  <2>3. c \notin s.channels /\ c \notin s.collect
    BY <1>1, <1>2, <1>3, <2>2 DEF PayoutKnown
  <2> QED BY <1>5, <2>2, <2>3
<1>9. /\ SumOf(K) \in Nat /\ SumOf(K) <= Owed * Cardinality(Pays(K))
  BY PaysAtMost
<1> DEFINE H == U \ N
           n == Cardinality(N)
           h == Cardinality(H)
           p == Cardinality(Pays(K))
           l == Cardinality(listed)
<1>10. /\ Cardinality(s.channels) \in Nat /\ Cardinality(s.collect) \in Nat /\ Cardinality(s.pending) \in Nat
       /\ Cardinality(U) = Cardinality(s.channels) + Cardinality(s.collect) + Cardinality(s.pending)
  <2>1. IsFiniteSet(U)
    BY <1>4, AmountsAssumption, FS_Subset
  <2> QED BY <1>4, <2>1, InThreeParts
<1>11. /\ n \in Nat /\ h \in Nat /\ Cardinality(U) = n + h
  <2>1. IsFiniteSet(N) /\ IsFiniteSet(H) /\ N \cap H = {}
    BY <1>4, AmountsAssumption, FS_Subset
  <2>2. U = N \cup H
    BY <1>5
  <2> HIDE DEF U, N, H
  <2>3. /\ Cardinality(N) \in Nat /\ Cardinality(H) \in Nat
        /\ Cardinality(N \cup H) = Cardinality(N) + Cardinality(H)
    BY <2>1, InTwoParts
  <2> QED BY <2>2, <2>3
<1>12. /\ p \in Nat /\ l \in Nat /\ h + p <= l
  <2>1. H \cup Pays(K) \subseteq listed /\ H \cap Pays(K) = {} /\ listed \subseteq Chan
    BY <1>4, <1>6, <1>8
  <2> HIDE DEF H, listed
  <2>2. IsFiniteSet(listed) /\ l \in Nat /\ IsFiniteSet(H) /\ IsFiniteSet(Pays(K))
    <3>1. IsFiniteSet(listed)
      BY <2>1, AmountsAssumption, FS_Subset
    <3> QED BY <2>1, <3>1, FS_Subset, FS_CardinalityType
  <2>3. Cardinality(H \cup Pays(K)) <= l
    BY <2>1, <2>2, FS_Subset
  <2>4. /\ Cardinality(H) \in Nat /\ Cardinality(Pays(K)) \in Nat
        /\ Cardinality(H \cup Pays(K)) = Cardinality(H) + Cardinality(Pays(K))
    BY <2>1, <2>2, InTwoParts
  <2> QED BY <2>2, <2>3, <2>4
<1> DEFINE u == Cardinality(s.channels) + Cardinality(s.collect) + Cardinality(s.pending)
<1>13. u = n + h /\ s.unconf = SumOf(K)
  <2> HIDE DEF n, h, U
  <2> QED BY <1>1, <1>7, <1>10, <1>11
<1>14. \A k, a, b, c, d \in Nat :
         k <= Owed * c /\ b + c <= d => k + Owed * (a + b) \in (Owed * a)..(Owed * a + Owed * d)
  <2> SUFFICES ASSUME NEW k \in Nat, NEW a \in Nat, NEW b \in Nat, NEW c \in Nat, NEW d \in Nat,
                      k <= Owed * c, b + c <= d
               PROVE  k + Owed * (a + b) \in (Owed * a)..(Owed * a + Owed * d)
    OBVIOUS
  <2>1. /\ Owed * a \in Nat /\ Owed * b \in Nat /\ Owed * c \in Nat /\ Owed * d \in Nat
        /\ Owed * (a + b) = Owed * a + Owed * b /\ Owed * (b + c) = Owed * b + Owed * c
    BY AmountsAssumption
  <2>2. \A x, y \in Nat : x <= y => Owed * x <= Owed * y
    BY AmountsAssumption
  <2>3. Owed * (b + c) <= Owed * d
    BY <2>2
  <2> QED BY <2>1, <2>3
<1>15. SumOf(K) + Owed * (n + h) \in (Owed * n)..(Owed * n + Owed * l)
  <2> HIDE DEF n, h, p, l
  <2>1. SumOf(K) <= Owed * p
    BY <1>9 DEF p
  <2> QED BY <1>9, <1>11, <1>12, <1>14, <2>1
<1>16. s.unconf + Owed * u \in (Owed * n)..(Owed * n + Owed * l)
  <2> HIDE DEF n, h, l, u
  <2> QED BY <1>13, <1>15
<1> QED BY <1>16

LEMMA TotalStep ==
  ASSUME IInv, TypeOK, WalletInv, FreshInv, TotalIsRight, [Next]_vars
  PROVE  TotalIsRight'
<1>1. CASE UNCHANGED vars
  BY <1>1 DEF vars, world, TotalIsRight, StillListed, Home, OnChain, Spent
<1>2. CASE st' = None
  BY <1>2 DEF TotalIsRight
<1>3. CASE ReadSwept
  <2>1. UNCHANGED <<kind, close, lnd, mined, sent, walked, checks>> /\ moved' = moved /\ pc = "swept"
    BY <1>3 DEF ReadSwept, Answer, world
  <2>2. \A c : Home(c)' <=> Home(c)
    BY <2>1 DEF Home
  <2>3. OnChain(walked)' = OnChain(walked)
    BY <2>1 DEF OnChain
  <2>4. SUFFICES ASSUME ~moved, st'.warnings = {}, checks = OnChain(walked), st'.unresolved = {}
                 PROVE  LET there == Owed * Cardinality({c \in Chan : ~Home(c)})
                            shown == st'.unconf + Owed * (Cardinality(st'.channels)
                                       + Cardinality(st'.collect) + Cardinality(st'.pending))
                            listed == {c \in st'.pending : Home(c) \/ \E t \in ToSet(sent) :
                                         {<<"pay", c>>, <<"fund", c>>} \cap Inputs(t) # {}}
                        IN shown \in there..(there + Owed * Cardinality(listed))
    BY <2>1, <2>2, <2>3 DEF TotalIsRight, StillListed
  <2>5. \A swept, warnings : Assemble(swept, warnings).warnings = warnings
    BY DEF Assemble
  <2>6. rd.warnings = {} /\ st' = Assemble(SweptBy(rd.force), {})
    <3>1. ASSUME st' = Assemble({}, rd.warnings \cup {"swept"}) PROVE FALSE
      <4>1. st'.warnings = rd.warnings \cup {"swept"}
        BY <2>5, <3>1
      <4> QED BY <2>4, <4>1
    <3>2. st' = Assemble(SweptBy(rd.force), rd.warnings)
      BY <1>3, <3>1 DEF ReadSwept
    <3>3. rd.warnings = {}
      BY <2>4, <2>5, <3>2
    <3>4. Assemble(SweptBy(rd.force), rd.warnings) = Assemble(SweptBy(rd.force), {})
      BY <3>3, Zenon
    <3> QED BY <3>2, <3>3, <3>4
  <2> QED BY <2>1, <2>4, <2>6, AssembleAddsUp
<1>4. CASE StatusFails
  BY <1>2, <1>4 DEF StatusFails, Answer, IInv, AnswerInv
<1>5. CASE ReadTxs \/ ReadOpen \/ ReadPending
  BY <1>2, <1>5 DEF ReadTxs, ReadOpen, ReadPending, Answer, IInv, AnswerInv
<1> QED BY <1>1, <1>2, <1>3, <1>4, <1>5
    DEF Next, World, App, Check, ReadBalance, Restart, CloseSent, CloseMined, LndNoticesClose,
        PhoneSpends, LndResolves, LndSweeps, SweepMined, Moves

AddsUpInv == IInv /\ TypeOK /\ WalletInv /\ FreshInv /\ TotalIsRight

LEMMA AddsUpStep == AddsUpInv /\ [Next]_vars => AddsUpInv'
BY StepIInv, TypeStep, WalletStep, FreshStep, TotalStep DEF AddsUpInv

LEMMA AddsUpInit == Init => AddsUpInv
BY InitIInv, TypeInit, WalletInit DEF AddsUpInv, Init, FreshInv, TotalIsRight

(***************************************************************************)
(* Every figure of a Status is an amount and every set of channels one of  *)
(* this wallet's (core/node.go:528-670): the unconfirmed balance too,      *)
(* after what is not on its way has been taken from it.                    *)
(***************************************************************************)
THEOREM StatusTypes == Spec => []TypeOK
<1>1. AddsUpInv => TypeOK
  BY DEF AddsUpInv
<1> QED BY AddsUpInit, AddsUpStep, <1>1, PTL DEF Spec

(***************************************************************************)
(* The figures of a Status taken from one moment add up to the money there *)
(* is: never less, and more by no more than the closes lnd still lists     *)
(* that are paid out or being paid out (core/node.go:528-670, 690-826).    *)
(***************************************************************************)
THEOREM FiguresAddUp == Spec => []TotalIsRight
<1>1. AddsUpInv => TotalIsRight
  BY DEF AddsUpInv
<1> QED BY AddsUpInit, AddsUpStep, <1>1, PTL DEF Spec

=============================================================================
