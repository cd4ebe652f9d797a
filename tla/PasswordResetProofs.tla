------------------------- MODULE PasswordResetProofs -------------------------
(***************************************************************************)
(* Proofs about PasswordReset, for any number of threads: types, that a    *)
(* reset closes every older link, that as long as no two requests overlap  *)
(* it implements ResetLink, and how far overlap can break its promises     *)
(* (the run PasswordReset_used_twice breaks one).                          *)
(***************************************************************************)
EXTENDS PasswordReset, FiniteSetTheorems, TLAPS

-----------------------------------------------------------------------------
(* A thread at some step holds a complete request.                         *)
LEMMA WorkerHolds ==
  ASSUME TypeOK, NEW w \in Workers, worker[w].pc \in {"count", "spend", "commit"}
  PROVE  worker[w] \in Serving
BY DEF TypeOK, Serving, Idle

(* OldAge bounds both windows, and growing older stays within it.          *)
LEMMA OldAgeType ==
  /\ OldAge \in Nat
  /\ WindowTicks <= OldAge
  /\ \A a \in 0 .. OldAge : Older(a) \in 0 .. OldAge /\ a <= Older(a)
BY ResetAssumption DEF OldAge, Older

(* What a thread holds after each kind of step.                            *)
LEMMA HeldType ==
  ASSUME TypeOK, NEW w \in Workers
  PROVE  /\ \A step \in {"count", "spend"}, l \in LinkIds \cup {0}, seen \in SUBSET LinkIds :
              [pc |-> step, link |-> l, since |-> 0, spends |-> {}, older |-> seen] \in Serving
         /\ worker[w] \in Serving =>
              /\ [worker[w] EXCEPT !.pc = "spend", !.since = 0] \in Serving
              /\ \A links \in SUBSET LinkIds :
                   [worker[w] EXCEPT !.pc = "commit", !.spends = links] \in Serving
              /\ [worker[w] EXCEPT !.since = Older(@)] \in Serving
<1>1. 0 \in 0 .. OldAge
  BY OldAgeType
<1>2. ASSUME worker[w] \in Serving PROVE Older(worker[w].since) \in 0 .. OldAge
  BY <1>2, OldAgeType DEF Serving
<1>3. worker[w] \in Serving =>
        /\ [worker[w] EXCEPT !.pc = "spend", !.since = 0] \in Serving
        /\ \A links \in SUBSET LinkIds :
             [worker[w] EXCEPT !.pc = "commit", !.spends = links] \in Serving
        /\ [worker[w] EXCEPT !.since = Older(@)] \in Serving
  BY <1>1, <1>2 DEF Serving
<1>4. \A step \in {"count", "spend"}, l \in LinkIds \cup {0}, seen \in SUBSET LinkIds :
        [pc |-> step, link |-> l, since |-> 0, spends |-> {}, older |-> seen] \in Serving
  BY <1>1 DEF Serving
<1> QED
  BY <1>3, <1>4

(* The links are some of the ids, and the open ones some of the links.     *)
LEMMA LinksType ==
  ASSUME TypeOK
  PROVE  Links \subseteq LinkIds /\ Open \subseteq LinkIds /\ spent \subseteq LinkIds
BY ResetAssumption DEF TypeOK, Links, Open, LinkIds

(* Requests that only move their thread on keep the types.                 *)
LEMMA TypeOfMoves ==
  ASSUME TypeOK, NEW w \in Workers,
         \/ RequestReset(w) \/ CountRecent(w) \/ Spend(w)
         \/ \E l \in LinkIds : CheckLink(w, l)
  PROVE  TypeOK'
<1>0. overlapped' \in BOOLEAN
  BY DEF TypeOK, RequestReset, CountRecent, CheckLink, Spend, Spends, Start
<1> SUFFICES worker' \in [Workers -> Serving \cup {Idle}]
  BY <1>0 DEF TypeOK, Links, RequestReset, CountRecent, CheckLink, Spend, Spends, table
<1>1. CASE RequestReset(w)
  <2>1. [pc |-> "count", link |-> 0, since |-> 0, spends |-> {}, older |-> {}] \in Serving
    BY HeldType
  <2> QED
    BY <1>1, <2>1 DEF TypeOK, RequestReset, Start
<1>2. CASE CountRecent(w)
  <2>1. worker[w] \in Serving
    BY <1>2, WorkerHolds DEF CountRecent
  <2>2. [worker[w] EXCEPT !.pc = "spend", !.since = 0] \in Serving
    BY <2>1, HeldType
  <2> QED
    BY <1>2, <2>2 DEF TypeOK, CountRecent, Done
<1>3. CASE Spend(w)
  <2>1. worker[w] \in Serving
    BY <1>3, WorkerHolds DEF Spend, Spends
  <2>2. [worker[w] EXCEPT !.pc = "commit", !.spends = Open] \in Serving
    BY <2>1, HeldType, LinksType
  <2> QED
    BY <1>3, <2>2 DEF TypeOK, Spend, Spends
<1>4. ASSUME NEW l \in LinkIds, CheckLink(w, l)
      PROVE  worker' \in [Workers -> Serving \cup {Idle}]
  <2>1. [pc |-> "spend", link |-> l, since |-> 0, spends |-> {}, older |-> Open] \in Serving
    BY HeldType, LinksType
  <2> QED
    BY <1>4, <2>1 DEF TypeOK, CheckLink, Start
<1> QED
  BY <1>1, <1>2, <1>3, <1>4

(* A reset only ever spends links that were issued.                        *)
SpendsIssued == \A w \in Workers : worker[w].pc = "commit" => worker[w].spends \subseteq Links

Sound == TypeOK /\ SpendsIssued

(* Types are preserved by the actions that write the table.                *)
LEMMA TypeOfWrites ==
  ASSUME Sound, NEW w \in Workers, IssueLink(w) \/ ResetPassword(w)
  PROVE  TypeOK'
<1>1. worker[w] \in Serving /\ worker[w].pc = "commit"
  BY WorkerHolds DEF Sound, IssueLink, ResetPassword
<1>2. worker[w].spends \subseteq Links
  BY <1>1 DEF Sound, SpendsIssued
<1>3. worker' \in [Workers -> Serving \cup {Idle}]
  BY DEF Sound, TypeOK, IssueLink, ResetPassword, Done
<1>4. CASE IssueLink(w)
  <2>1. issued' \in 0 .. MaxLinks /\ Links \subseteq Links'
    BY <1>4, ResetAssumption DEF Sound, TypeOK, IssueLink, Links
  <2>2. age' \in [LinkIds -> 0 .. OldAge]
    BY <1>1, <1>4 DEF Sound, TypeOK, IssueLink, Serving
  <2>3. spent' \subseteq Links'
    BY <1>2, <1>4, <2>1 DEF Sound, TypeOK, IssueLink
  <2> QED
    BY <1>3, <1>4, <2>1, <2>2, <2>3 DEF Sound, TypeOK, IssueLink
<1>5. CASE ResetPassword(w)
  <2>1. spent' \subseteq Links'
    BY <1>2, <1>5 DEF Sound, TypeOK, ResetPassword, Links
  <2>2. worker[w].link \in LinkIds
    BY <1>1, <1>5 DEF ResetPassword, Serving
  <2>3. uses' \in [LinkIds -> Nat]
    BY <1>5, <2>2 DEF Sound, TypeOK, ResetPassword
  <2> QED
    BY <1>3, <1>5, <2>1, <2>3 DEF Sound, TypeOK, ResetPassword
<1> QED
  BY <1>4, <1>5

(* Time and the account's status keep the types.                           *)
LEMMA TypeOfTime ==
  ASSUME TypeOK, Tick \/ ChangeStatus
  PROVE  TypeOK'
<1>1. CASE Tick
  <2>1. age' \in [LinkIds -> 0 .. OldAge]
    BY <1>1, OldAgeType DEF Tick, TypeOK
  <2>2. ASSUME NEW w \in Workers, worker[w] # Idle
        PROVE  [worker[w] EXCEPT !.since = Older(@)] \in Serving
    BY <2>2, HeldType DEF TypeOK
  <2>3. worker' \in [Workers -> Serving \cup {Idle}]
    BY <1>1, <2>2 DEF Tick
  <2> QED
    BY <1>1, <2>1, <2>3 DEF Tick, TypeOK, Links
<1>2. CASE ChangeStatus
  BY <1>2 DEF ChangeStatus, TypeOK, Links, table
<1> QED
  BY <1>1, <1>2

(* A step leaves a thread as it was, older by a tick, or moved by itself.  *)
LEMMA StepMoves ==
  ASSUME TypeOK, [Next]_vars, NEW v \in Workers, worker'[v].pc = "commit"
  PROVE  \/ /\ Spend(v)
            /\ worker'[v] = [worker[v] EXCEPT !.pc = "commit", !.spends = Open]
         \/ /\ worker[v].pc = "commit"
            /\ worker'[v].link = worker[v].link
            /\ worker'[v].spends = worker[v].spends
            /\ worker'[v].older = worker[v].older
<1>1. CASE UNCHANGED worker
  BY <1>1
<1>2. ASSUME NEW w \in Workers, Spend(w) PROVE worker' = [worker EXCEPT ![w].pc = "commit", ![w].spends = Open]
  BY <1>2 DEF Spend, Spends
<1>3. ASSUME NEW w \in Workers, NEW q, q.pc # "commit", worker' = [worker EXCEPT ![w] = q]
      PROVE  v # w /\ worker'[v] = worker[v]
  BY <1>3 DEF TypeOK
<1>4. ASSUME NEW w \in Workers, RequestReset(w) \/ CountRecent(w) \/ \E l \in LinkIds : CheckLink(w, l)
      PROVE  v # w /\ worker'[v] = worker[v]
  <2>1. CASE RequestReset(w) \/ \E l \in LinkIds : CheckLink(w, l)
    BY <2>1, <1>3 DEF RequestReset, CheckLink, Start
  <2>2. CASE CountRecent(w)
    <3>1. worker[w] \in Serving
      BY <2>2, WorkerHolds DEF CountRecent
    <3>2. worker' = [worker EXCEPT ![w] = Idle]
            \/ worker' = [worker EXCEPT ![w] = [worker[w] EXCEPT !.pc = "spend", !.since = 0]]
      BY <2>2 DEF CountRecent, Done, TypeOK
    <3> QED
      BY <1>3, <3>1, <3>2 DEF Idle, Serving
  <2> QED
    BY <1>4, <2>1, <2>2
<1>5. ASSUME NEW w \in Workers, Done(w) PROVE v # w /\ worker'[v] = worker[v]
  BY <1>5, <1>3 DEF Done, Idle
<1>6. CASE Tick
  <2>1. worker[v] # Idle
    BY <1>6 DEF Tick, Idle
  <2>2. worker[v] \in Serving /\ worker'[v] = [worker[v] EXCEPT !.since = Older(@)]
    BY <1>6, <2>1 DEF Tick, TypeOK
  <2> QED
    BY <2>2 DEF Serving
<1>7. ASSUME NEW w \in Workers, Spend(w)
      PROVE  w # v => worker'[v] = worker[v]
  BY <1>2, <1>7 DEF TypeOK
<1>8. Spend(v) => worker'[v] = [worker[v] EXCEPT !.pc = "commit", !.spends = Open]
  BY <1>2 DEF TypeOK
<1> QED
  BY <1>1, <1>4, <1>5, <1>6, <1>7, <1>8
  DEF Next, vars, ChangeStatus, IssueLink, ResetPassword

(* Links are never taken back, and a spent one stays spent.                *)
LEMMA OnlyGrows ==
  ASSUME TypeOK, [Next]_vars
  PROVE  Links \subseteq Links' /\ spent \subseteq spent'
<1>1. issued' = issued \/ issued' = issued + 1
  BY DEF Next, vars, RequestReset, CountRecent, Spend, Spends, IssueLink, ResetPassword,
         CheckLink, ChangeStatus, Tick, table
<1>2. spent \subseteq spent'
  BY DEF Next, vars, RequestReset, CountRecent, Spend, Spends, IssueLink, ResetPassword,
         CheckLink, ChangeStatus, Tick, table
<1>3. issued \in Nat
  BY ResetAssumption DEF TypeOK
<1> QED
  BY <1>1, <1>2, <1>3 DEF Links

(* Every step keeps the ranges and what is known of links in flight.       *)
LEMMA SoundStep ==
  ASSUME Sound, [Next]_vars
  PROVE  Sound'
<1>1. TypeOK'
  <2>1. CASE UNCHANGED vars
    BY <2>1 DEF Sound, TypeOK, Links, vars
  <2> QED
    BY <2>1, TypeOfMoves, TypeOfWrites, TypeOfTime DEF Next, Sound
<1>2. SpendsIssued'
  <2> SUFFICES ASSUME NEW v \in Workers, worker'[v].pc = "commit"
               PROVE  worker'[v].spends \subseteq Links'
    BY DEF SpendsIssued
  <2>1. Links \subseteq Links'
    BY OnlyGrows DEF Sound
  <2>2. CASE worker'[v] = [worker[v] EXCEPT !.pc = "commit", !.spends = Open] /\ Spend(v)
    <3>1. worker[v] \in Serving
      BY <2>2, WorkerHolds DEF Sound, Spend, Spends
    <3> QED
      BY <2>1, <2>2, <3>1 DEF Serving, Open
  <2>3. CASE worker[v].pc = "commit" /\ worker'[v].spends = worker[v].spends
    BY <2>1, <2>3 DEF Sound, SpendsIssued
  <2> QED
    BY <2>2, <2>3, StepMoves DEF Sound
<1> QED
  BY <1>1, <1>2 DEF Sound

(* Both hold at the start.                                                 *)
LEMMA SoundInit == Init => Sound
<1> SUFFICES ASSUME Init PROVE Sound
  OBVIOUS
<1>1. overlapped \in BOOLEAN
  BY DEF Init
<1> QED
  BY <1>1, ResetAssumption, OldAgeType
  DEF Init, Sound, TypeOK, SpendsIssued, Links, LinkIds, Idle

(* Both hold at every moment.                                              *)
LEMMA SoundInvariant == Spec => []Sound
<1>1. Sound /\ [Next]_vars => Sound'
  BY SoundStep
<1> QED
  BY SoundInit, <1>1, PTL DEF Spec

(* Only issued links are ever spent, whatever the threads' interleaving,   *)
(* and every session a thread holds is a complete one.                     *)
THEOREM TypeCorrect == Spec => []TypeOK
<1>1. Sound => TypeOK
  BY DEF Sound
<1> QED
  BY SoundInvariant, <1>1, PTL

-----------------------------------------------------------------------------
(* Any number of threads: the links open when a reset began are issued,    *)
(* and after its UPDATE each of them is spent, by it or by another.        *)
OlderClosing ==
  \A w \in Workers :
    /\ worker[w].pc \in {"count", "spend"} => worker[w].older \subseteq Links
    /\ worker[w].pc = "commit" => worker[w].older \subseteq worker[w].spends \cup spent

(* Before its UPDATE a thread remembers nothing it did not just read.      *)
LEMMA EarlyMoves ==
  ASSUME TypeOK, [Next]_vars, NEW v \in Workers, worker'[v].pc \in {"count", "spend"}
  PROVE  \/ worker'[v].older \in {{}, Open}
         \/ /\ worker[v].pc \in {"count", "spend"}
            /\ worker'[v].older = worker[v].older
<1>1. CASE UNCHANGED worker
  BY <1>1
<1>2. ASSUME NEW w \in Workers, RequestReset(w) \/ \E l \in LinkIds : CheckLink(w, l)
      PROVE  worker'[v].older \in {{}, Open} \/ worker'[v] = worker[v]
  <2>1. CASE RequestReset(w)
    <3>1. worker' = [worker EXCEPT ![w] =
            [pc |-> "count", link |-> 0, since |-> 0, spends |-> {}, older |-> {}]]
      BY <2>1 DEF RequestReset, Start
    <3> QED
      BY <3>1 DEF TypeOK
  <2>2. ASSUME NEW l \in LinkIds, CheckLink(w, l)
        PROVE  worker'[v].older \in {{}, Open} \/ worker'[v] = worker[v]
    <3>1. worker' = [worker EXCEPT ![w] =
            [pc |-> "spend", link |-> l, since |-> 0, spends |-> {}, older |-> Open]]
      BY <2>2 DEF CheckLink, Start
    <3> QED
      BY <3>1 DEF TypeOK
  <2> QED
    BY <1>2, <2>1, <2>2
<1>3. ASSUME NEW w \in Workers, CountRecent(w)
      PROVE  worker[v].pc \in {"count", "spend"} /\ worker'[v].older = worker[v].older
  <2>1. worker[w] \in Serving
    BY <1>3, WorkerHolds DEF CountRecent
  <2>2. worker' = [worker EXCEPT ![w] = Idle]
          \/ worker' = [worker EXCEPT ![w] = [worker[w] EXCEPT !.pc = "spend", !.since = 0]]
    BY <1>3 DEF CountRecent, Done, TypeOK
  <2>3. CASE v = w
    <3>1. worker'[v] = Idle \/ worker'[v] = [worker[w] EXCEPT !.pc = "spend", !.since = 0]
      BY <2>2, <2>3 DEF TypeOK
    <3>2. worker'[v] # Idle
      BY DEF Idle
    <3> QED
      BY <1>3, <2>1, <2>3, <3>1, <3>2 DEF CountRecent, Serving
  <2>4. CASE v # w
    BY <2>2, <2>4 DEF TypeOK
  <2> QED
    BY <2>3, <2>4
<1>4. ASSUME NEW w \in Workers, Spend(w) PROVE worker'[v] = worker[v]
  <2>1. worker' = [worker EXCEPT ![w].pc = "commit", ![w].spends = Open]
    BY <1>4 DEF Spend, Spends
  <2>2. worker[w] \in Serving
    BY <1>4, WorkerHolds DEF Spend, Spends
  <2> QED
    BY <2>1, <2>2 DEF TypeOK, Serving
<1>5. ASSUME NEW w \in Workers, Done(w) PROVE worker'[v] = worker[v]
  BY <1>5 DEF Done, Idle, TypeOK
<1>6. CASE Tick
  <2>1. worker[v] # Idle
    BY <1>6 DEF Tick, Idle
  <2>2. worker[v] \in Serving /\ worker'[v] = [worker[v] EXCEPT !.since = Older(@)]
    BY <1>6, <2>1 DEF Tick, TypeOK
  <2> QED
    BY <2>2 DEF Serving
<1> QED
  BY <1>1, <1>2, <1>3, <1>4, <1>5, <1>6
  DEF Next, vars, ChangeStatus, IssueLink, ResetPassword

(* Every step keeps older links closed or about to be closed.              *)
LEMMA OlderClosingStep ==
  ASSUME Sound, OlderClosing, [Next]_vars
  PROVE  OlderClosing'
<1>1. Links \subseteq Links' /\ spent \subseteq spent'
  BY OnlyGrows DEF Sound
<1>2. ASSUME NEW v \in Workers, worker'[v].pc \in {"count", "spend"}
      PROVE  worker'[v].older \subseteq Links'
  BY <1>1, <1>2, EarlyMoves DEF Sound, OlderClosing, Open
<1>3. ASSUME NEW v \in Workers, worker'[v].pc = "commit"
      PROVE  worker'[v].older \subseteq worker'[v].spends \cup spent'
  <2>1. CASE Spend(v) /\ worker'[v] = [worker[v] EXCEPT !.pc = "commit", !.spends = Open]
    <3>1. worker[v] \in Serving /\ worker[v].pc = "spend"
      BY <2>1, WorkerHolds DEF Sound, Spend, Spends
    <3>2. worker'[v].spends = Open /\ worker'[v].older = worker[v].older
      BY <2>1, <3>1 DEF Serving
    <3>3. worker[v].older \subseteq Links
      BY <3>1 DEF OlderClosing
    <3> QED
      BY <1>1, <3>2, <3>3 DEF Open
  <2>2. CASE /\ worker[v].pc = "commit"
             /\ worker'[v].spends = worker[v].spends
             /\ worker'[v].older = worker[v].older
    BY <1>1, <2>2 DEF OlderClosing
  <2> QED
    BY <1>3, <2>1, <2>2, StepMoves DEF Sound
<1> QED
  BY <1>2, <1>3 DEF OlderClosing

(* reset_password, "Spend this link and any other open one", for any       *)
(* number of threads: a link that was open when a reset began is spent     *)
(* when it commits, by its own UPDATE or by that of another request.       *)
THEOREM OlderLinksClosed == Spec => ResetClosesOlder
<1>1. Init => OlderClosing
  BY DEF Init, OlderClosing, Idle
<1>2. Sound /\ OlderClosing /\ [Next]_vars => OlderClosing'
  BY OlderClosingStep
<1>3. Sound /\ OlderClosing /\ [Next]_vars
        => [\A w \in Workers : ResetPassword(w) => worker[w].older \cap Open' = {}]_vars
  BY DEF OlderClosing, ResetPassword, Open
<1> QED
  BY SoundInvariant, <1>1, <1>2, <1>3, PTL DEF Spec, ResetClosesOlder

-----------------------------------------------------------------------------
(* Without overlap: what a thread has read is still true when it writes.   *)
Current(w) ==
  /\ worker[w].pc = "count" => worker[w].link = 0
  /\ worker[w].pc \in {"spend", "commit"} /\ worker[w].link # 0 => worker[w].link \in Open
  /\ worker[w].pc \in {"spend", "commit"} /\ worker[w].link = 0
       => Cardinality(Recent) < MAX_REQUESTS_PER_WINDOW
  /\ worker[w].pc = "commit" => worker[w].spends = Open

OneBusy == \A v, w \in Workers : worker[v] # Idle /\ worker[w] # Idle => v = w

NewestOnly == \A l \in Open : l = issued

UsedIsSpent == \A l \in LinkIds : uses[l] = 0 \/ (uses[l] = 1 /\ l \in spent)

FewRecent == Cardinality(Recent) <= MAX_REQUESTS_PER_WINDOW

InTurn ==
  /\ Sound
  /\ OneBusy
  /\ \A w \in Workers : Current(w)
  /\ NewestOnly
  /\ UsedIsSpent
  /\ FewRecent

SerialInv == Sound /\ (~overlapped => InTurn)

(* The recent links are finitely many.                                     *)
LEMMA RecentFinite ==
  ASSUME TypeOK
  PROVE  IsFiniteSet(Recent) /\ Cardinality(Recent) \in Nat
<1>1. issued \in Int
  BY ResetAssumption DEF TypeOK
<1>2. IsFiniteSet(Links)
  BY <1>1, FS_Interval DEF Links
<1>3. Recent \in SUBSET Links
  BY DEF Recent
<1>4. IsFiniteSet(Recent)
  BY <1>2, <1>3, FS_Subset
<1> QED
  BY <1>4, FS_CardinalityType

(* Time only takes links out of the window, and only an insert adds one.   *)
LEMMA RecentStep ==
  ASSUME TypeOK, [Next]_vars
  PROVE  /\ IsFiniteSet(Recent')
         /\ Cardinality(Recent') \in Nat
         /\ \/ Cardinality(Recent') <= Cardinality(Recent)
            \/ /\ \E w \in Workers : IssueLink(w)
               /\ Cardinality(Recent') <= Cardinality(Recent) + 1
<1>1. IsFiniteSet(Recent) /\ Cardinality(Recent) \in Nat
  BY RecentFinite
<1>2. CASE Recent' \in SUBSET Recent
  <2>1. IsFiniteSet(Recent') /\ Cardinality(Recent') <= Cardinality(Recent)
    BY <1>1, <1>2, FS_Subset
  <2> QED
    BY <2>1, FS_CardinalityType
<1>3. ASSUME NEW w \in Workers, IssueLink(w)
      PROVE  /\ IsFiniteSet(Recent')
             /\ Cardinality(Recent') \in Nat
             /\ Cardinality(Recent') <= Cardinality(Recent) + 1
  <2> DEFINE more == Recent \cup {issued + 1}
  <2>1. IsFiniteSet(more) /\ Cardinality(more) <= Cardinality(Recent) + 1
    BY <1>1, FS_AddElement
  <2>2. Recent' \in SUBSET more
    BY <1>3, ResetAssumption DEF IssueLink, Recent, Links, LinkIds, TypeOK
  <2>3. IsFiniteSet(Recent') /\ Cardinality(Recent') <= Cardinality(more)
    BY <2>1, <2>2, FS_Subset
  <2>4. Cardinality(Recent') \in Nat /\ Cardinality(more) \in Nat
    BY <2>1, <2>3, FS_CardinalityType
  <2> HIDE DEF more
  <2> QED
    BY <1>1, <2>1, <2>3, <2>4
<1>4. CASE Tick
  <2>1. ASSUME NEW l \in Links PROVE age'[l] = Older(age[l]) /\ age[l] \in 0 .. OldAge
    BY <1>4, <2>1, LinksType DEF Tick, TypeOK
  <2>2. ASSUME NEW l \in Links, age'[l] < WindowTicks PROVE age[l] < WindowTicks
    BY <2>1, <2>2, OldAgeType, ResetAssumption
  <2>3. Recent' \in SUBSET Recent
    BY <1>4, <2>2 DEF Tick, Recent, Links
  <2> QED
    BY <1>2, <2>3
<1>5. CASE UNCHANGED <<issued, age>>
  <2>1. Recent' \in SUBSET Recent
    BY <1>5 DEF Recent, Links
  <2> QED
    BY <1>2, <2>1
<1> QED
  BY <1>3, <1>4, <1>5
  DEF Next, vars, RequestReset, CountRecent, Spend, Spends, CheckLink, ResetPassword,
      ChangeStatus, table

(* A step that leaves the table alone leaves every promise alone.          *)
LEMMA PromisesKept ==
  ASSUME InTurn, UNCHANGED <<issued, spent, uses>>
  PROVE  NewestOnly' /\ UsedIsSpent' /\ Open' = Open
BY DEF InTurn, NewestOnly, UsedIsSpent, Open, Links

(* Without overlap every step keeps the newest link the only open one.      *)
LEMMA OnlyNewestStep ==
  ASSUME InTurn, [Next]_vars
  PROVE  NewestOnly'
<1>1. ASSUME NEW w \in Workers, IssueLink(w) PROVE NewestOnly'
  <2>1. spent' = spent \cup Open
    BY <1>1 DEF InTurn, Current, IssueLink
  <2>2. Open' \subseteq {issued'}
    BY <1>1, <2>1, ResetAssumption DEF IssueLink, Open, Links, InTurn, Sound, TypeOK
  <2> QED
    BY <2>2 DEF NewestOnly
<1>2. ASSUME NEW w \in Workers, ResetPassword(w) PROVE NewestOnly'
  BY <1>2 DEF InTurn, NewestOnly, ResetPassword, Open, Links
<1>3. CASE UNCHANGED <<issued, spent, uses>>
  BY <1>3, PromisesKept
<1> QED
  BY <1>1, <1>2, <1>3
  DEF Next, vars, RequestReset, CountRecent, Spend, Spends, CheckLink, Tick, ChangeStatus, table

(* Without overlap a link that has set a password is spent.                 *)
LEMMA UsedIsSpentStep ==
  ASSUME InTurn, [Next]_vars
  PROVE  UsedIsSpent'
<1>1. ASSUME NEW w \in Workers, IssueLink(w) PROVE UsedIsSpent'
  BY <1>1 DEF InTurn, UsedIsSpent, IssueLink
<1>2. ASSUME NEW w \in Workers, ResetPassword(w) PROVE UsedIsSpent'
  <2>1. worker[w].link \in Open /\ spent' = spent \cup Open
    BY <1>2 DEF InTurn, Current, ResetPassword
  <2>2. worker[w].link \in LinkIds /\ uses[worker[w].link] = 0
    BY <2>1, LinksType DEF InTurn, Sound, UsedIsSpent, Open
  <2> QED
    BY <1>2, <2>1, <2>2 DEF InTurn, Sound, TypeOK, UsedIsSpent, ResetPassword
<1>3. CASE UNCHANGED <<issued, spent, uses>>
  BY <1>3, PromisesKept
<1> QED
  BY <1>1, <1>2, <1>3
  DEF Next, vars, RequestReset, CountRecent, Spend, Spends, CheckLink, Tick, ChangeStatus, table

(* Without overlap no step exceeds the limit.                              *)
LEMMA FewRecentStep ==
  ASSUME InTurn, [Next]_vars
  PROVE  FewRecent'
<1>1. Cardinality(Recent) \in Nat
  BY RecentFinite DEF InTurn, Sound
<1>2. ASSUME NEW w \in Workers, IssueLink(w)
      PROVE  Cardinality(Recent) < MAX_REQUESTS_PER_WINDOW
  BY <1>2 DEF InTurn, Current, IssueLink
<1> QED
  BY <1>1, <1>2, RecentStep, ResetAssumption DEF InTurn, Sound, FewRecent

(* Until requests overlap, the step of a thread finds and leaves every     *)
(* other one idle.                                                         *)
LEMMA OthersIdle ==
  ASSUME TypeOK, OneBusy, ~overlapped', NEW w \in Workers, NEW v \in Workers, v # w,
         \/ RequestReset(w) \/ CountRecent(w) \/ Spend(w) \/ IssueLink(w) \/ ResetPassword(w)
         \/ \E l \in LinkIds : CheckLink(w, l)
  PROVE  worker'[v] = Idle
<1>1. worker'[v] = worker[v]
  BY DEF RequestReset, CountRecent, Spend, Spends, IssueLink, ResetPassword, CheckLink, Start,
         Done, TypeOK
<1>2. ASSUME NEW step, NEW l, NEW seen, Start(w, step, l, seen) PROVE worker[v] = Idle
  BY <1>2 DEF Start
<1>3. ASSUME worker[w].pc \in {"count", "spend", "commit"} PROVE worker[v] = Idle
  <2>1. worker[w] # Idle
    BY <1>3 DEF Idle
  <2> QED
    BY <2>1 DEF OneBusy
<1> QED
  BY <1>1, <1>2, <1>3
  DEF RequestReset, CountRecent, Spend, Spends, IssueLink, ResetPassword, CheckLink

(* One thread at most is busy until requests overlap.                      *)
LEMMA OneBusyStep ==
  ASSUME InTurn, [Next]_vars, ~overlapped'
  PROVE  OneBusy'
<1>1. CASE UNCHANGED worker
  BY <1>1 DEF InTurn, OneBusy
<1>2. CASE Tick
  BY <1>2 DEF Tick, InTurn, OneBusy, Idle
<1>3. ASSUME NEW w \in Workers,
             \/ RequestReset(w) \/ CountRecent(w) \/ Spend(w) \/ IssueLink(w) \/ ResetPassword(w)
             \/ \E l \in LinkIds : CheckLink(w, l)
      PROVE  OneBusy'
  <2>1. \A v \in Workers : v # w => worker'[v] = Idle
    BY <1>3, OthersIdle DEF InTurn, Sound
  <2> QED
    BY <2>1 DEF OneBusy
<1> QED
  BY <1>1, <1>2, <1>3 DEF Next, vars, ChangeStatus

(* Until requests overlap, nothing changes between a thread's reads and    *)
(* its writes but time and the account's status, which it no longer reads. *)
LEMMA CurrentStep ==
  ASSUME InTurn, [Next]_vars, ~overlapped', NEW v \in Workers
  PROVE  Current(v)'
<1>1. ASSUME NEW w \in Workers, w # v,
             \/ RequestReset(w) \/ CountRecent(w) \/ Spend(w) \/ IssueLink(w) \/ ResetPassword(w)
             \/ \E l \in LinkIds : CheckLink(w, l)
      PROVE  Current(v)'
  <2>1. worker'[v] = Idle
    BY <1>1, OthersIdle DEF InTurn, Sound
  <2> QED
    BY <2>1 DEF Current, Idle
<1>2. CASE UNCHANGED <<worker, table>>
  BY <1>2 DEF InTurn, Current, Open, Links, Recent, table
<1>3. CASE RequestReset(v)
  <2>1. worker'[v] = [pc |-> "count", link |-> 0, since |-> 0, spends |-> {}, older |-> {}]
    BY <1>3 DEF RequestReset, Start, InTurn, Sound, TypeOK
  <2> QED
    BY <2>1 DEF Current
<1>4. CASE CountRecent(v)
  <2>1. worker[v] \in Serving
    BY <1>4, WorkerHolds DEF CountRecent, InTurn, Sound
  <2>2. CASE worker'[v] = Idle
    BY <2>2 DEF Current, Idle
  <2>3. CASE /\ ~(Cardinality(Recent) >= MAX_REQUESTS_PER_WINDOW)
             /\ worker'[v] = [worker[v] EXCEPT !.pc = "spend", !.since = 0]
    <3>1. Cardinality(Recent) < MAX_REQUESTS_PER_WINDOW
      BY <2>3, RecentFinite, ResetAssumption DEF InTurn, Sound
    <3>2. Cardinality(Recent') = Cardinality(Recent)
      BY <1>4 DEF CountRecent, Recent, Links, table
    <3>3. worker'[v].pc = "spend" /\ worker'[v].link = worker[v].link
      BY <2>1, <2>3 DEF Serving
    <3>4. worker[v].link = 0
      BY <1>4 DEF CountRecent, InTurn, Current
    <3> QED
      BY <3>1, <3>2, <3>3, <3>4 DEF Current
  <2> QED
    BY <1>4, <2>2, <2>3 DEF CountRecent, Done, InTurn, Sound, TypeOK
<1>5. ASSUME NEW l \in LinkIds, CheckLink(v, l) PROVE Current(v)'
  <2>1. worker'[v] = [pc |-> "spend", link |-> l, since |-> 0, spends |-> {}, older |-> Open]
    BY <1>5 DEF CheckLink, Start, InTurn, Sound, TypeOK
  <2>2. l \in Open'
    BY <1>5 DEF CheckLink, Open, Links, table
  <2>3. l # 0
    BY DEF LinkIds
  <2> QED
    BY <2>1, <2>2, <2>3 DEF Current
<1>6. CASE Spend(v)
  <2>1. worker[v] \in Serving /\ worker[v].pc = "spend"
    BY <1>6, WorkerHolds DEF Spend, Spends, InTurn, Sound
  <2>2. worker'[v] = [worker[v] EXCEPT !.pc = "commit", !.spends = Open]
    BY <1>6 DEF Spend, Spends, InTurn, Sound, TypeOK
  <2>3. Open' = Open /\ Recent' = Recent
    BY <1>6 DEF Spend, Spends, Open, Links, Recent, table
  <2>4. /\ worker'[v].pc = "commit"
        /\ worker'[v].link = worker[v].link
        /\ worker'[v].spends = Open
    BY <2>1, <2>2 DEF Serving
  <2>5. Cardinality(Recent') = Cardinality(Recent)
    BY <2>3
  <2>6. /\ worker[v].link # 0 => worker[v].link \in Open
        /\ worker[v].link = 0 => Cardinality(Recent) < MAX_REQUESTS_PER_WINDOW
    BY <2>1 DEF InTurn, Current
  <2> QED
    BY <2>3, <2>4, <2>5, <2>6 DEF Current
<1>7. CASE Done(v)
  <2>1. worker'[v] = Idle
    BY <1>7 DEF Done, InTurn, Sound, TypeOK
  <2> QED
    BY <2>1 DEF Current, Idle
<1>8. CASE Tick
  <2>1. Cardinality(Recent') <= Cardinality(Recent) /\ Cardinality(Recent') \in Nat
    <3>1. ASSUME NEW w \in Workers PROVE ~IssueLink(w)
      BY <1>8, ResetAssumption DEF Tick, IssueLink, InTurn, Sound, TypeOK
    <3> QED
      BY <3>1, RecentStep DEF InTurn, Sound
  <2>2. Open' = Open
    BY <1>8 DEF Tick, Open, Links
  <2>3. CASE worker[v] = Idle
    BY <1>8, <2>3 DEF Tick, Current, Idle
  <2>4. CASE worker[v] \in Serving /\ worker[v] # Idle
    <3>1. /\ worker'[v].pc = worker[v].pc
          /\ worker'[v].link = worker[v].link
          /\ worker'[v].spends = worker[v].spends
      BY <1>8, <2>4 DEF Tick, Serving
    <3>2. Current(v)
      BY DEF InTurn
    <3>3. Cardinality(Recent) < MAX_REQUESTS_PER_WINDOW
            => Cardinality(Recent') < MAX_REQUESTS_PER_WINDOW
      BY <2>1, RecentFinite, ResetAssumption DEF InTurn, Sound
    <3> QED
      BY <2>2, <3>1, <3>2, <3>3 DEF Current
  <2> QED
    BY <2>3, <2>4 DEF InTurn, Sound, TypeOK
<1> QED
  BY <1>1, <1>2, <1>3, <1>4, <1>5, <1>6, <1>7, <1>8
  DEF Next, vars, table, ChangeStatus, IssueLink, ResetPassword

(* What is kept without overlap holds at the start.                        *)
LEMMA SerialInit == Init => SerialInv
<1> SUFFICES ASSUME Init PROVE SerialInv
  OBVIOUS
<1>1. Sound
  BY SoundInit
<1>2. OneBusy /\ \A w \in Workers : Current(w)
  BY DEF Init, Current, OneBusy, Idle
<1>3. NewestOnly /\ UsedIsSpent
  BY DEF Init, NewestOnly, UsedIsSpent, Open, Links
<1>4. FewRecent
  <2>1. Recent = {}
    BY DEF Init, Recent, Links
  <2>2. Cardinality(Recent) = 0
    BY <2>1, FS_EmptySet
  <2> QED
    BY <2>2, ResetAssumption DEF FewRecent
<1> QED
  BY <1>1, <1>2, <1>3, <1>4 DEF SerialInv, InTurn

(* What is kept without overlap holds at every moment.                     *)
LEMMA SerialInvariant == Spec => []SerialInv
<1>1. ASSUME SerialInv, [Next]_vars PROVE SerialInv'
  <2>1. Sound'
    BY <1>1, SoundStep DEF SerialInv
  <2>2. ASSUME ~overlapped' PROVE InTurn'
    <3>1. ~overlapped
      BY <1>1, <2>2 DEF Next, vars, RequestReset, CountRecent, Spend, Spends, IssueLink,
           ResetPassword, CheckLink, Start, ChangeStatus, Tick
    <3>2. InTurn
      BY <1>1, <3>1 DEF SerialInv
    <3>3. \A v \in Workers : Current(v)'
      BY <1>1, <2>2, <3>2, CurrentStep
    <3> QED
      BY <1>1, <2>1, <2>2, <3>2, <3>3, OneBusyStep, OnlyNewestStep, UsedIsSpentStep, FewRecentStep
      DEF InTurn
  <2> QED
    BY <2>1, <2>2 DEF SerialInv
<1>2. SerialInv /\ [Next]_vars => SerialInv'
  BY <1>1
<1> QED
  BY SerialInit, <1>2, PTL DEF Spec

(* password_reset_service.py, "Only the newest link works", as long as no  *)
(* two requests overlap: an older link is spent before the new one can be  *)
(* seen.                                                                   *)
THEOREM NewestLinkOnly == Spec => []OnlyNewestOpen
<1>1. SerialInv => OnlyNewestOpen
  BY DEF SerialInv, InTurn, NewestOnly, OnlyNewestOpen
<1> QED
  BY SerialInvariant, <1>1, PTL

(* "A token works once", as long as no two requests overlap: a link that   *)
(* set a password is spent by the same commit.                             *)
THEOREM LinkWorksOnce == Spec => []UsedOnceInTurn
<1>1. SerialInv => UsedOnceInTurn
  BY DEF SerialInv, InTurn, UsedIsSpent, UsedOnceInTurn, UsedOnce
<1> QED
  BY SerialInvariant, <1>1, PTL

(* "At most this many links per account in the window", without overlap.   *)
THEOREM LimitKept == Spec => []WithinLimit
<1>1. SerialInv => WithinLimit
  BY DEF SerialInv, InTurn, FewRecent, WithinLimit
<1> QED
  BY SerialInvariant, <1>1, PTL

-----------------------------------------------------------------------------
(* The three promises at once: the refinement of ResetLink, until two      *)
(* requests overlap.                                                       *)

(* An insert closes what was open and adds a link never seen before.       *)
LEMMA InsertIsIssue ==
  ASSUME InTurn, NEW w \in Workers, IssueLink(w)
  PROVE  Promise!Issue(issued + 1) /\ issued + 1 \in LinkIds
<1> DEFINE new == issued + 1
<1>1. issued \in Nat /\ new \in LinkIds /\ Links = 1 .. issued /\ Links' = 1 .. new
  BY ResetAssumption DEF InTurn, Sound, TypeOK, IssueLink, LinkIds, Links
<1>2. new \notin Links /\ Links' = Links \cup {new}
  BY <1>1
<1>3. uses[new] = 0
  BY <1>1, <1>2 DEF InTurn, UsedIsSpent, Sound, TypeOK
<1>4. worker[w].spends = Open /\ Cardinality(Recent) < MAX_REQUESTS_PER_WINDOW
  BY DEF InTurn, Current, IssueLink
<1>5. Open' = {new}
  <2>1. spent' = spent \cup Open
    BY <1>4 DEF IssueLink
  <2>2. new \notin spent
    BY <1>2 DEF InTurn, Sound, TypeOK
  <2> QED
    BY <1>2, <2>1, <2>2 DEF Open
<1>6. Recent' \in {Recent, Recent \cup {new}}
  <2>1. \A l \in Links : age'[l] = age[l]
    BY <1>1, <1>2, LinksType DEF InTurn, Sound, TypeOK, IssueLink
  <2> QED
    BY <1>2, <2>1 DEF Recent
<1>7. Cardinality(Recent') \in {Cardinality(Recent), Cardinality(Recent) + 1}
  <2>1. new \notin Recent
    BY <1>2 DEF Recent
  <2>2. Cardinality(Recent \cup {new}) = Cardinality(Recent) + 1
    BY <2>1, RecentFinite, FS_AddElement DEF InTurn, Sound
  <2> QED
    BY <1>6, <2>2
<1>8. new \notin Open
  BY <1>2 DEF Open
<1> HIDE DEF new
<1>9. Promise!Issue(new)
  BY <1>3, <1>4, <1>5, <1>7, <1>8 DEF Promise!Issue, IssueLink
<1> QED
  BY <1>1, <1>9 DEF new

(* The commit of a reset uses the open link and leaves none.               *)
LEMMA ResetIsUse ==
  ASSUME InTurn, NEW w \in Workers, ResetPassword(w)
  PROVE  Promise!Use(worker[w].link) /\ worker[w].link \in LinkIds
<1>1. worker[w].link \in Open /\ worker[w].spends = Open
  BY DEF InTurn, Current, ResetPassword
<1>2. worker[w].link \in LinkIds /\ uses[worker[w].link] = 0
  BY <1>1, LinksType DEF InTurn, Sound, UsedIsSpent, Open
<1>3. Open' = {} /\ Recent' = Recent
  BY <1>1 DEF ResetPassword, Open, Recent, Links
<1>4. uses' = [uses EXCEPT ![worker[w].link] = 1]
  BY <1>2 DEF ResetPassword
<1> QED
  BY <1>1, <1>2, <1>3, <1>4 DEF Promise!Use

(* Every step is a step of ResetLink or changes nothing of the links.      *)
LEMMA StepIsPromised ==
  ASSUME InTurn, [Next]_vars
  PROVE  Promise!Next \/ UNCHANGED Promise!links
<1>1. ASSUME NEW w \in Workers, IssueLink(w) PROVE Promise!Next
  BY <1>1, InsertIsIssue DEF Promise!Next
<1>2. ASSUME NEW w \in Workers, ResetPassword(w) PROVE Promise!Next
  BY <1>2, ResetIsUse DEF Promise!Next
<1>3. CASE UNCHANGED table
  BY <1>3 DEF table, Promise!links, Open, Links, Recent
<1>4. CASE Tick
  <2>1. \A w \in Workers : ~IssueLink(w)
    BY <1>4, ResetAssumption DEF Tick, IssueLink, InTurn, Sound, TypeOK
  <2>2. /\ Cardinality(Recent) \in Nat /\ Cardinality(Recent') \in Nat
        /\ Cardinality(Recent') <= Cardinality(Recent)
    BY <2>1, RecentFinite, RecentStep DEF InTurn, Sound
  <2>3. Cardinality(Recent') = Cardinality(Recent)
          \/ Cardinality(Recent') \in 0 .. Cardinality(Recent) - 1
    BY <2>2
  <2>4. Open' = Open /\ uses' = uses
    BY <1>4 DEF Tick, Open, Links
  <2> QED
    BY <2>3, <2>4 DEF Promise!Next, Promise!Move, Promise!links
<1> QED
  BY <1>1, <1>2, <1>3, <1>4
  DEF Next, vars, RequestReset, CountRecent, Spend, Spends, CheckLink, ChangeStatus, table

(* Nothing is issued at the start.                                         *)
LEMMA StartIsPromised == Init => Promise!Init
<1> SUFFICES ASSUME Init PROVE Promise!Init
  OBVIOUS
<1>1. Open = {} /\ Recent = {}
  BY DEF Init, Open, Links, Recent
<1>2. Cardinality(Recent) = 0
  BY <1>1, FS_EmptySet
<1> QED
  BY <1>1, <1>2 DEF Init, Promise!Init

(* Until two requests overlap, the statements of a request amount to one   *)
(* step of ResetLink or to none, for any number of threads.                *)
THEOREM RequestsImplementResetLink == Spec => LinksInTurn
<1>1. SerialInv /\ [Next]_vars => [~overlapped => Promise!Next \/ UNCHANGED Promise!links]_vars
  BY StepIsPromised DEF SerialInv
<1> QED
  BY <1>1, StartIsPromised, SerialInvariant, PTL DEF Spec, LinksInTurn

(* So a service that serves one request of an account at a time implements *)
(* ResetLink.                                                              *)
THEOREM InTurnIsResetLink == Spec /\ []~overlapped => Promise!Spec
<1>1. SerialInv /\ ~overlapped /\ [Next]_vars => [Promise!Next]_(Promise!links)
  BY StepIsPromised DEF SerialInv
<1> QED
  BY <1>1, StartIsPromised, SerialInvariant, PTL DEF Spec, Promise!Spec

-----------------------------------------------------------------------------
(* What is left of the limit when requests overlap.  A request that has    *)
(* counted the links and not yet inserted its own is pending: at most all  *)
(* the threads are, and each adds one link.                                *)

Pending == {w \in Workers : worker[w].pc \in {"spend", "commit"} /\ worker[w].link = 0}

FewPending ==
  Cardinality(Recent) + Cardinality(Pending) < MAX_REQUESTS_PER_WINDOW + Cardinality(Workers)

LEMMA ThreadsFinite ==
  ASSUME NEW S, S \subseteq Workers
  PROVE  IsFiniteSet(S) /\ Cardinality(S) \in Nat /\ Cardinality(S) <= Cardinality(Workers)
BY ResetAssumption, FS_Subset, FS_CardinalityType

(* Only a count that was low enough makes a request pending, and its       *)
(* insert ends that.                                                       *)
LEMMA PendingStep ==
  ASSUME TypeOK, [Next]_vars
  PROVE  \/ Pending' \subseteq Pending /\ \A w \in Workers : ~IssueLink(w)
         \/ Recent' = Recent /\ Cardinality(Recent) < MAX_REQUESTS_PER_WINDOW
         \/ \E w \in Pending : Pending' \subseteq Pending \ {w}
<1>1. ASSUME NEW w \in Workers, UNCHANGED worker \/ worker'[w].pc \in {"idle", "count"} \/ worker'[w].link # 0,
             \A v \in Workers : v # w => worker'[v] = worker[v]
      PROVE  Pending' \subseteq Pending
  BY <1>1 DEF Pending
<1>2. ASSUME NEW w \in Workers,
             \/ RequestReset(w) \/ CountRecent(w) \/ Spend(w) \/ IssueLink(w) \/ ResetPassword(w)
             \/ \E l \in LinkIds : CheckLink(w, l)
      PROVE  \A v \in Workers : v # w => worker'[v] = worker[v]
  BY <1>2 DEF TypeOK, RequestReset, CountRecent, Spend, Spends, IssueLink, ResetPassword,
     CheckLink, Start, Done
<1>3. ASSUME NEW w \in Workers, NEW v \in Workers, IssueLink(v) PROVE worker[v].pc = "commit" /\ issued' # issued
  BY <1>3, ResetAssumption DEF IssueLink, TypeOK
<1>4. ASSUME NEW w \in Workers, RequestReset(w) PROVE Pending' \subseteq Pending
  <2>1. worker'[w].pc = "count"
    BY <1>4 DEF RequestReset, Start, TypeOK
  <2> QED
    BY <1>1, <1>2, <1>4, <2>1
<1>5. ASSUME NEW w \in Workers, NEW l \in LinkIds, CheckLink(w, l) PROVE Pending' \subseteq Pending
  <2>1. worker'[w].link # 0
    BY <1>5 DEF CheckLink, Start, TypeOK, LinkIds
  <2> QED
    BY <1>1, <1>2, <1>5, <2>1
<1>6. ASSUME NEW w \in Workers, ResetPassword(w) PROVE Pending' \subseteq Pending
  <2>1. worker'[w].pc = "idle"
    BY <1>6 DEF ResetPassword, Done, TypeOK, Idle
  <2> QED
    BY <1>1, <1>2, <1>6, <2>1
<1>7. ASSUME NEW w \in Workers, Spend(w) PROVE Pending' \subseteq Pending
  <2>1. worker[w] \in Serving /\ worker[w].pc = "spend"
    BY <1>7, WorkerHolds DEF Spend, Spends
  <2>2. worker'[w].link = worker[w].link
    BY <1>7, <2>1 DEF Spend, Spends, TypeOK, Serving
  <2> QED
    BY <1>2, <1>7, <2>1, <2>2 DEF Pending
<1>8. ASSUME NEW w \in Workers, CountRecent(w)
      PROVE  \/ Pending' \subseteq Pending
             \/ Recent' = Recent /\ Cardinality(Recent) < MAX_REQUESTS_PER_WINDOW
  <2>1. CASE Done(w)
    <3>1. worker'[w].pc = "idle"
      BY <2>1 DEF Done, TypeOK, Idle
    <3> QED
      BY <1>1, <1>2, <1>8, <3>1
  <2>2. CASE ~(Cardinality(Recent) >= MAX_REQUESTS_PER_WINDOW)
    <3>1. Recent' = Recent
      BY <1>8 DEF CountRecent, Recent, Links, table
    <3> QED
      BY <2>2, <3>1, RecentFinite, ResetAssumption
  <2> QED
    BY <1>8, <2>1, <2>2 DEF CountRecent
<1>9. ASSUME NEW w \in Workers, IssueLink(w)
      PROVE  w \in Pending /\ Pending' \subseteq Pending \ {w}
  <2>1. worker'[w].pc = "idle"
    BY <1>9 DEF IssueLink, Done, TypeOK, Idle
  <2> QED
    BY <1>2, <1>9, <2>1 DEF Pending, IssueLink
<1>10. CASE Tick
  <2>1. ASSUME NEW w \in Workers, worker[w] \in Serving
        PROVE  worker'[w].pc = worker[w].pc \/ worker'[w] = Idle
    BY <1>10, <2>1 DEF Tick, Serving
  <2>2. ASSUME NEW w \in Workers, worker[w] \in Serving
        PROVE  worker'[w].link = worker[w].link \/ worker'[w] = Idle
    BY <1>10, <2>2 DEF Tick, Serving
  <2>3. \A w \in Workers : worker[w] = Idle => worker'[w] = Idle
    BY <1>10 DEF Tick
  <2>4. Pending' \subseteq Pending
    BY <2>1, <2>2, <2>3 DEF TypeOK, Pending, Idle
  <2>5. issued' = issued
    BY <1>10 DEF Tick
  <2> QED
    BY <1>3, <2>4, <2>5
<1>11. CASE UNCHANGED <<worker, issued>>
  BY <1>3, <1>11 DEF Pending
<1>12. ASSUME UNCHANGED issued PROVE \A w \in Workers : ~IssueLink(w)
  BY <1>3, <1>12
<1>13. ASSUME NEW w \in Workers,
              \/ RequestReset(w) \/ CountRecent(w) \/ Spend(w) \/ ResetPassword(w)
              \/ \E l \in LinkIds : CheckLink(w, l)
       PROVE  UNCHANGED issued
  BY <1>13 DEF RequestReset, CountRecent, Spend, Spends, ResetPassword, CheckLink, table
<1> QED
  BY <1>4, <1>5, <1>6, <1>7, <1>8, <1>9, <1>10, <1>11, <1>12, <1>13 DEF Next, vars, ChangeStatus, table

(* One more recent link for one pending request less is no more in sum.    *)
LEMMA Exchange ==
  ASSUME NEW r \in Nat, NEW s \in Nat, NEW p \in Nat, NEW q \in Nat, NEW m \in Nat,
         r + p < m, (s <= r /\ q <= p) \/ (s <= r + 1 /\ q <= p - 1)
  PROVE  s + q < m
OBVIOUS

LEMMA FewPendingStep ==
  ASSUME TypeOK, FewPending, [Next]_vars
  PROVE  FewPending'
<1> DEFINE R == Cardinality(Recent)
           P == Cardinality(Pending)
           W == Cardinality(Workers)
<1>1. R \in Nat /\ R' \in Nat
  BY RecentFinite, RecentStep
<1>2. Pending \subseteq Workers /\ Pending' \subseteq Workers
  BY DEF Pending
<1>3. IsFiniteSet(Pending) /\ P \in Nat /\ P <= W
  BY <1>2, ThreadsFinite
<1>4. P' \in Nat /\ P' <= W
  BY <1>2, ThreadsFinite
<1>5. W \in Nat
  BY ThreadsFinite
<1>6. MAX_REQUESTS_PER_WINDOW + W \in Nat
  BY <1>5, ResetAssumption
<1>7. CASE Pending' \subseteq Pending /\ \A w \in Workers : ~IssueLink(w)
  <2>1. P' <= P
    BY <1>3, <1>7, FS_Subset
  <2>2. R' <= R
    BY <1>7, RecentStep
  <2> QED
    BY <1>1, <1>3, <1>4, <1>6, <2>1, <2>2, Exchange DEF FewPending
<1>8. CASE Recent' = Recent /\ R < MAX_REQUESTS_PER_WINDOW
  <2>1. R' = R
    BY <1>8
  <2> HIDE DEF P, W
  <2> QED
    BY <1>1, <1>4, <1>5, <1>8, <2>1, ResetAssumption DEF FewPending, P, W
<1>9. ASSUME NEW w \in Pending, Pending' \subseteq Pending \ {w} PROVE FewPending'
  <2>1. IsFiniteSet(Pending \ {w}) /\ Cardinality(Pending \ {w}) = P - 1
    BY <1>3, FS_RemoveElement
  <2>2. P' <= P - 1
    BY <1>9, <2>1, FS_Subset
  <2>3. R' <= R + 1
    BY <1>1, RecentStep
  <2> QED
    BY <1>1, <1>3, <1>4, <1>6, <2>2, <2>3, Exchange DEF FewPending
<1> QED
  BY <1>7, <1>8, <1>9, PendingStep

(* Overlapping requests issue at most one link too many per additional     *)
(* thread (_issue_token, the count and the insert apart).                  *)
THEOREM LimitNearlyKept == Spec => []NearLimit
<1>1. Init => TypeOK /\ FewPending
  <2> SUFFICES ASSUME Init PROVE FewPending
    BY SoundInit DEF Sound
  <2>1. Recent = {} /\ Pending = {}
    BY DEF Init, Recent, Links, Pending, Idle
  <2>2. Cardinality(Workers) \in Nat
    BY ThreadsFinite
  <2> QED
    BY <2>1, <2>2, FS_EmptySet, ResetAssumption DEF FewPending
<1>2. TypeOK /\ FewPending => NearLimit
  <2> SUFFICES ASSUME TypeOK, FewPending PROVE NearLimit
    OBVIOUS
  <2>1. Cardinality(Recent) \in Nat /\ Cardinality(Workers) \in Nat
    BY RecentFinite, ThreadsFinite
  <2>2. Pending \subseteq Workers
    BY DEF Pending
  <2>3. Cardinality(Pending) \in Nat
    BY <2>2, ThreadsFinite
  <2> QED
    BY <2>1, <2>3, ResetAssumption DEF FewPending, NearLimit
<1>3. TypeOK /\ FewPending /\ [Next]_vars => FewPending'
  BY FewPendingStep
<1> QED
  BY <1>1, <1>2, <1>3, TypeCorrect, PTL DEF Spec

-----------------------------------------------------------------------------
(* What is left of "only the newest link works" when requests overlap.     *)
(* Every open link can be given a thread of its own that issued it, such   *)
(* that whatever the thread commits next spends that link.                 *)

Issuers ==
  {f \in [Open -> Workers] :
     \A l \in Open :
       /\ worker[f[l]].pc = "commit" => l \in worker[f[l]].spends
       /\ \A k \in Open : f[k] = f[l] => k = l}

HasIssuers == \E f \in [Open -> Workers] : f \in Issuers

(* A request that leaves the table alone leaves the issuers as they are.   *)
LEMMA IssuersStay ==
  ASSUME TypeOK, NEW f \in [Open -> Workers], f \in Issuers, UNCHANGED <<issued, spent>>,
         \A v \in Workers : worker'[v].pc = "commit" =>
           \/ worker[v].pc = "commit" /\ worker'[v].spends = worker[v].spends
           \/ worker'[v].spends = Open
  PROVE  f \in [Open' -> Workers] /\ f \in Issuers'
<1>1. Open' = Open
  BY DEF Open, Links
<1> QED
  BY <1>1 DEF Issuers

(* The commit of v spends links and issues at most one.                    *)
LEMMA IssuersMove ==
  ASSUME NEW f \in [Open -> Workers], f \in Issuers, NEW v \in Workers, NEW new,
         new \notin Open, worker[v].pc = "commit", worker'[v] = Idle,
         \A u \in Workers : u # v => worker'[u] = worker[u],
         Open' \subseteq (Open \ worker[v].spends) \cup {new}
  PROVE  HasIssuers'
<1> DEFINE g == [l \in Open' |-> IF l = new THEN v ELSE f[l]]
<1>1. ASSUME NEW l \in Open', l # new PROVE l \in Open /\ f[l] \in Workers /\ f[l] # v
  BY <1>1 DEF Issuers
<1>2. g \in [Open' -> Workers]
  BY <1>1
<1>3. ASSUME NEW l \in Open', worker'[g[l]].pc = "commit" PROVE l \in worker'[g[l]].spends
  <2>1. l # new
    BY <1>3 DEF Idle
  <2>2. l \in Open /\ f[l] # v /\ worker'[f[l]] = worker[f[l]] /\ g[l] = f[l]
    BY <1>1, <2>1
  <2> QED
    BY <1>3, <2>2 DEF Issuers
<1>4. ASSUME NEW l \in Open', NEW k \in Open', g[k] = g[l] PROVE k = l
  <2>1. CASE k = new \/ l = new
    BY <1>1, <1>4, <2>1
  <2>2. CASE k # new /\ l # new
    <3>1. k \in Open /\ l \in Open /\ f[k] = f[l]
      BY <1>1, <1>4, <2>2
    <3> QED
      BY <3>1 DEF Issuers
  <2> QED
    BY <2>1, <2>2
<1> HIDE DEF g
<1>5. g \in Issuers'
  BY <1>2, <1>3, <1>4 DEF Issuers
<1> QED
  BY <1>2, <1>5 DEF HasIssuers

LEMMA HasIssuersStep ==
  ASSUME Sound, HasIssuers, [Next]_vars
  PROVE  HasIssuers'
<1> PICK f \in [Open -> Workers] : f \in Issuers
  BY DEF HasIssuers
<1>1. ASSUME UNCHANGED <<issued, spent>>,
             \A v \in Workers : worker'[v].pc = "commit" =>
               \/ worker[v].pc = "commit" /\ worker'[v].spends = worker[v].spends
               \/ worker'[v].spends = Open
      PROVE  HasIssuers'
  BY <1>1, IssuersStay DEF Sound, HasIssuers
<1>2. ASSUME NEW w \in Workers, IssueLink(w) PROVE HasIssuers'
  <2>1. Open' \subseteq (Open \ worker[w].spends) \cup {issued + 1}
    BY <1>2, ResetAssumption DEF Sound, TypeOK, IssueLink, Open, Links
  <2>2. issued + 1 \notin Open
    BY ResetAssumption DEF Sound, TypeOK, Open, Links
  <2> QED
    BY <1>2, <2>1, <2>2, IssuersMove DEF Sound, TypeOK, IssueLink, Done
<1>3. ASSUME NEW w \in Workers, ResetPassword(w) PROVE HasIssuers'
  <2>1. Open' \subseteq (Open \ worker[w].spends) \cup {issued + 1}
    BY <1>3 DEF ResetPassword, Open, Links
  <2>2. issued + 1 \notin Open
    BY ResetAssumption DEF Sound, TypeOK, Open, Links
  <2> QED
    BY <1>3, <2>1, <2>2, IssuersMove DEF Sound, TypeOK, ResetPassword, Done
<1>4. ASSUME NEW w \in Workers, RequestReset(w) \/ CountRecent(w) \/ \E l \in LinkIds : CheckLink(w, l)
      PROVE  HasIssuers'
  <2>1. worker'[w].pc # "commit"
    <3>1. CASE CountRecent(w)
      <4>1. worker[w] \in Serving
        BY <3>1, WorkerHolds DEF CountRecent, Sound
      <4> QED
        BY <3>1, <4>1 DEF CountRecent, Done, Idle, Sound, TypeOK, Serving
    <3>2. CASE RequestReset(w) \/ \E l \in LinkIds : CheckLink(w, l)
      BY <3>2 DEF RequestReset, CheckLink, Start, Sound, TypeOK
    <3> QED
      BY <1>4, <3>1, <3>2
  <2>2. \A v \in Workers : v # w => worker'[v] = worker[v]
    BY <1>4 DEF RequestReset, CheckLink, CountRecent, Start, Done, Sound, TypeOK
  <2>3. UNCHANGED <<issued, spent>>
    BY <1>4 DEF RequestReset, CheckLink, CountRecent, table
  <2> QED
    BY <1>1, <2>1, <2>2, <2>3
<1>5. ASSUME NEW w \in Workers, Spend(w) PROVE HasIssuers'
  <2>1. worker[w] \in Serving
    BY <1>5, WorkerHolds DEF Spend, Spends, Sound
  <2>2. worker'[w].spends = Open
    BY <1>5, <2>1 DEF Spend, Spends, Sound, TypeOK, Serving
  <2>3. \A v \in Workers : v # w => worker'[v] = worker[v]
    BY <1>5 DEF Spend, Spends, Sound, TypeOK
  <2>4. UNCHANGED <<issued, spent>>
    BY <1>5 DEF Spend, Spends, table
  <2> QED
    BY <1>1, <2>2, <2>3, <2>4
<1>6. CASE Tick
  <2>1. ASSUME NEW v \in Workers, worker'[v].pc = "commit"
        PROVE  worker[v].pc = "commit" /\ worker'[v].spends = worker[v].spends
    <3>1. worker[v] # Idle /\ worker[v] \in Serving
      BY <1>6, <2>1 DEF Tick, Idle, Sound, TypeOK
    <3> QED
      BY <1>6, <2>1, <3>1 DEF Tick, Serving
  <2>2. UNCHANGED <<issued, spent>>
    BY <1>6 DEF Tick
  <2> QED
    BY <1>1, <2>1, <2>2
<1>7. CASE UNCHANGED <<worker, issued, spent>>
  BY <1>1, <1>7
<1> QED
  BY <1>2, <1>3, <1>4, <1>5, <1>6, <1>7 DEF Next, vars, ChangeStatus, table

(* Overlapping requests leave at most one open link per thread: what a     *)
(* request does not spend was issued while it was being served.            *)
THEOREM OpenLinksFew == Spec => []FewOpen
<1>1. Init => HasIssuers
  <2> SUFFICES ASSUME Init PROVE HasIssuers
    OBVIOUS
  <2>1. Open = {}
    BY DEF Init, Open, Links
  <2> DEFINE f == [l \in Open |-> CHOOSE w \in Workers : TRUE]
  <2>2. f \in [Open -> Workers] /\ f \in Issuers
    BY <2>1 DEF Issuers
  <2> QED
    BY <2>2 DEF HasIssuers
<1>2. HasIssuers => FewOpen
  <2> SUFFICES ASSUME HasIssuers PROVE FewOpen
    OBVIOUS
  <2> PICK f \in [Open -> Workers] : f \in Issuers
    BY DEF HasIssuers
  <2>1. f \in Injection(Open, Workers)
    BY DEF Issuers, Injection, IsInjective
  <2> QED
    BY <2>1, ResetAssumption, FS_Injection DEF FewOpen
<1>3. Sound /\ HasIssuers /\ [Next]_vars => HasIssuers'
  BY HasIssuersStep
<1> QED
  BY <1>1, <1>2, <1>3, SoundInvariant, PTL DEF Spec
-----------------------------------------------------------------------------
(* What is left of "a token works once" when requests overlap.  A thread   *)
(* that holds a link will set a password with it; a link is spent by the   *)
(* first commit, after which no further thread can get hold of it.         *)

Holders(l) == {w \in Workers : worker[w].pc \in {"spend", "commit"} /\ worker[w].link = l}

(* A thread with a link saw it open, so what it spends includes it.        *)
OwnIsOlder ==
  \A w \in Workers :
    worker[w].pc \in {"spend", "commit"} /\ worker[w].link # 0 => worker[w].link \in worker[w].older

CountHasNoLink == \A w \in Workers : worker[w].pc = "count" => worker[w].link = 0

FewUsers ==
  \A l \in LinkIds :
    uses[l] = 0 \/ (l \in spent /\ uses[l] + Cardinality(Holders(l)) <= Cardinality(Workers))

UsesInv == OlderClosing /\ OwnIsOlder /\ CountHasNoLink /\ FewUsers

(* What a step does to the link a thread holds: it keeps it, checks it, or *)
(* is done with it.                                                        *)
LEMMA LinkMoves ==
  ASSUME Sound, CountHasNoLink, [Next]_vars, NEW v \in Workers
  PROVE  \/ worker'[v] = Idle
         \/ /\ worker'[v].pc = "count" /\ worker'[v].link = 0
         \/ /\ worker'[v].pc = "spend" /\ worker'[v].link = 0
         \/ /\ worker'[v].pc = "spend" /\ UNCHANGED table
            /\ worker'[v].link \in Open /\ worker'[v].older = Open
         \/ /\ worker[v].pc \in {"spend", "commit"} /\ worker'[v].pc \in {"spend", "commit"}
            /\ worker'[v].link = worker[v].link
            /\ worker'[v].older = worker[v].older
<1>1. CASE worker'[v] = worker[v]
  BY <1>1 DEF Sound, TypeOK, Serving, Idle, CountHasNoLink
<1>2. ASSUME NEW w \in Workers, w # v,
             \/ RequestReset(w) \/ CountRecent(w) \/ Spend(w) \/ IssueLink(w) \/ ResetPassword(w)
             \/ \E l \in LinkIds : CheckLink(w, l)
      PROVE  worker'[v] = worker[v]
  BY <1>2 DEF RequestReset, CountRecent, Spend, Spends, IssueLink, ResetPassword, CheckLink, Start,
         Done, Sound, TypeOK
<1>3. CASE RequestReset(v)
  BY <1>3 DEF RequestReset, Start, Sound, TypeOK
<1>4. CASE CountRecent(v)
  <2>1. worker[v] \in Serving /\ worker[v].link = 0
    BY <1>4, WorkerHolds DEF CountRecent, Sound, CountHasNoLink
  <2>2. worker'[v] = Idle \/ worker'[v] = [worker[v] EXCEPT !.pc = "spend", !.since = 0]
    BY <1>4 DEF CountRecent, Done, Sound, TypeOK
  <2> QED
    BY <2>1, <2>2 DEF Serving
<1>5. ASSUME NEW l \in LinkIds, CheckLink(v, l)
      PROVE  /\ worker'[v].pc = "spend" /\ UNCHANGED table
             /\ worker'[v].link \in Open /\ worker'[v].older = Open
  BY <1>5 DEF CheckLink, Start, Sound, TypeOK
<1>6. CASE Spend(v)
  <2>1. worker[v] \in Serving /\ worker[v].pc = "spend"
    BY <1>6, WorkerHolds DEF Spend, Spends, Sound
  <2>2. worker'[v] = [worker[v] EXCEPT !.pc = "commit", !.spends = Open]
    BY <1>6 DEF Spend, Spends, Sound, TypeOK
  <2> QED
    BY <2>1, <2>2 DEF Serving
<1>7. CASE IssueLink(v) \/ ResetPassword(v)
  BY <1>7 DEF IssueLink, ResetPassword, Done, Sound, TypeOK
<1>8. CASE Tick
  <2>1. CASE worker[v] = Idle
    BY <1>8, <2>1 DEF Tick
  <2>2. CASE worker[v] \in Serving /\ worker[v] # Idle
    <3>1. worker'[v] = [worker[v] EXCEPT !.since = Older(@)]
      BY <1>8, <2>2 DEF Tick
    <3> QED
      BY <2>2, <3>1 DEF Serving, CountHasNoLink
  <2> QED
    BY <2>1, <2>2 DEF Sound, TypeOK
<1> QED
  BY <1>1, <1>2, <1>3, <1>4, <1>5, <1>6, <1>7, <1>8 DEF Next, vars, ChangeStatus

(* Nobody gets hold of a spent link.                                       *)
LEMMA HoldersStay ==
  ASSUME Sound, CountHasNoLink, [Next]_vars, NEW l \in LinkIds, l \notin Open
  PROVE  Holders(l)' \subseteq Holders(l)
<1>1. l # 0
  BY DEF LinkIds
<1> QED
  BY <1>1, LinkMoves DEF Holders, Idle

(* The commit of a reset is the last its thread does with its link.        *)
LEMMA HolderLeaves ==
  ASSUME Sound, NEW w \in Workers, ResetPassword(w)
  PROVE  /\ w \in Holders(worker[w].link)
         /\ w \notin Holders(worker[w].link)'
BY DEF ResetPassword, Done, Holders, Sound, TypeOK, Idle

LEMMA HoldersFinite ==
  ASSUME NEW l
  PROVE  /\ Holders(l) \subseteq Workers /\ Holders(l)' \subseteq Workers
         /\ IsFiniteSet(Holders(l)) /\ IsFiniteSet(Holders(l)')
         /\ Cardinality(Holders(l)) \in Nat /\ Cardinality(Holders(l)') \in Nat
         /\ Cardinality(Workers) \in Nat
         /\ Cardinality(Holders(l)) <= Cardinality(Workers)
<1>1. Holders(l) \subseteq Workers /\ Holders(l)' \subseteq Workers
  BY DEF Holders
<1> QED
  BY <1>1, ThreadsFinite

(* Every use of a link costs one of the threads that hold it, and the      *)
(* first closes it to the others.                                          *)
LEMMA FewUsersStep ==
  ASSUME Sound, UsesInv, [Next]_vars
  PROVE  FewUsers'
<1> SUFFICES ASSUME NEW l \in LinkIds, uses'[l] # 0
             PROVE  l \in spent' /\ uses'[l] + Cardinality(Holders(l)') <= Cardinality(Workers)
  BY DEF FewUsers
<1> DEFINE H == Cardinality(Holders(l))
           W == Cardinality(Workers)
<1>1. H \in Nat /\ H' \in Nat /\ W \in Nat /\ H <= W
  BY HoldersFinite
<1>2. uses[l] \in Nat
  BY DEF Sound, TypeOK
<1>3. ASSUME l \in spent PROVE l \in spent' /\ H' <= H
  <2>1. l \notin Open /\ l \in spent'
    BY <1>3, OnlyGrows DEF Open, Sound
  <2>2. Holders(l)' \subseteq Holders(l)
    BY <2>1, HoldersStay DEF UsesInv
  <2> QED
    BY <2>1, <2>2, HoldersFinite, FS_Subset
<1>4. CASE uses'[l] = uses[l]
  <2>1. l \in spent /\ uses[l] + H <= W
    BY <1>4 DEF UsesInv, FewUsers
  <2>2. l \in spent' /\ H' <= H
    BY <1>3, <2>1
  <2> HIDE DEF H, W
  <2>3. uses'[l] + H' <= W
    BY <1>1, <1>2, <1>4, <2>1, <2>2
  <2> QED
    BY <2>2, <2>3 DEF H, W
<1>5. ASSUME NEW w \in Workers, ResetPassword(w), worker[w].link = l
      PROVE  l \in spent' /\ uses'[l] + Cardinality(Holders(l)') <= Cardinality(Workers)
  <2>1. uses'[l] = uses[l] + 1
    BY <1>5 DEF ResetPassword, Sound, TypeOK
  <2>2. l \in spent'
    BY <1>5 DEF ResetPassword, UsesInv, OwnIsOlder, OlderClosing
  <2>3. Holders(l)' \subseteq Holders(l) \ {w}
    <3>1. \A v \in Workers : v # w => worker'[v] = worker[v]
      BY <1>5 DEF ResetPassword, Done, Sound, TypeOK
    <3> QED
      BY <1>5, <3>1, HolderLeaves DEF Holders
  <2>4. H' <= H - 1
    <3>1. w \in Holders(l)
      BY <1>5, HolderLeaves
    <3>2. IsFiniteSet(Holders(l) \ {w}) /\ Cardinality(Holders(l) \ {w}) = H - 1
      BY <3>1, HoldersFinite, FS_RemoveElement
    <3> QED
      BY <2>3, <3>2, FS_Subset
  <2>5. uses[l] = 0 \/ uses[l] + H <= W
    BY DEF UsesInv, FewUsers
  <2> HIDE DEF H, W
  <2>6. uses'[l] + H' <= W
    BY <1>1, <1>2, <2>1, <2>4, <2>5
  <2> QED
    BY <2>2, <2>6 DEF H, W
<1>6. ASSUME NEW w \in Workers, ResetPassword(w), worker[w].link # l PROVE uses'[l] = uses[l]
  BY <1>6 DEF ResetPassword, Sound, TypeOK
<1>7. UNCHANGED uses => uses'[l] = uses[l]
  OBVIOUS
<1> HIDE DEF H, W
<1> QED
  BY <1>4, <1>5, <1>6, <1>7
  DEF Next, vars, RequestReset, CountRecent, Spend, Spends, IssueLink, CheckLink, Tick,
      ChangeStatus, table

(* "A token works once", for any number of threads and whatever overlaps:  *)
(* a link sets at most as many passwords as threads checked it before the  *)
(* first of them committed.                                                *)
THEOREM LinkUsesFew == Spec => []FewUses
<1>1. Init => UsesInv
  BY DEF Init, UsesInv, OlderClosing, OwnIsOlder, CountHasNoLink, FewUsers, Idle
<1>2. ASSUME Sound, UsesInv, [Next]_vars PROVE UsesInv'
  <2>1. OlderClosing'
    BY <1>2, OlderClosingStep DEF UsesInv
  <2>2. OwnIsOlder'
    <3> SUFFICES ASSUME NEW v \in Workers,
                        worker'[v].pc \in {"spend", "commit"}, worker'[v].link # 0
                 PROVE  worker'[v].link \in worker'[v].older
      BY DEF OwnIsOlder
    <3>1. worker'[v] # Idle
      BY DEF Idle
    <3> QED
      BY <1>2, <3>1, LinkMoves DEF UsesInv, OwnIsOlder
  <2>3. CountHasNoLink'
    <3> SUFFICES ASSUME NEW v \in Workers, worker'[v].pc = "count"
                 PROVE  worker'[v].link = 0
      BY DEF CountHasNoLink
    <3>1. worker'[v] # Idle
      BY DEF Idle
    <3> QED
      BY <1>2, <3>1, LinkMoves DEF UsesInv
  <2> QED
    BY <1>2, <2>1, <2>2, <2>3, FewUsersStep DEF UsesInv
<1>3. Sound /\ UsesInv => FewUses
  <2> SUFFICES ASSUME Sound, UsesInv, NEW l \in LinkIds PROVE uses[l] <= Cardinality(Workers)
    BY DEF FewUses
  <2>1. uses[l] = 0 \/ uses[l] + Cardinality(Holders(l)) <= Cardinality(Workers)
    BY DEF UsesInv, FewUsers
  <2>2. uses[l] \in Nat
    BY DEF Sound, TypeOK
  <2> QED
    BY <2>1, <2>2, HoldersFinite
<1>4. Sound /\ UsesInv /\ [Next]_vars => UsesInv'
  BY <1>2
<1> QED
  BY <1>1, <1>3, <1>4, SoundInvariant, PTL DEF Spec
=============================================================================
