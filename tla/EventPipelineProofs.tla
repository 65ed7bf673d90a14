-------------------------- MODULE EventPipelineProofs --------------------------
(***************************************************************************)
(* Theorems about EventPipeline: any markets, scores and bets, any number  *)
(* of walks, any bound.  The type invariant holds under every fault; the   *)
(* others say which faults they exclude.                                   *)
(***************************************************************************)
EXTENDS EventPipeline, SettlementRulesProofs

-------------------------------------------------------------------------------
(***************************************************************************)
(* What the operators of the model return.                                 *)
(***************************************************************************)

\* The selections of an event are a function from markets to their sides.
SelGood(s) ==
  /\ DOMAIN s \subseteq Markets
  /\ s = [m \in DOMAIN s |-> s[m]]
  /\ \A m \in DOMAIN s : s[m] \in [Sides(m) -> RowType]

LEMMA SelGoodTyped == ASSUME NEW s, SelGood(s) PROVE s \in SelType
<1>1. \A m \in DOMAIN s : s[m] \in UNION {[Sides(n) -> RowType] : n \in Markets}
  BY DEF SelGood
<1>2. s \in [DOMAIN s -> UNION {[Sides(n) -> RowType] : n \in Markets}]
  BY <1>1 DEF SelGood
<1>3. DOMAIN s \in SUBSET Markets
  BY DEF SelGood
<1> QED BY <1>2, <1>3 DEF SelType

LEMMA TranslatedType ==
  ASSUME NEW p \in Listed
  PROVE  /\ Translated(p) \in EventType
         /\ Translated(p).score = p.score
         /\ Translated(p).final <=> p.says = "final"
         /\ Translated(p).status = "finished" <=> p.says = "final"
         /\ Translated(p).status = "canceled" <=> p.says = "void"
         /\ Translated(p).status = "notstarted" <=> p.says = "pending"
         /\ p.says # "final" => p.score = None
         /\ p.says = "final" => p.score \in Scores
         /\ p \in Ends <=> p.says # "pending"
BY DEF Listed, Ends, Translated, EventType

LEMMA MergedType ==
  ASSUME NEW row \in EventType, NEW copy \in EventType \cup {None}, NEW new \in EventType
  PROVE  /\ Merged(row, copy, new) \in EventType
         /\ row = copy => Merged(row, copy, new) = new
<1>1. CASE copy = None
  BY <1>1, PipelineAssumption DEF Merged
<1>2. CASE copy # None
  <2>1. DOMAIN new = {"status", "score", "final"}
    BY DEF EventType
  <2>2. Merged(row, copy, new) =
          [c \in {"status", "score", "final"} |-> IF new[c] = copy[c] THEN row[c] ELSE new[c]]
    BY <1>2, <2>1 DEF Merged
  <2> DEFINE r == Merged(row, copy, new)
  <2>3. r.status \in {row.status, new.status} /\ r.score \in {row.score, new.score}
    BY <2>2
  <2>4. r.final \in {row.final, new.final}
    BY <2>2
  <2>5. r = [status |-> r.status, score |-> r.score, final |-> r.final]
    BY <2>2
  <2>6. r.status \in {"notstarted", "finished", "canceled"} /\ r.score \in Scores \cup {None}
    BY <2>3 DEF EventType
  <2>7. r.final \in BOOLEAN
    BY <2>4 DEF EventType
  <2>8. r \in EventType
    BY <2>5, <2>6, <2>7 DEF EventType
  <2>9. ASSUME row = copy PROVE r = new
    BY <2>1, <2>2, <2>9 DEF EventType
  <2> QED BY <2>8, <2>9
<1> QED BY <1>1, <1>2

\* What prices do to the selections: none of them is settled anew.
LEMMA OfferedKeeps ==
  ASSUME SelGood(sel), NEW M \in SUBSET Markets
  PROVE  /\ SelGood(Offered(M))
         /\ DOMAIN Offered(M) = DOMAIN sel \cup M
         /\ \A m \in DOMAIN sel : Offered(M)[m] = sel[m]
<1>1. \A m \in Markets : [side \in Sides(m) |-> NewSelection] \in [Sides(m) -> RowType]
  BY DEF NewSelection, RowType, Statuses, Sources
<1> QED BY <1>1 DEF Offered, SelGood

AllDecided(s) == \A m \in DOMAIN s : \A side \in DOMAIN s[m] : s[m][side].status # "PENDING"

\* A settlement that is there stays as it is.
Keeps(s, t) ==
  \A m \in DOMAIN s \cap DOMAIN t : \A side \in DOMAIN s[m] :
    s[m][side].status # "PENDING" => t[m][side] = s[m][side]

LEMMA FinalSelDecides ==
  ASSUME NEW s, SelGood(s), NEW score \in Scores \cup {None}
  PROVE  /\ SelGood(FinalSel(s, score)) /\ DOMAIN FinalSel(s, score) = DOMAIN s
         /\ AllDecided(FinalSel(s, score)) /\ Keeps(s, FinalSel(s, score))
<1> DEFINE t == FinalSel(s, score)
<1>1. DOMAIN t = DOMAIN s /\ t = [m \in DOMAIN t |-> t[m]]
  BY DEF FinalSel
<1>2. ASSUME NEW m \in DOMAIN s
      PROVE  /\ t[m] \in [Sides(m) -> RowType]
             /\ \A side \in Sides(m) : t[m][side].status # "PENDING"
             /\ \A side \in Sides(m) : s[m][side].status # "PENDING" => t[m][side] = s[m][side]
  <2>1. m \in MarketType /\ s[m] \in [Sides(m) -> RowType] /\ score \in ScoreType \cup {None}
    BY PipelineAssumption DEF SelGood
  <2> DEFINE u == Settle(s[m], m, score)
  <2>2. /\ u \in [Sides(m) -> RowType]
        /\ \A side \in Sides(m) : s[m][side].status # "PENDING" => u[side] = s[m][side]
    BY <2>1, SettlePass
  <2>3. t[m] = VoidPending(u)
    BY DEF FinalSel
  <2> HIDE DEF u, t
  <2> QED BY <2>2, <2>3, VoidPass
<1> HIDE DEF t
<1>3. \A m \in DOMAIN s : DOMAIN s[m] = Sides(m) /\ DOMAIN t[m] = Sides(m)
  BY <1>2 DEF SelGood
<1>4. SelGood(t)
  BY <1>1, <1>2 DEF SelGood
<1>5. AllDecided(t)
  BY <1>1, <1>2, <1>3 DEF AllDecided
<1>6. Keeps(s, t)
  BY <1>1, <1>2, <1>3 DEF Keeps
<1> QED BY <1>1, <1>4, <1>5, <1>6 DEF t

LEMMA VoidKeeps ==
  ASSUME SelGood(sel)
  PROVE  LET t == [m \in DOMAIN sel |-> VoidPending(sel[m])]
         IN SelGood(t) /\ Keeps(sel, t)
<1> DEFINE t == [m \in DOMAIN sel |-> VoidPending(sel[m])]
<1>1. ASSUME NEW m \in DOMAIN sel
      PROVE  /\ t[m] \in [Sides(m) -> RowType]
             /\ \A side \in Sides(m) : sel[m][side].status # "PENDING" => t[m][side] = sel[m][side]
  BY VoidPass DEF SelGood
<1>2. \A m \in DOMAIN sel : DOMAIN sel[m] = Sides(m)
  BY DEF SelGood
<1>3. DOMAIN t = DOMAIN sel /\ t = [m \in DOMAIN t |-> t[m]]
  OBVIOUS
<1> HIDE DEF t
<1>4. SelGood(t)
  BY <1>1, <1>3 DEF SelGood
<1>5. Keeps(sel, t)
  BY <1>1, <1>2, <1>3 DEF Keeps
<1> QED BY <1>4, <1>5 DEF t

\* What the nightly settlement decides is a verdict on a PENDING row.
LEMMA JudgedRows ==
  ASSUME SelGood(sel), event \in EventType
  PROVE  \A m \in DOMAIN sel :
           /\ Judged[m] \in [Sides(m) -> RowType \cup {None}]
           /\ \A side \in Sides(m) : Judged[m][side] # None => sel[m][side].status = "PENDING"
<1> SUFFICES ASSUME NEW m \in DOMAIN sel
             PROVE  /\ Judged[m] \in [Sides(m) -> RowType \cup {None}]
                    /\ \A side \in Sides(m) :
                         Judged[m][side] # None => sel[m][side].status = "PENDING"
  OBVIOUS
<1>1. m \in MarketType /\ sel[m] \in [Sides(m) -> RowType]
  BY PipelineAssumption DEF SelGood
<1>2. event.score \in ScoreType \cup {None}
  BY PipelineAssumption DEF EventType
<1> DEFINE now == Settle(sel[m], m, event.score)
<1>3. /\ now \in [Sides(m) -> RowType]
      /\ \A side \in Sides(m) : sel[m][side].status # "PENDING" => now[side] = sel[m][side]
  BY <1>1, <1>2, SettlePass
<1>4. Judged[m] = [side \in Sides(m) |-> IF now[side] = sel[m][side] THEN None ELSE now[side]]
  BY DEF Judged
<1> HIDE DEF now
<1> QED BY <1>1, <1>3, <1>4 DEF RowType

\* The UPDATE of what was canceled a week ago.
LEMMA ExpiredKeeps ==
  ASSUME SelGood(sel)
  PROVE  \A m \in DOMAIN sel :
           /\ Expired(m) \in [Sides(m) -> RowType]
           /\ \A side \in Sides(m) :
                sel[m][side].status # "PENDING" => Expired(m)[side] = sel[m][side]
BY VoidPass DEF Expired, SelGood

LEMMA FinalBetsType ==
  ASSUME NEW score \in Scores \cup {None}, bet \in [Bets -> BetType]
  PROVE  /\ FinalBets(score) \in [Bets -> BetType]
         /\ \A b \in Bets \cap AutoSettled : FinalBets(score)[b] # "open"
<1>1. \A b : BetDecision(b, score) \in BetType
  BY DEF BetDecision, BetType
<1>2. \A b \in AutoSettled : BetDecision(b, score) # "open"
  BY DEF BetDecision
<1> QED BY <1>1, <1>2 DEF FinalBets

LEMMA AppendType ==
  ASSUME NEW S, NEW q \in Seq(S), NEW x \in S
  PROVE  Append(q, x) \in Seq(S)
OBVIOUS

\* What is enqueued of an ended event is a row of it.
LEMMA EnqueuedType ==
  ASSUME NEW name \in {"FINALIZED", "VOIDED", "NONE"}, NEW e \in EventType, NEW s, SelGood(s),
         outbox \in Seq(RowOf), name # "NONE" => e.status \in {"finished", "canceled"}
  PROVE  Enqueued(name, e, s) \in Seq(RowOf)
<1>1. CASE name = "NONE"
  BY <1>1 DEF Enqueued
<1>2. CASE name # "NONE"
  <2>1. Row(name, e, s, FALSE) \in RowOf
    BY <1>2, SelGoodTyped DEF Row, RowOf, EventType
  <2> DEFINE row == Row(name, e, s, FALSE)
  <2>2. Enqueued(name, e, s) = outbox \/ Enqueued(name, e, s) = Append(outbox, row)
    BY DEF Enqueued
  <2> HIDE DEF row
  <2>3. Append(outbox, row) \in Seq(RowOf)
    BY <2>1, AppendType DEF row
  <2> QED BY <2>2, <2>3
<1> QED BY <1>1, <1>2

LEMMA TransitionType ==
  ASSUME NEW prev, NEW new
  PROVE  /\ Transition(prev, new) \in {"FINALIZED", "VOIDED", "NONE"}
         /\ Transition(prev, new) = "FINALIZED" => new.status = "finished"
         /\ Transition(prev, new) = "VOIDED" => new.status = "canceled"
BY DEF Transition

-------------------------------------------------------------------------------
(***************************************************************************)
(* Types.                                                                  *)
(***************************************************************************)

\* A walk that is about to write has something to write.
Typed ==
  /\ PipelineTypeOK
  /\ SelGood(sel)
  /\ \A w \in Walkers : walk[w].pc = "write" => walk[w].payload # None

\* A step of walk w that touches no row.
LEMMA WalkTyped ==
  ASSUME Typed, NEW w \in Walkers, NEW rec \in WalkType,
         rec.pc = "write" => rec.payload # None, SetWalk(w, rec)
  PROVE  /\ walk' \in [Walkers -> WalkType]
         /\ \A v \in Walkers : walk'[v].pc = "write" => walk'[v].payload # None
BY DEF Typed, PipelineTypeOK, SetWalk

LEMMA IdleType == Idle \in WalkType /\ Idle.pc = "idle"
BY DEF Idle, WalkType, Modes

LEMMA InitTyped == PipelineInit => Typed
<1> SUFFICES ASSUME PipelineInit PROVE Typed
  OBVIOUS
<1>1. SelGood(<<>>)
  BY DEF SelGood
<1>2. <<>> \in Seq(RowOf)
  OBVIOUS
<1>3. feed \in FeedType /\ age \in AgeType /\ unseen \in 0 .. VoidHours + 1
  BY PipelineAssumption DEF PipelineInit, FeedType, Listed, AgeType
<1>4. walk \in [Walkers -> WalkType] /\ \A w \in Walkers : walk[w].pc # "write"
  BY IdleType DEF PipelineInit
<1>5. bet \in [Bets -> BetType] /\ url \in BOOLEAN
  BY DEF PipelineInit, BetType
<1>6. SelGood(sel) /\ outbox \in Seq(RowOf) /\ event = None /\ dog = None
  BY <1>1, <1>2 DEF PipelineInit
<1>7. DOMAIN fill = {}
  BY DEF PipelineInit
<1> QED BY <1>3, <1>4, <1>5, <1>6, <1>7 DEF Typed, PipelineTypeOK, SelGood

LEMMA FetchTyped ==
  ASSUME Typed, NEW w \in Walkers, NEW mode \in Modes, Fetch(w, mode)
  PROVE  Typed'
<1> DEFINE rec == [Idle EXCEPT !.pc = "read", !.mode = mode, !.inWindow = (age = 0),
                     !.payload = IF feed \in Listed /\ (age = 0 \/ mode = "byHand")
                                 THEN feed ELSE None]
<1>1. Idle \in WalkType
  BY IdleType
<1>2. rec \in WalkType /\ rec.pc = "read"
  BY <1>1 DEF WalkType
<1>3. SetWalk(w, rec)
  BY DEF Fetch
<1> HIDE DEF rec
<1>4. /\ walk' \in [Walkers -> WalkType]
      /\ \A v \in Walkers : walk'[v].pc = "write" => walk'[v].payload # None
  BY <1>2, <1>3, WalkTyped
<1> QED BY <1>4 DEF Fetch, dbVars, Typed, PipelineTypeOK, SelGood

LEMMA ReadTyped ==
  ASSUME Typed, NEW w \in Walkers, Read(w)
  PROVE  Typed'
<1>1. walk[w] \in WalkType /\ event \in EventType \cup {None}
  BY DEF Typed, PipelineTypeOK
<1> DEFINE skip == [walk[w] EXCEPT !.pc = "reconcile"]
           take == [walk[w] EXCEPT !.pc = "write", !.copy = event]
<1>2. skip \in WalkType /\ skip.pc = "reconcile"
  BY <1>1 DEF WalkType
<1>3. take \in WalkType /\ take.payload = walk[w].payload
  BY <1>1 DEF WalkType
<1>4. \/ Skips(w) /\ SetWalk(w, skip)
      \/ ~Skips(w) /\ SetWalk(w, take)
  BY DEF Read
<1>5. ~Skips(w) => take.payload # None
  BY <1>3 DEF Skips
<1> HIDE DEF skip, take
<1>6. /\ walk' \in [Walkers -> WalkType]
      /\ \A v \in Walkers : walk'[v].pc = "write" => walk'[v].payload # None
  BY <1>2, <1>3, <1>4, <1>5, WalkTyped
<1> QED BY <1>6 DEF Read, dbVars, Typed, PipelineTypeOK, SelGood

\* What a walk leaves of itself when it is past the event, or gone.
LEMMA PastTyped ==
  ASSUME Typed, NEW w \in Walkers,
         \/ SetWalk(w, [walk[w] EXCEPT !.pc = "reconcile", !.copy = None])
         \/ SetWalk(w, Idle)
  PROVE  /\ walk' \in [Walkers -> WalkType]
         /\ \A v \in Walkers : walk'[v].pc = "write" => walk'[v].payload # None
<1> DEFINE rec == [walk[w] EXCEPT !.pc = "reconcile", !.copy = None]
<1>1. rec \in WalkType /\ rec.pc = "reconcile"
  BY DEF Typed, PipelineTypeOK, WalkType
<1> HIDE DEF rec
<1>2. SetWalk(w, rec) \/ SetWalk(w, Idle)
  BY DEF rec
<1> QED BY <1>1, <1>2, IdleType, WalkTyped

\* What ingest_event makes of the row, as long as nobody came in between.
LEMMA WriteEventTyped ==
  ASSUME Typed, NEW w \in Walkers, walk[w].pc = "write", ~Overtaken(w), WriteEvent(w)
  PROVE  /\ walk[w].payload \in Listed
         /\ event' \in EventType
         /\ unseen' \in 0 .. VoidHours + 1
         /\ event = walk[w].copy => event' = Translated(walk[w].payload)
<1>1. walk[w] \in WalkType /\ walk[w].payload # None
  BY DEF Typed, PipelineTypeOK
<1>2. walk[w].payload \in Listed /\ walk[w].copy \in EventType \cup {None}
  BY <1>1 DEF WalkType
<1>3. Translated(walk[w].payload) \in EventType
  BY <1>2, TranslatedType
<1> DEFINE new == Translated(walk[w].payload)
<1>4. event' = Merged(event, walk[w].copy, new) /\ unseen' = 0
  BY DEF WriteEvent
<1> HIDE DEF new
<1>5. CASE event = None
  <2>1. walk[w].copy = None
    BY <1>5 DEF Overtaken
  <2> QED BY <1>2, <1>3, <1>4, <2>1, PipelineAssumption DEF Merged, new
<1>6. CASE event # None
  <2>1. event \in EventType
    BY <1>6 DEF Typed, PipelineTypeOK
  <2> QED BY <1>2, <1>3, <1>4, <2>1, MergedType, PipelineAssumption DEF new
<1> QED BY <1>5, <1>6

\* What becomes of the selections in ingest_event.
LEMMA WriteFullSel ==
  ASSUME Typed, NEW w \in Walkers, walk[w].payload \in Listed, NEW M \in SUBSET Markets,
         WriteFull(w, M)
  PROVE  /\ SelGood(sel') /\ Keeps(sel, sel')
         /\ walk[w].payload.says = "final" => AllDecided(sel')
         /\ outbox' \in Seq(RowOf)
         /\ bet' \in [Bets -> BetType]
<1> DEFINE new == Translated(walk[w].payload)
           offered == Offered(M)
<1>1. /\ new \in EventType
      /\ new.final <=> walk[w].payload.says = "final"
      /\ new.score \in Scores \cup {None}
  BY TranslatedType DEF EventType
<1>2. /\ SelGood(sel) /\ SelGood(offered)
      /\ DOMAIN offered = DOMAIN sel \cup M
      /\ \A m \in DOMAIN sel : offered[m] = sel[m]
  BY OfferedKeeps DEF Typed
<1>3. /\ sel' = IF new.final THEN FinalSel(offered, new.score) ELSE offered
      /\ bet' = IF new.final THEN FinalBets(new.score) ELSE bet
      /\ outbox' = Enqueued(Transition(walk[w].copy, new), new, sel')
  BY DEF WriteFull
<1> HIDE DEF new, offered
<1>4. /\ SelGood(FinalSel(offered, new.score)) /\ DOMAIN FinalSel(offered, new.score) = DOMAIN offered
      /\ AllDecided(FinalSel(offered, new.score)) /\ Keeps(offered, FinalSel(offered, new.score))
  BY <1>1, <1>2, FinalSelDecides
<1>5. Keeps(sel, offered) /\ Keeps(sel, FinalSel(offered, new.score))
  BY <1>2, <1>4 DEF Keeps
<1>6. SelGood(sel') /\ Keeps(sel, sel')
  BY <1>2, <1>3, <1>4, <1>5
<1>7. walk[w].payload.says = "final" => AllDecided(sel')
  BY <1>1, <1>3, <1>4
<1>8. bet' \in [Bets -> BetType]
  BY <1>1, <1>3, FinalBetsType DEF Typed, PipelineTypeOK
<1>9. outbox' \in Seq(RowOf)
  <2> DEFINE name == Transition(walk[w].copy, new)
  <2>1. /\ name \in {"FINALIZED", "VOIDED", "NONE"}
        /\ name # "NONE" => new.status \in {"finished", "canceled"}
    BY TransitionType
  <2>2. outbox \in Seq(RowOf)
    BY DEF Typed, PipelineTypeOK
  <2> DEFINE s == sel'
  <2>3. SelGood(s)
    BY <1>6
  <2>4. outbox' = Enqueued(name, new, s)
    BY <1>3
  <2> HIDE DEF name, s
  <2> QED BY <1>1, <2>1, <2>2, <2>3, <2>4, EnqueuedType
<1> QED BY <1>6, <1>7, <1>8, <1>9

LEMMA WriteTyped ==
  ASSUME Typed, NEW w \in Walkers, Write(w)
  PROVE  Typed' /\ Keeps(sel, sel')
<1>1. walk[w].pc = "write" /\ ~Overtaken(w)
  BY DEF Write
<1>2. /\ walk' \in [Walkers -> WalkType]
      /\ \A v \in Walkers : walk'[v].pc = "write" => walk'[v].payload # None
  BY PastTyped DEF Write
<1>3. WriteEvent(w)
  BY DEF Write, WriteStable, WriteFull
<1>4. /\ walk[w].payload \in Listed
      /\ event' \in EventType
      /\ unseen' \in 0 .. VoidHours + 1
  BY <1>1, <1>3, WriteEventTyped
<1>5. SelGood(sel') /\ Keeps(sel, sel') /\ outbox' \in Seq(RowOf) /\ bet' \in [Bets -> BetType]
  <2>1. CASE Stable(w)
    <3> DEFINE new == Translated(walk[w].payload)
    <3>1. WriteStable(w)
      BY <2>1 DEF Write
    <3>2. new \in EventType /\ new.status = "finished"
      BY <1>4, <2>1, TranslatedType DEF Stable
    <3>3. outbox \in Seq(RowOf) /\ SelGood(sel)
      BY DEF Typed, PipelineTypeOK
    <3> HIDE DEF new
    <3>4. Enqueued("FINALIZED", new, sel) \in Seq(RowOf)
      BY <3>2, <3>3, EnqueuedType
    <3>5. outbox' = outbox \/ outbox' = Enqueued("FINALIZED", new, sel)
      BY <3>1 DEF WriteStable, new
    <3> QED BY <3>1, <3>3, <3>4, <3>5 DEF WriteStable, Keeps, Typed, PipelineTypeOK
  <2>2. CASE ~Stable(w)
    <3>1. PICK M \in SUBSET Markets : WriteFull(w, M)
      BY <2>2 DEF Write
    <3> QED BY <1>4, <3>1, WriteFullSel
  <2> QED BY <2>1, <2>2
<1> QED BY <1>2, <1>4, <1>5 DEF Write, Typed, PipelineTypeOK, SelGood

\* A walk that ends, or goes on, without having written.
LEMMA WalkEndsTyped ==
  ASSUME Typed, NEW w \in Walkers, WriteFails(w) \/ WalkFails(w) \/ Reconcile(w)
  PROVE  Typed' /\ Keeps(sel, sel')
<1>1. \/ SetWalk(w, [walk[w] EXCEPT !.pc = "reconcile", !.copy = None])
      \/ SetWalk(w, Idle)
  BY DEF WriteFails, WalkFails, Reconcile
<1>2. /\ walk' \in [Walkers -> WalkType]
      /\ \A v \in Walkers : walk'[v].pc = "write" => walk'[v].payload # None
  BY <1>1, PastTyped
<1>3. unseen' \in 0 .. VoidHours + 1
  BY PipelineAssumption DEF WriteFails, WalkFails, Reconcile, dbVars, Typed, PipelineTypeOK
<1>4. /\ UNCHANGED <<feed, age, event, sel, bet, outbox, url, dog, fill>>
  BY DEF WriteFails, WalkFails, Reconcile, dbVars
<1> QED BY <1>2, <1>3, <1>4 DEF Typed, PipelineTypeOK, SelGood, Keeps

LEMMA CanceledType ==
  ASSUME NEW copy \in EventType
  PROVE  /\ Canceled(copy) \in EventType
         /\ Canceled(copy).status = "canceled"
         /\ Canceled(copy).score = copy.score
         /\ ~Canceled(copy).final
BY DEF Canceled, EventType

LEMMA AutoVoidTyped ==
  ASSUME Typed, AutoVoid
  PROVE  Typed' /\ Keeps(sel, sel')
<1>1. dog \in EventType /\ SelGood(sel) /\ outbox \in Seq(RowOf)
  BY DEF Typed, PipelineTypeOK, AutoVoid
<1>2. CASE event = None
  BY <1>2 DEF AutoVoid, Typed, PipelineTypeOK, SelGood, Keeps
<1>3. CASE event # None
  <2>1. event \in EventType
    BY <1>3 DEF Typed, PipelineTypeOK
  <2>2. event' = Merged(event, dog, Canceled(dog)) /\ event' \in EventType
    BY <1>1, <1>3, <2>1, CanceledType, MergedType DEF AutoVoid
  <2> DEFINE t == [m \in DOMAIN sel |-> VoidPending(sel[m])]
  <2>3. SelGood(t) /\ Keeps(sel, t)
    BY <1>1, VoidKeeps
  <2>4. sel' = t /\ outbox' = Enqueued("VOIDED", Canceled(dog), sel')
    BY <1>3 DEF AutoVoid
  <2> HIDE DEF t
  <2>5. outbox' = Enqueued("VOIDED", Canceled(dog), t)
    BY <2>4
  <2>6. outbox' \in Seq(RowOf)
    BY <1>1, <2>3, <2>5, CanceledType, EnqueuedType
  <2>7. SelGood(sel') /\ Keeps(sel, sel')
    BY <2>3, <2>4
  <2>8. UNCHANGED <<feed, age, unseen, bet, url, walk, fill>> /\ dog' = None
    BY DEF AutoVoid
  <2> QED BY <2>2, <2>6, <2>7, <2>8 DEF Typed, PipelineTypeOK, SelGood
<1> QED BY <1>2, <1>3

LEMMA BackfillReadsTyped ==
  ASSUME Typed, BackfillReads
  PROVE  Typed' /\ Keeps(sel, sel')
<1>1. SelGood(sel) /\ event \in EventType
  BY DEF Typed, PipelineTypeOK, BackfillReads
<1>2. fill' = Judged /\ DOMAIN Judged = DOMAIN sel
  BY DEF BackfillReads, Judged
<1>3. \A m \in DOMAIN sel : Judged[m] \in [Sides(m) -> RowType \cup {None}]
  BY <1>1, JudgedRows
<1>4. UNCHANGED <<feed, age, event, unseen, sel, bet, outbox, url, walk, dog>>
  BY DEF BackfillReads, dbVars
<1> QED BY <1>2, <1>3, <1>4 DEF Typed, PipelineTypeOK, SelGood, Keeps

\* The rows that the nightly settlement writes were PENDING when it read them;
\* here nothing is said of what they are by now.
LEMMA BackfillWritesTyped ==
  ASSUME Typed, BackfillWrites
  PROVE  Typed'
<1>1. SelGood(sel)
  BY DEF Typed
<1>2. SelGood(sel')
  <2>1. CASE UNCHANGED sel
    BY <1>1, <2>1 DEF SelGood
  <2>2. CASE sel' = [m \in DOMAIN sel |-> [side \in Sides(m) |->
                       IF m \in DOMAIN fill /\ fill[m][side] # None THEN fill[m][side]
                       ELSE Expired(m)[side]]]
    <3>1. \A m \in DOMAIN sel : \A side \in Sides(m) : Expired(m)[side] \in RowType
      BY <1>1, ExpiredKeeps
    <3>2. \A m \in DOMAIN fill : \A side \in Sides(m) : fill[m][side] \in RowType \cup {None}
      BY DEF Typed, PipelineTypeOK
    <3>3. \A m \in DOMAIN sel : sel'[m] \in [Sides(m) -> RowType]
      BY <2>2, <3>1, <3>2
    <3>4. DOMAIN sel' = DOMAIN sel /\ sel' = [m \in DOMAIN sel' |-> sel'[m]]
      BY <2>2
    <3> QED BY <1>1, <3>3, <3>4 DEF SelGood
  <2> QED BY <2>1, <2>2 DEF BackfillWrites
<1>3. UNCHANGED <<feed, age, event, unseen, bet, outbox, url, walk, dog>> /\ fill' = <<>>
  BY DEF BackfillWrites
<1>4. \A m \in DOMAIN fill' : FALSE
  BY <1>3
<1> QED BY <1>2, <1>3, <1>4 DEF Typed, PipelineTypeOK, SelGood

LEMMA BackfillVoidsTyped ==
  ASSUME Typed, BackfillVoids
  PROVE  Typed' /\ Keeps(sel, sel') /\ DOMAIN sel' = DOMAIN sel
<1>1. SelGood(sel) /\ sel' = [m \in DOMAIN sel |-> Expired(m)]
  BY DEF Typed, BackfillVoids
<1>2. \A m \in DOMAIN sel :
        /\ Expired(m) \in [Sides(m) -> RowType]
        /\ \A side \in Sides(m) :
             sel[m][side].status # "PENDING" => Expired(m)[side] = sel[m][side]
  BY <1>1, ExpiredKeeps
<1>3. DOMAIN sel' = DOMAIN sel /\ sel' = [m \in DOMAIN sel' |-> sel'[m]]
  BY <1>1
<1>4. SelGood(sel') /\ Keeps(sel, sel')
  BY <1>1, <1>2, <1>3 DEF SelGood, Keeps
<1>5. UNCHANGED <<feed, age, event, unseen, bet, outbox, url, walk, dog, fill>>
  BY DEF BackfillVoids
<1> QED BY <1>3, <1>4, <1>5 DEF Typed, PipelineTypeOK, SelGood

LEMMA VacuumTyped ==
  ASSUME Typed, VacuumEvent
  PROVE  Typed' /\ Keeps(sel, sel')
<1>1. SelGood(<<>>) /\ <<>> \in Seq(RowOf)
  BY DEF SelGood
<1>2. /\ event' = None /\ unseen' = 0 /\ sel' = <<>> /\ outbox' = <<>>
      /\ bet' = [b \in Bets |-> IF bet[b] = "open" THEN "orphan" ELSE bet[b]]
      /\ UNCHANGED <<feed, age, url, walk, dog, fill>>
  BY DEF VacuumEvent
<1>3. unseen' \in 0 .. VoidHours + 1
  BY <1>2, PipelineAssumption
<1>4. bet' \in [Bets -> BetType]
  BY <1>2 DEF Typed, PipelineTypeOK, BetType
<1>5. SelGood(sel') /\ outbox' \in Seq(RowOf) /\ Keeps(sel, sel')
  BY <1>1, <1>2 DEF Keeps
<1> QED BY <1>2, <1>3, <1>4, <1>5 DEF Typed, PipelineTypeOK, SelGood

LEMMA ForceTyped ==
  ASSUME Typed, ForceEnqueue
  PROVE  Typed' /\ Keeps(sel, sel')
<1> DEFINE row == Row(Transition(None, event), event, sel, TRUE)
<1>1. event \in EventType /\ SelGood(sel) /\ outbox \in Seq(RowOf)
  BY DEF Typed, PipelineTypeOK, ForceEnqueue
<1>2. row \in RowOf
  <2>1. /\ Transition(None, event) \in {"FINALIZED", "VOIDED"}
        /\ event.status \in {"finished", "canceled"}
    BY TransitionType DEF ForceEnqueue
  <2> QED BY <1>1, <2>1, SelGoodTyped DEF Row, RowOf, EventType
<1>3. outbox' = Append(outbox, row)
  BY DEF ForceEnqueue
<1> HIDE DEF row
<1>4. outbox' \in Seq(RowOf)
  BY <1>1, <1>2, <1>3, AppendType
<1>5. UNCHANGED <<feed, age, event, unseen, sel, bet, url, walk, dog, fill>>
  BY DEF ForceEnqueue
<1> QED BY <1>4, <1>5 DEF Typed, PipelineTypeOK, SelGood, Keeps

LEMMA OthersTyped ==
  ASSUME Typed,
         \/ Scan
         \/ \E b \in Bets : PlaceBet(b)
         \/ \E x \in FeedType : FeedStep(x)
         \/ Hour \/ Days \/ RedeployUrl
         \/ UNCHANGED pipelineVars
  PROVE  Typed' /\ Keeps(sel, sel')
<1>1. CASE Scan
  BY <1>1 DEF Scan, dbVars, Typed, PipelineTypeOK, SelGood, Keeps
<1>2. CASE \E b \in Bets : PlaceBet(b)
  BY <1>2 DEF PlaceBet, BetType, Typed, PipelineTypeOK, SelGood, Keeps
<1>3. CASE \E x \in FeedType : FeedStep(x)
  BY <1>3 DEF FeedStep, dbVars, Typed, PipelineTypeOK, SelGood, Keeps
<1>4. CASE Hour
  BY <1>4, PipelineAssumption DEF Hour, Typed, PipelineTypeOK, SelGood, Keeps
<1>5. CASE Days
  BY <1>5 DEF Days, dbVars, AgeType, Typed, PipelineTypeOK, SelGood, Keeps
<1>6. CASE RedeployUrl
  BY <1>6 DEF RedeployUrl, dbVars, Typed, PipelineTypeOK, SelGood, Keeps
<1>7. CASE UNCHANGED pipelineVars
  BY <1>7 DEF pipelineVars, dbVars, Typed, PipelineTypeOK, SelGood, Keeps
<1> QED BY <1>1, <1>2, <1>3, <1>4, <1>5, <1>6, <1>7

LEMMA NextTyped ==
  Typed /\ [PipelineNext]_pipelineVars => Typed' /\ (~BackfillWrites => Keeps(sel, sel'))
<1> SUFFICES ASSUME Typed, [PipelineNext]_pipelineVars
             PROVE  Typed' /\ (~BackfillWrites => Keeps(sel, sel'))
  OBVIOUS
<1>1. ASSUME NEW w \in Walkers, NEW mode \in Modes, Fetch(w, mode)
      PROVE  Typed' /\ Keeps(sel, sel')
  BY <1>1, FetchTyped DEF Fetch, dbVars, Keeps
<1>2. ASSUME NEW w \in Walkers, WalkStep(w) PROVE Typed' /\ Keeps(sel, sel')
  <2>1. CASE Read(w)
    BY <2>1, ReadTyped DEF Read, dbVars, Keeps
  <2> QED BY <1>2, <2>1, WriteTyped, WalkEndsTyped DEF WalkStep
<1>3. CASE \/ Scan
           \/ \E b \in Bets : PlaceBet(b)
           \/ \E x \in FeedType : FeedStep(x)
           \/ Hour \/ Days \/ RedeployUrl
           \/ UNCHANGED pipelineVars
  BY <1>3, OthersTyped
<1> QED BY <1>1, <1>2, <1>3, AutoVoidTyped, BackfillReadsTyped, BackfillWritesTyped,
           BackfillVoidsTyped, VacuumTyped, ForceTyped DEF PipelineNext

LEMMA OnlyBackfillFills ==
  ASSUME [PipelineNext]_pipelineVars, ~BackfillReads, ~BackfillWrites
  PROVE  UNCHANGED fill
<1>1. ASSUME NEW w \in Walkers, WalkStep(w) PROVE UNCHANGED fill
  BY <1>1 DEF WalkStep, Read, Write, WriteFails, WalkFails, Reconcile
<1>2. ASSUME NEW w \in Walkers, NEW mode \in Modes, Fetch(w, mode) PROVE UNCHANGED fill
  BY <1>2 DEF Fetch
<1> QED BY <1>1, <1>2 DEF PipelineNext, pipelineVars, Scan, AutoVoid, BackfillVoids,
                          VacuumEvent, ForceEnqueue, PlaceBet, FeedStep, Hour, Days, RedeployUrl

\* Every variable stays in its type, under every fault of the environment.
THEOREM TypeCorrect == PipelineSpec => []PipelineTypeOK
<1>1. Typed => PipelineTypeOK
  BY DEF Typed
<1> QED BY <1>1, InitTyped, NextTyped, PTL DEF PipelineSpec

-------------------------------------------------------------------------------
(***************************************************************************)
(* One transaction at a time.                                              *)
(***************************************************************************)
Serial == "overlap" \notin PipelineFaults

Busy(w) == walk[w].pc # "idle"
Carries(w) == walk[w].pc \in {"read", "write"} /\ walk[w].payload # None

Solo ==
  /\ dog # None => \A w \in Walkers : ~Busy(w)
  /\ \A v, w \in Walkers : Busy(v) /\ Busy(w) => v = w

\* A copy is the row as it is, unless the vacuum took it.
Copies ==
  /\ \A w \in Walkers : walk[w].pc = "write" => event = None \/ event = walk[w].copy
  /\ dog # None => (event = None \/ event = dog) /\ dog.status = "notstarted"

\* Only a final payload finishes an event, and it decides every selection; the
\* feed has nothing but ends for it from then on.
Ended ==
  event # None =>
    /\ event.final <=> event.status = "finished"
    /\ event.final => AllDecided(sel) /\ feed \in Ends
    /\ event.status # "finished" => event.score = None

\* What a walk carries is not behind the event by more than a correction.
Flight ==
  \A w \in Walkers : Carries(w) =>
    /\ walk[w].payload.says = "pending" => event = None \/ ~event.final
    /\ walk[w].payload \in Ends => feed \in Ends

\* The nightly settlement finds nothing to decide, and so holds nothing: the walk
\* that finished the event left no selection PENDING.
Asleep == fill = <<>>

Calm == Solo /\ Copies /\ Ended /\ Flight /\ AnnouncedIsDefinitive
IInv == Typed /\ Calm /\ Asleep

LEMMA InitCalm == PipelineInit => IInv
<1> SUFFICES ASSUME PipelineInit PROVE IInv
  OBVIOUS
<1>1. \A w \in Walkers : ~Busy(w) /\ ~Carries(w) /\ walk[w].pc # "write"
  BY IdleType DEF PipelineInit, Busy, Carries
<1>2. event = None /\ dog = None /\ outbox = <<>> /\ Asleep
  BY DEF PipelineInit, Asleep
<1> QED
  BY <1>1, <1>2, InitTyped DEF IInv, Calm, Solo, Copies, Ended, Flight, AnnouncedIsDefinitive

LEMMA FetchCalm ==
  ASSUME Serial, IInv, NEW w \in Walkers, NEW mode \in Modes, Fetch(w, mode)
  PROVE  Calm'
<1> DEFINE rec == [Idle EXCEPT !.pc = "read", !.mode = mode, !.inWindow = (age = 0),
                     !.payload = IF feed \in Listed /\ (age = 0 \/ mode = "byHand")
                                 THEN feed ELSE None]
<1>1. Idle \in WalkType
  BY IdleType
<1>2. rec.pc = "read" /\ (rec.payload = feed \/ rec.payload = None)
  BY <1>1 DEF WalkType
<1>3. SetWalk(w, rec)
  BY DEF Fetch
<1> HIDE DEF rec
<1>4. Quiet /\ UNCHANGED <<feed, event, sel, outbox, dog>>
  BY DEF Fetch, Opens, Serial, dbVars
<1>5. \A v \in Walkers : walk'[v] = IF v = w THEN rec ELSE walk[v]
  BY <1>3 DEF SetWalk, IInv, Typed, PipelineTypeOK
<1>6. \A v \in Walkers : walk[v].pc = "idle"
  BY <1>4 DEF Quiet
<1>7. Solo' /\ Copies'
  BY <1>2, <1>4, <1>5, <1>6 DEF Solo, Copies, Busy, Quiet
<1>8. Ended' /\ AnnouncedIsDefinitive'
  BY <1>4 DEF IInv, Calm, Ended, AnnouncedIsDefinitive, AllDecided
<1>9. feed.says = "pending" => feed \notin Ends
  BY DEF Ends
<1>10. Flight'
  BY <1>2, <1>4, <1>5, <1>6, <1>9 DEF IInv, Calm, Ended, Flight, Carries
<1> QED BY <1>7, <1>8, <1>10 DEF Calm

LEMMA ReadCalm ==
  ASSUME IInv, NEW w \in Walkers, Read(w)
  PROVE  Calm'
<1>1. walk[w] \in WalkType
  BY DEF IInv, Typed, PipelineTypeOK
<1> DEFINE skip == [walk[w] EXCEPT !.pc = "reconcile"]
           take == [walk[w] EXCEPT !.pc = "write", !.copy = event]
<1>2. skip.pc = "reconcile"
  BY <1>1 DEF WalkType
<1>3. take.pc = "write" /\ take.payload = walk[w].payload /\ take.copy = event
  BY <1>1 DEF WalkType
<1>4. SetWalk(w, skip) \/ SetWalk(w, take)
  BY DEF Read
<1> HIDE DEF skip, take
<1>5. walk[w].pc = "read" /\ UNCHANGED <<feed, event, sel, outbox, dog>>
  BY DEF Read, dbVars
<1>6. /\ \A v \in Walkers \ {w} : walk'[v] = walk[v]
      /\ walk'[w] = skip \/ walk'[w] = take
  BY <1>4 DEF SetWalk, IInv, Typed, PipelineTypeOK
<1>7. Busy(w) /\ (walk[w].payload # None => Carries(w))
  BY <1>5 DEF Busy, Carries
<1>8. \A v \in Walkers : v # w => ~Busy(v)
  BY <1>7 DEF IInv, Calm, Solo
<1>9. Solo'
  BY <1>5, <1>6, <1>7, <1>8 DEF IInv, Calm, Solo, Busy
<1>10. Copies'
  BY <1>2, <1>3, <1>5, <1>6 DEF IInv, Calm, Copies
<1>11. Ended' /\ AnnouncedIsDefinitive'
  BY <1>5 DEF IInv, Calm, Ended, AnnouncedIsDefinitive, AllDecided
<1>12. Flight'
  BY <1>2, <1>3, <1>5, <1>6, <1>7 DEF IInv, Calm, Flight, Carries
<1> QED BY <1>9, <1>10, <1>11, <1>12 DEF Calm

\* A walk that leaves the event alone, or is past it.
LEMMA PastCalm ==
  ASSUME IInv, NEW w \in Walkers, walk[w].pc # "idle",
         \/ SetWalk(w, [walk[w] EXCEPT !.pc = "reconcile", !.copy = None])
         \/ SetWalk(w, Idle)
  PROVE  /\ \A v \in Walkers : walk'[v].pc \notin {"read", "write"}
         /\ \A v \in Walkers \ {w} : walk'[v].pc = "idle"
         /\ dog = None
<1> DEFINE rec == [walk[w] EXCEPT !.pc = "reconcile", !.copy = None]
<1>1. rec.pc = "reconcile"
  BY DEF IInv, Typed, PipelineTypeOK, WalkType
<1> HIDE DEF rec
<1>2. SetWalk(w, rec) \/ SetWalk(w, Idle)
  BY DEF rec
<1>3. \A v \in Walkers \ {w} : walk'[v] = walk[v] /\ walk[v].pc = "idle"
  BY <1>2 DEF SetWalk, IInv, Typed, PipelineTypeOK, Calm, Solo, Busy
<1>4. walk'[w] = rec \/ walk'[w] = Idle
  BY <1>2 DEF SetWalk, IInv, Typed, PipelineTypeOK
<1>5. dog = None
  BY DEF IInv, Calm, Solo, Busy
<1> QED BY <1>1, <1>3, <1>4, <1>5, IdleType

LEMMA WalkEndsCalm ==
  ASSUME IInv, NEW w \in Walkers, WriteFails(w) \/ WalkFails(w) \/ Reconcile(w)
  PROVE  Calm'
<1>1. /\ \/ SetWalk(w, [walk[w] EXCEPT !.pc = "reconcile", !.copy = None])
         \/ SetWalk(w, Idle)
      /\ walk[w].pc # "idle"
      /\ UNCHANGED <<feed, event, sel, outbox, dog>>
  BY DEF WriteFails, WalkFails, Reconcile, dbVars
<1>2. /\ \A v \in Walkers : walk'[v].pc \notin {"read", "write"}
      /\ \A v \in Walkers \ {w} : walk'[v].pc = "idle"
      /\ dog = None
  BY <1>1, PastCalm
<1> QED BY <1>1, <1>2 DEF IInv, Calm, Solo, Busy, Copies, Ended, Flight, Carries,
                          AnnouncedIsDefinitive, AllDecided

LEMMA AppendElements ==
  ASSUME NEW S, NEW q \in Seq(S), NEW x \in S
  PROVE  /\ Len(Append(q, x)) = Len(q) + 1 /\ Append(q, x)[Len(q) + 1] = x
         /\ Len(q) + 1 \in DOMAIN Append(q, x)
         /\ \A i \in DOMAIN q : i \in DOMAIN Append(q, x) /\ Append(q, x)[i] = q[i]
         /\ \A i \in DOMAIN Append(q, x) : i \in DOMAIN q \/ i = Len(q) + 1
OBVIOUS

\* A row that is added is decided when it says FINALIZED.
LEMMA AppendDecided ==
  ASSUME outbox \in Seq(RowOf), AnnouncedIsDefinitive, NEW row \in RowOf,
         row.name = "FINALIZED" => AllDecided(row.sel),
         outbox' = outbox \/ outbox' = Append(outbox, row)
  PROVE  AnnouncedIsDefinitive'
<1>1. CASE outbox' = outbox
  BY <1>1 DEF AnnouncedIsDefinitive
<1>2. CASE outbox' = Append(outbox, row)
  <2>1. ASSUME NEW i \in DOMAIN outbox', outbox'[i].name = "FINALIZED"
        PROVE  AllDecided(outbox'[i].sel)
    <3>1. \/ i \in DOMAIN outbox /\ outbox'[i] = outbox[i]
          \/ outbox'[i] = row
      BY <1>2, AppendElements
    <3> QED BY <2>1, <3>1 DEF AnnouncedIsDefinitive, AllDecided
  <2> QED BY <2>1 DEF AnnouncedIsDefinitive, AllDecided
<1> QED BY <1>1, <1>2

LEMMA EnqueuedDecided ==
  ASSUME outbox \in Seq(RowOf), AnnouncedIsDefinitive,
         NEW name \in {"FINALIZED", "VOIDED", "NONE"}, NEW e \in EventType, NEW s, SelGood(s),
         name # "NONE" => e.status \in {"finished", "canceled"},
         name = "FINALIZED" => AllDecided(s), outbox' = Enqueued(name, e, s)
  PROVE  AnnouncedIsDefinitive'
<1>1. CASE outbox' = outbox
  BY <1>1 DEF AnnouncedIsDefinitive
<1>2. CASE outbox' # outbox
  <2> DEFINE row == Row(name, e, s, FALSE)
  <2>1. name # "NONE" /\ outbox' = Append(outbox, row)
    BY <1>2 DEF Enqueued
  <2>2. row \in RowOf
    BY <2>1, SelGoodTyped DEF Row, RowOf, EventType
  <2>3. row.name = name /\ row.sel = s
    BY DEF Row
  <2> HIDE DEF row
  <2> QED BY <2>1, <2>2, <2>3, AppendDecided
<1> QED BY <1>1, <1>2

\* What a write finds: the row it has read.
LEMMA WriteFinds ==
  ASSUME IInv, NEW w \in Walkers, Write(w)
  PROVE  /\ event = walk[w].copy /\ Carries(w)
         /\ walk[w].payload \in Listed
         /\ event' = Translated(walk[w].payload)
<1>1. walk[w].pc = "write" /\ ~Overtaken(w) /\ WriteEvent(w)
  BY DEF Write, WriteStable, WriteFull
<1>2. event = walk[w].copy
  BY <1>1 DEF Overtaken, IInv, Calm, Copies
<1>3. Carries(w)
  BY <1>1 DEF Carries, IInv, Typed
<1> QED BY <1>1, <1>2, <1>3, WriteEventTyped DEF IInv

\* The end of the event is written with every selection decided.
LEMMA WriteDecides ==
  ASSUME IInv, NEW w \in Walkers, Write(w)
  PROVE  /\ AnnouncedIsDefinitive'
         /\ walk[w].payload.says = "final" => AllDecided(sel')
<1> DEFINE p == walk[w].payload
           new == Translated(p)
<1>1. event = walk[w].copy /\ p \in Listed
  BY WriteFinds
<1>2. /\ new \in EventType /\ new.score = p.score
      /\ new.status = "finished" <=> p.says = "final"
  BY <1>1, TranslatedType
<1>3. Typed /\ SelGood(sel) /\ outbox \in Seq(RowOf) /\ AnnouncedIsDefinitive
  BY DEF IInv, Calm, Typed, PipelineTypeOK
<1>4. CASE Stable(w)
  <2>1. AllDecided(sel)
    BY <1>1, <1>4 DEF Stable, IInv, Calm, Ended
  <2>2. /\ outbox' = outbox \/ outbox' = Enqueued("FINALIZED", new, sel)
        /\ sel' = sel
    BY <1>4 DEF Write, WriteStable
  <2>3. new.status = "finished"
    BY <1>2, <1>4 DEF Stable
  <2> HIDE DEF new
  <2>4. ASSUME outbox' = Enqueued("FINALIZED", new, sel) PROVE AnnouncedIsDefinitive'
    BY <1>2, <1>3, <2>1, <2>3, <2>4, EnqueuedDecided
  <2> QED BY <1>3, <2>1, <2>2, <2>4 DEF AnnouncedIsDefinitive, AllDecided
<1>5. CASE ~Stable(w)
  <2>1. PICK M \in SUBSET Markets : WriteFull(w, M)
    BY <1>5 DEF Write
  <2> DEFINE name == Transition(walk[w].copy, new)
             s == sel'
  <2>2. outbox' = Enqueued(name, new, s)
    BY <2>1 DEF WriteFull
  <2>3. /\ name \in {"FINALIZED", "VOIDED", "NONE"}
        /\ name # "NONE" => new.status \in {"finished", "canceled"}
        /\ name = "FINALIZED" => new.status = "finished"
    BY TransitionType
  <2>4. SelGood(s) /\ (p.says = "final" => AllDecided(s))
    BY <1>1, <1>3, <2>1, WriteFullSel
  <2>5. name = "FINALIZED" => AllDecided(s)
    BY <1>2, <2>3, <2>4
  <2> HIDE DEF name, s, new
  <2>6. AnnouncedIsDefinitive'
    BY <1>2, <1>3, <2>2, <2>3, <2>4, <2>5, EnqueuedDecided
  <2> QED BY <2>4, <2>6 DEF s
<1> QED BY <1>4, <1>5

LEMMA WriteCalm ==
  ASSUME IInv, NEW w \in Walkers, Write(w)
  PROVE  Calm'
<1> DEFINE p == walk[w].payload
<1>1. Carries(w) /\ p \in Listed /\ event' = Translated(p)
  BY WriteFinds
<1>2. /\ event' # None
      /\ event'.final <=> event'.status = "finished"
      /\ event'.final <=> p.says = "final"
      /\ event'.status # "finished" => event'.score = None
      /\ p.says = "final" => p \in Ends
  BY <1>1, TranslatedType, PipelineAssumption DEF Ends, Listed
<1>3. SetWalk(w, [walk[w] EXCEPT !.pc = "reconcile", !.copy = None]) /\ walk[w].pc # "idle"
  BY DEF Write
<1>4. /\ \A v \in Walkers : walk'[v].pc \notin {"read", "write"}
      /\ \A v \in Walkers \ {w} : walk'[v].pc = "idle"
      /\ dog = None
  BY <1>3, PastCalm
<1>5. UNCHANGED <<feed, dog>>
  BY DEF Write
<1>6. p \in Ends => feed \in Ends
  BY <1>1 DEF IInv, Calm, Flight
<1>7. Ended'
  BY <1>2, <1>5, <1>6, WriteDecides DEF Ended
<1>8. Solo' /\ Copies' /\ Flight'
  BY <1>4, <1>5 DEF Solo, Busy, Copies, Flight, Carries
<1> QED BY <1>7, <1>8, WriteDecides DEF Calm

\* What the watchdog does to the row: its copy was still true, or the row gone.
LEMMA AutoVoidFinds ==
  ASSUME IInv, AutoVoid
  PROVE  /\ dog \in EventType /\ dog.status = "notstarted" /\ \A w \in Walkers : ~Busy(w)
         /\ \/ event = None /\ UNCHANGED <<event, sel, outbox>>
            \/ /\ event = dog /\ event' = Canceled(dog)
               /\ outbox' = Enqueued("VOIDED", Canceled(dog), sel') /\ SelGood(sel')
<1>1. dog \in EventType /\ SelGood(sel) /\ None \notin EventType
  BY PipelineAssumption DEF IInv, Typed, PipelineTypeOK, AutoVoid
<1>2. dog.status = "notstarted" /\ (event = None \/ event = dog) /\ \A w \in Walkers : ~Busy(w)
  BY DEF IInv, Calm, Copies, Solo, AutoVoid
<1>3. CASE event = None
  BY <1>1, <1>2, <1>3 DEF AutoVoid
<1>4. CASE event # None
  <2>1. event = dog /\ event' = Merged(event, dog, Canceled(dog))
    BY <1>2, <1>4 DEF AutoVoid
  <2>2. event' = Canceled(dog)
    BY <1>1, <2>1, CanceledType, MergedType
  <2>3. SelGood(sel')
    BY AutoVoidTyped DEF IInv, Typed
  <2> QED BY <1>1, <1>2, <1>4, <2>1, <2>2, <2>3 DEF AutoVoid
<1> QED BY <1>3, <1>4

LEMMA AutoVoidCalm ==
  ASSUME IInv, AutoVoid
  PROVE  Calm'
<1>1. UNCHANGED <<feed, walk>> /\ dog' = None
  BY DEF AutoVoid
<1>2. \A w \in Walkers : walk[w].pc = "idle"
  BY AutoVoidFinds DEF Busy
<1>3. Solo' /\ Copies' /\ Flight'
  BY <1>1, <1>2 DEF Solo, Busy, Copies, Flight, Carries
<1>4. CASE event = None /\ UNCHANGED <<event, sel, outbox>>
  BY <1>1, <1>3, <1>4 DEF IInv, Calm, Ended, AnnouncedIsDefinitive
<1>5. CASE /\ event = dog /\ event' = Canceled(dog)
           /\ outbox' = Enqueued("VOIDED", Canceled(dog), sel') /\ SelGood(sel')
  <2>1. dog \in EventType /\ dog.status = "notstarted" /\ dog # None
    BY AutoVoidFinds DEF AutoVoid
  <2>2. dog.score = None
    BY <1>5, <2>1 DEF IInv, Calm, Ended
  <2>3. Ended'
    BY <1>5, <2>1, <2>2, CanceledType DEF Ended
  <2> DEFINE s == sel'
             e == Canceled(dog)
  <2>4. e \in EventType /\ e.status = "canceled" /\ SelGood(s) /\ outbox' = Enqueued("VOIDED", e, s)
    BY <1>5, <2>1, CanceledType
  <2>5. outbox \in Seq(RowOf) /\ AnnouncedIsDefinitive
    BY DEF IInv, Typed, PipelineTypeOK, Calm
  <2> HIDE DEF s, e
  <2>6. AnnouncedIsDefinitive'
    BY <2>4, <2>5, EnqueuedDecided
  <2> QED BY <1>3, <2>3, <2>6 DEF Calm
<1> QED BY <1>4, <1>5, AutoVoidFinds

\* The nightly settlement does not come to a write.
LEMMA NothingToJudge == IInv => ~BackfillReads /\ ~BackfillWrites
<1> SUFFICES ASSUME IInv, BackfillReads PROVE FALSE
  BY DEF IInv, Asleep, BackfillWrites
<1>1. event \in EventType /\ SelGood(sel)
  BY DEF BackfillReads, IInv, Typed, PipelineTypeOK
<1>2. AllDecided(sel)
  BY DEF BackfillReads, IInv, Calm, Ended
<1>3. PICK m \in DOMAIN sel : \E side \in Sides(m) : Judged[m][side] # None
  BY DEF BackfillReads
<1>4. PICK side \in Sides(m) : sel[m][side].status = "PENDING"
  BY <1>1, <1>3, JudgedRows
<1>5. DOMAIN sel[m] = Sides(m)
  BY <1>1 DEF SelGood
<1> QED BY <1>2, <1>4, <1>5 DEF AllDecided

LEMMA BackfillVoidsCalm ==
  ASSUME IInv, BackfillVoids
  PROVE  Calm'
<1>1. SelGood(sel) /\ SelGood(sel') /\ Keeps(sel, sel') /\ DOMAIN sel' = DOMAIN sel
  BY BackfillVoidsTyped DEF IInv, Typed
<1>2. AllDecided(sel) => AllDecided(sel')
  BY <1>1 DEF SelGood, Keeps, AllDecided
<1>3. UNCHANGED <<feed, event, outbox, walk, dog>>
  BY DEF BackfillVoids
<1> QED BY <1>2, <1>3 DEF IInv, Calm, Solo, Busy, Copies, Ended, Flight, Carries,
                          AnnouncedIsDefinitive

LEMMA VacuumCalm ==
  ASSUME IInv, VacuumEvent
  PROVE  Calm'
<1>1. event' = None /\ outbox' = <<>> /\ UNCHANGED <<feed, walk, dog>>
  BY DEF VacuumEvent
<1> QED BY <1>1 DEF IInv, Calm, Solo, Busy, Copies, Ended, Flight, Carries, AnnouncedIsDefinitive

LEMMA ForceCalm ==
  ASSUME IInv, ForceEnqueue
  PROVE  Calm'
<1> DEFINE row == Row(Transition(None, event), event, sel, TRUE)
<1>1. event \in EventType /\ event # None /\ SelGood(sel) /\ outbox \in Seq(RowOf)
  BY DEF IInv, Typed, PipelineTypeOK, ForceEnqueue
<1>2. /\ Transition(None, event) \in {"FINALIZED", "VOIDED"}
      /\ event.status \in {"finished", "canceled"}
      /\ Transition(None, event) = "FINALIZED" => event.status = "finished"
  BY TransitionType DEF ForceEnqueue
<1>3. row \in RowOf
  BY <1>1, <1>2, SelGoodTyped DEF Row, RowOf, EventType
<1>4. row.name = "FINALIZED" => AllDecided(row.sel)
  BY <1>1, <1>2 DEF Row, IInv, Calm, Ended
<1>5. outbox' = Append(outbox, row)
  BY DEF ForceEnqueue
<1>6. AnnouncedIsDefinitive
  BY DEF IInv, Calm
<1> HIDE DEF row
<1>7. AnnouncedIsDefinitive'
  BY <1>1, <1>3, <1>4, <1>5, <1>6, AppendDecided
<1>8. UNCHANGED <<feed, event, sel, walk, dog>>
  BY DEF ForceEnqueue
<1> QED BY <1>7, <1>8 DEF IInv, Calm, Solo, Busy, Copies, Ended, Flight, Carries

\* An end of the feed gives way to another end only.
LEMMA FeedStaysEnded ==
  ASSUME NEW x \in FeedType, FeedStep(x)
  PROVE  feed \in Ends => x \in Ends /\ ~ToldBefore(x)
BY DEF FeedStep, FeedMoves, Ends

LEMMA OthersCalm ==
  ASSUME Serial, IInv,
         \/ Scan
         \/ \E b \in Bets : PlaceBet(b)
         \/ \E x \in FeedType : FeedStep(x)
         \/ Hour \/ Days \/ RedeployUrl
         \/ UNCHANGED pipelineVars
  PROVE  Calm'
<1>1. CASE Scan
  <2>1. /\ dog' = event /\ event.status = "notstarted" /\ Quiet
        /\ UNCHANGED <<feed, event, sel, outbox, walk>>
    BY <1>1 DEF Scan, Opens, Serial, dbVars
  <2> QED BY <2>1 DEF Quiet, IInv, Calm, Solo, Busy, Copies, Ended, Flight, Carries,
                      AnnouncedIsDefinitive, AllDecided
<1>2. ASSUME NEW x \in FeedType, FeedStep(x) PROVE Calm'
  <2>1. feed' = x /\ UNCHANGED <<event, sel, outbox, walk, dog>>
    BY <1>2 DEF FeedStep, dbVars
  <2>2. feed \in Ends => feed' \in Ends
    BY <1>2, <2>1, FeedStaysEnded
  <2> QED BY <2>1, <2>2 DEF IInv, Calm, Solo, Busy, Copies, Ended, Flight, Carries,
                            AnnouncedIsDefinitive, AllDecided
<1>3. CASE (\E b \in Bets : PlaceBet(b)) \/ Hour \/ Days \/ RedeployUrl \/ UNCHANGED pipelineVars
  <2>1. UNCHANGED <<feed, event, sel, outbox, walk, dog>>
    BY <1>3 DEF PlaceBet, Hour, Days, RedeployUrl, pipelineVars, dbVars
  <2> QED BY <2>1 DEF IInv, Calm, Solo, Busy, Copies, Ended, Flight, Carries,
                      AnnouncedIsDefinitive, AllDecided
<1> QED BY <1>1, <1>2, <1>3

LEMMA NextCalm == Serial /\ IInv /\ [PipelineNext]_pipelineVars => IInv'
<1> SUFFICES ASSUME Serial, IInv, [PipelineNext]_pipelineVars PROVE IInv'
  OBVIOUS
<1>0. Typed'
  BY NextTyped DEF IInv
<1>1. ASSUME NEW w \in Walkers, WalkStep(w) PROVE Calm'
  BY <1>1, ReadCalm, WriteCalm, WalkEndsCalm DEF WalkStep
<1>2. ASSUME \/ Scan
             \/ \E b \in Bets : PlaceBet(b)
             \/ \E x \in FeedType : FeedStep(x)
             \/ Hour \/ Days \/ RedeployUrl
             \/ UNCHANGED pipelineVars
      PROVE  Calm'
  BY <1>2, OthersCalm
<1>3. ~BackfillReads /\ ~BackfillWrites
  BY NothingToJudge
<1>4. Calm'
  BY <1>1, <1>2, <1>3, FetchCalm, AutoVoidCalm, BackfillVoidsCalm, VacuumCalm, ForceCalm
  DEF PipelineNext
<1>5. Asleep'
  <2>1. fill' = fill
    BY <1>3, OnlyBackfillFills
  <2> QED BY <2>1 DEF IInv, Asleep
<1> QED BY <1>0, <1>4, <1>5 DEF IInv

\* As long as transactions do not overlap, whatever else goes wrong: no row
\* that says FINALIZED shows a PENDING selection, on whichever path it was
\* enqueued (upserts.py, notify.py, the re-enqueue by hand).
THEOREM AnnouncementsAreDefinitive == Serial /\ PipelineSpec => []AnnouncedIsDefinitive
<1> SUFFICES ASSUME Serial PROVE PipelineSpec => []AnnouncedIsDefinitive
  OBVIOUS
<1>1. IInv => AnnouncedIsDefinitive
  BY DEF IInv, Calm
<1>2. PipelineInit => IInv
  BY InitCalm
<1>3. IInv /\ [PipelineNext]_pipelineVars => IInv'
  BY NextCalm
<1> QED BY <1>1, <1>2, <1>3, PTL DEF PipelineSpec

\* The step that makes an event final, or gives it another score.
LEMMA FinalClosesBets ==
  ASSUME IInv, PipelineNext, event' # event, event' # None, event'.final
  PROVE  \A b \in Bets \cap AutoSettled : bet'[b] # "open"
<1>1. CASE AutoVoid
  <2>1. event = dog /\ event' = Canceled(dog) /\ dog \in EventType
    BY <1>1, AutoVoidFinds
  <2> QED BY <2>1, CanceledType
<1>2. ASSUME NEW w \in Walkers, Write(w)
      PROVE  \A b \in Bets \cap AutoSettled : bet'[b] # "open"
  <2> DEFINE p == walk[w].payload
             new == Translated(p)
  <2>1. event = walk[w].copy /\ p \in Listed /\ event' = new
    BY <1>2, WriteFinds
  <2>2. new \in EventType /\ new.score = p.score /\ new.final
    BY <2>1, TranslatedType
  <2>3. ~Stable(w)
    <3>1. ASSUME Stable(w) PROVE FALSE
      <4>1. event # None /\ event.status = "finished" /\ event.score = p.score
        BY <2>1, <3>1 DEF Stable
      <4>2. event \in EventType /\ event.final = TRUE
        BY <4>1 DEF IInv, Typed, PipelineTypeOK, Calm, Ended, EventType
      <4>3. new.status = "finished" /\ new.final = TRUE
        BY <2>1, <2>2, <3>1, TranslatedType DEF Stable, EventType
      <4>4. \A e \in EventType : e = [status |-> e.status, score |-> e.score, final |-> e.final]
        BY DEF EventType
      <4>5. event = [status |-> "finished", score |-> p.score, final |-> TRUE]
        BY <4>1, <4>2, <4>4
      <4>6. new = [status |-> "finished", score |-> p.score, final |-> TRUE]
        BY <2>2, <4>3, <4>4
      <4> QED BY <2>1, <4>5, <4>6
    <3> QED BY <3>1
  <2>4. PICK M \in SUBSET Markets : WriteFull(w, M)
    BY <1>2, <2>3 DEF Write
  <2>5. bet' = FinalBets(new.score)
    BY <2>2, <2>4 DEF WriteFull
  <2>6. bet \in [Bets -> BetType] /\ new.score \in Scores \cup {None}
    BY <2>2 DEF IInv, Typed, PipelineTypeOK, EventType
  <2> HIDE DEF new
  <2> QED BY <2>5, <2>6, FinalBetsType
<1>3. ASSUME NEW w \in Walkers, NEW mode \in Modes, Fetch(w, mode) PROVE FALSE
  BY <1>3 DEF Fetch, dbVars
<1>4. ASSUME NEW w \in Walkers, Read(w) \/ WriteFails(w) \/ WalkFails(w) \/ Reconcile(w)
      PROVE  FALSE
  BY <1>4 DEF Read, WriteFails, WalkFails, Reconcile, dbVars
<1>5. CASE \/ Scan \/ BackfillReads \/ BackfillWrites \/ BackfillVoids \/ VacuumEvent \/ ForceEnqueue
           \/ \E b \in Bets : PlaceBet(b)
           \/ \E x \in FeedType : FeedStep(x)
           \/ Hour \/ Days \/ RedeployUrl
  BY <1>5 DEF Scan, BackfillReads, BackfillWrites, BackfillVoids,
              VacuumEvent, ForceEnqueue, PlaceBet, FeedStep, Hour, Days, RedeployUrl, dbVars
<1> QED BY <1>1, <1>2, <1>3, <1>4, <1>5 DEF PipelineNext, WalkStep

\* As long as transactions do not overlap: the bets of autosettle_bets_for_event
\* are decided in the step that gives their event a final score.
THEOREM BetsCloseWithTheEvent == Serial /\ PipelineSpec => BetsClosed
<1> SUFFICES ASSUME Serial PROVE PipelineSpec => BetsClosed
  OBVIOUS
<1>1. IInv /\ [PipelineNext]_pipelineVars =>
        [event' # event /\ event' # None /\ event'.final =>
           \A b \in Bets \cap AutoSettled : bet'[b] # "open"]_pipelineVars
  BY FinalClosesBets
<1>2. PipelineInit => IInv
  BY InitCalm
<1>3. IInv /\ [PipelineNext]_pipelineVars => IInv'
  BY NextCalm
<1> QED BY <1>1, <1>2, <1>3, PTL DEF PipelineSpec, BetsClosed

-------------------------------------------------------------------------------
(***************************************************************************)
(* Settled once.                                                           *)
(***************************************************************************)

\* What the nightly settlement is about to write was PENDING when it read it; if
\* no other transaction runs beside it, it still is.
Fresh ==
  fill # <<>> =>
    /\ Quiet
    /\ \A m \in DOMAIN fill \cap DOMAIN sel : \A side \in Sides(m) :
         fill[m][side] # None => sel[m][side].status = "PENDING"

LEMMA WritesFresh ==
  ASSUME Typed, Fresh, BackfillWrites
  PROVE  Keeps(sel, sel')
<1>1. CASE UNCHANGED sel
  BY <1>1 DEF Keeps
<1>2. CASE sel' = [m \in DOMAIN sel |-> [side \in Sides(m) |->
                     IF m \in DOMAIN fill /\ fill[m][side] # None THEN fill[m][side]
                     ELSE Expired(m)[side]]]
  <2> SUFFICES ASSUME NEW m \in DOMAIN sel, NEW side \in DOMAIN sel[m],
                      sel[m][side].status # "PENDING"
               PROVE  sel'[m][side] = sel[m][side]
    BY DEF Keeps
  <2>1. side \in Sides(m) /\ Expired(m)[side] = sel[m][side]
    BY ExpiredKeeps DEF Typed, SelGood
  <2>2. ~(m \in DOMAIN fill /\ fill[m][side] # None)
    BY <2>1 DEF Fresh, BackfillWrites
  <2> QED BY <1>2, <2>1, <2>2
<1> QED BY <1>1, <1>2 DEF BackfillWrites

LEMMA NextFresh ==
  ASSUME "nightly" \notin PipelineFaults, Typed, Fresh, [PipelineNext]_pipelineVars
  PROVE  Fresh'
<1>1. CASE BackfillReads
  <2>1. fill' = Judged /\ Quiet /\ UNCHANGED <<sel, walk, dog>>
    BY <1>1 DEF BackfillReads, dbVars
  <2>2. event \in EventType /\ SelGood(sel)
    BY <1>1 DEF BackfillReads, Typed, PipelineTypeOK
  <2>3. \A m \in DOMAIN sel : \A side \in Sides(m) :
          Judged[m][side] # None => sel[m][side].status = "PENDING"
    BY <2>2, JudgedRows
  <2> QED BY <2>1, <2>3 DEF Fresh, Quiet
<1>2. CASE BackfillWrites
  BY <1>2 DEF BackfillWrites, Fresh
<1>3. CASE ~BackfillReads /\ ~BackfillWrites /\ fill = <<>>
  BY <1>3, OnlyBackfillFills DEF Fresh
<1>4. CASE ~BackfillReads /\ ~BackfillWrites /\ fill # <<>>
  <2>1. fill' = fill /\ Quiet
    BY <1>4, OnlyBackfillFills DEF Fresh
  <2>2. ASSUME NEW w \in Walkers, NEW mode \in Modes, Fetch(w, mode) PROVE FALSE
    BY <1>4, <2>2 DEF Fetch, Opens
  <2>3. ASSUME NEW w \in Walkers, WalkStep(w) PROVE FALSE
    BY <2>1, <2>3 DEF WalkStep, Read, Write, WriteFails, WalkFails, Reconcile, Quiet
  <2>4. ~Scan /\ ~AutoVoid /\ ~BackfillVoids
    BY <1>4, <2>1 DEF Scan, Opens, AutoVoid, BackfillVoids, Quiet
  <2>5. /\ sel' = sel \/ sel' = <<>>
        /\ UNCHANGED <<walk, dog>>
    BY <1>4, <2>2, <2>3, <2>4
       DEF PipelineNext, pipelineVars, dbVars, VacuumEvent, ForceEnqueue, PlaceBet, FeedStep, Hour, Days, RedeployUrl
  <2>6. Quiet'
    BY <2>1, <2>5 DEF Quiet
  <2> QED BY <1>4, <2>1, <2>5, <2>6 DEF Fresh
<1> QED BY <1>1, <1>2, <1>3, <1>4

\* A selection that was settled keeps its settlement while its event is there:
\* the insert of write_markets resets nothing (ingester.py), and settle_event,
\* void_remaining_pending and the watchdog take PENDING rows only.  Walks and the
\* watchdog may overlap each other, or the nightly settlement may overlap them;
\* with both, it finds PENDING rows under a finished event, which overlapping
\* walks leave, and may overwrite what is settled meanwhile (README, section 4).
THEOREM SettlementsStick ==
  ~({"overlap", "nightly"} \subseteq PipelineFaults) /\ PipelineSpec => SettledOnce
<1>1. ASSUME Serial PROVE PipelineSpec => SettledOnce
  <2>1. IInv /\ [PipelineNext]_pipelineVars =>
          [\A m \in DOMAIN sel \cap DOMAIN sel' : \A side \in DOMAIN sel[m] :
             sel[m][side].status # "PENDING" => sel'[m][side] = sel[m][side]]_pipelineVars
    BY NextTyped, NothingToJudge DEF Keeps, IInv
  <2>2. PipelineInit => IInv
    BY InitCalm
  <2>3. IInv /\ [PipelineNext]_pipelineVars => IInv'
    BY <1>1, NextCalm
  <2> QED BY <2>1, <2>2, <2>3, PTL DEF PipelineSpec, SettledOnce
<1>2. ASSUME "nightly" \notin PipelineFaults PROVE PipelineSpec => SettledOnce
  <2> DEFINE FInv == Typed /\ Fresh
  <2>1. FInv /\ [PipelineNext]_pipelineVars =>
          [\A m \in DOMAIN sel \cap DOMAIN sel' : \A side \in DOMAIN sel[m] :
             sel[m][side].status # "PENDING" => sel'[m][side] = sel[m][side]]_pipelineVars
    BY NextTyped, WritesFresh DEF Keeps
  <2>2. PipelineInit => FInv
    BY InitTyped DEF PipelineInit, Fresh
  <2>3. FInv /\ [PipelineNext]_pipelineVars => FInv'
    BY <1>2, NextTyped, NextFresh
  <2> HIDE DEF FInv
  <2> QED BY <2>1, <2>2, <2>3, PTL DEF PipelineSpec, SettledOnce
<1>3. ~({"overlap", "nightly"} \subseteq PipelineFaults) <=> Serial \/ "nightly" \notin PipelineFaults
  BY DEF Serial
<1> QED BY <1>1, <1>2, <1>3

-------------------------------------------------------------------------------
(***************************************************************************)
(* One transaction at a time, and a URL to send to.                        *)
(***************************************************************************)
Connected == Serial /\ "config" \notin PipelineFaults

VoidsOnly == \A i \in DOMAIN outbox : outbox[i].status = "canceled" /\ outbox[i].score = None

\* What the row has taken from a payload is what the feed said.
Matches(x) == event # None /\ event.status = Translated(x).status /\ event.score = x.score

\* An end that the outbox has either as its last word, or not at all, except
\* for a void: that may follow the watchdog's.
News(x) == Matches(x) \/ ~ToldBefore(x) \/ (x.says = "void" /\ VoidsOnly)

\* Before the feed knows an end, only the watchdog has spoken.
Early ==
  /\ feed \notin Ends => VoidsOnly
  /\ event # None /\ event.status = "notstarted" => VoidsOnly
  /\ \A w \in Walkers : Carries(w) /\ walk[w].payload.says = "pending" => VoidsOnly

\* The feed's end is news, and the end a walk carries is news which the feed's
\* is not about to repeat.
Newest ==
  /\ feed \in Ends => News(feed)
  /\ \A w \in Walkers : Carries(w) /\ walk[w].payload \in Ends =>
       News(walk[w].payload) /\ (feed = walk[w].payload \/ ~ToldBefore(feed))

Current == url /\ Early /\ Newest /\ LastWordIsCurrent
CInv == IInv /\ Current

LEMMA VoidsAreNews ==
  ASSUME VoidsOnly, NEW x \in Ends
  PROVE  News(x) /\ (x.says = "final" => ~ToldBefore(x))
BY DEF VoidsOnly, News, ToldBefore, Ends, Translated

\* An end is known by what it makes of the row.
LEMMA EndsDiffer ==
  ASSUME NEW x \in Ends, NEW y \in Ends,
         Translated(x).status = Translated(y).status, x.score = y.score
  PROVE  x = y
BY DEF Ends, Translated

\* The newest row is among the rows.
LEMMA LastRow ==
  ASSUME NEW S, NEW q \in Seq(S), q # <<>>
  PROVE  Len(q) \in DOMAIN q
OBVIOUS

LEMMA InitCurrent == PipelineInit => CInv
<1> SUFFICES ASSUME PipelineInit PROVE CInv
  OBVIOUS
<1>1. event = None /\ outbox = <<>> /\ url /\ feed \notin Ends
  BY DEF PipelineInit, Ends
<1>2. \A w \in Walkers : ~Carries(w)
  BY IdleType DEF PipelineInit, Carries
<1>3. VoidsOnly
  BY <1>1 DEF VoidsOnly
<1> QED BY <1>1, <1>2, <1>3, InitCalm
           DEF CInv, Current, Early, Newest, LastWordIsCurrent, Over

\* A step that leaves the rows, and what the walks carry, as they are.
LEMMA SameCurrent ==
  ASSUME CInv, UNCHANGED <<feed, event, outbox, url>>,
         \A w \in Walkers :
           walk'[w].pc \in {"read", "write"} =>
             walk[w].pc \in {"read", "write"} /\ walk'[w].payload = walk[w].payload
  PROVE  Current'
<1>1. VoidsOnly' <=> VoidsOnly
  BY DEF VoidsOnly
<1>2. \A x : News(x)' <=> News(x)
  BY DEF News, Matches, ToldBefore, VoidsOnly
<1>3. \A x : ToldBefore(x)' <=> ToldBefore(x)
  BY DEF ToldBefore
<1>4. \A w \in Walkers : Carries(w)' => Carries(w) /\ walk'[w].payload = walk[w].payload
  BY DEF Carries
<1>5. Early'
  BY <1>1, <1>4 DEF CInv, Current, Early
<1>6. Newest'
  BY <1>2, <1>3, <1>4 DEF CInv, Current, Newest
<1> QED BY <1>5, <1>6 DEF CInv, Current, LastWordIsCurrent

LEMMA FetchCurrent ==
  ASSUME Serial, CInv, NEW w \in Walkers, NEW mode \in Modes, Fetch(w, mode)
  PROVE  Current'
<1> DEFINE rec == [Idle EXCEPT !.pc = "read", !.mode = mode, !.inWindow = (age = 0),
                     !.payload = IF feed \in Listed /\ (age = 0 \/ mode = "byHand")
                                 THEN feed ELSE None]
<1>1. Idle \in WalkType
  BY IdleType
<1>2. rec.payload = feed \/ rec.payload = None
  BY <1>1 DEF WalkType
<1>3. SetWalk(w, rec)
  BY DEF Fetch
<1> HIDE DEF rec
<1>4. Quiet /\ UNCHANGED <<feed, event, outbox, url>>
  BY DEF Fetch, Opens, Serial, dbVars
<1>5. \A v \in Walkers : Carries(v)' => walk'[v].payload = feed
  BY <1>2, <1>3, <1>4 DEF Carries, Quiet, SetWalk, CInv, IInv, Typed, PipelineTypeOK
<1>6. feed.says = "pending" => feed \notin Ends
  BY DEF Ends
<1>7. VoidsOnly' <=> VoidsOnly
  BY <1>4 DEF VoidsOnly
<1>8. \A x : News(x)' <=> News(x)
  BY <1>4 DEF News, Matches, ToldBefore, VoidsOnly
<1>9. Early'
  BY <1>4, <1>5, <1>6, <1>7 DEF CInv, Current, Early
<1>10. Newest'
  BY <1>4, <1>5, <1>8 DEF CInv, Current, Newest
<1> QED BY <1>4, <1>9, <1>10 DEF CInv, Current, LastWordIsCurrent

LEMMA WalkCurrent ==
  ASSUME CInv, NEW w \in Walkers,
         Read(w) \/ WriteFails(w) \/ WalkFails(w) \/ Reconcile(w)
  PROVE  Current'
<1>1. walk[w] \in WalkType
  BY DEF CInv, IInv, Typed, PipelineTypeOK
<1>2. UNCHANGED <<feed, event, outbox, url>>
  BY DEF Read, WriteFails, WalkFails, Reconcile, dbVars
<1>3. CASE Read(w)
  <2> DEFINE skip == [walk[w] EXCEPT !.pc = "reconcile"]
             take == [walk[w] EXCEPT !.pc = "write", !.copy = event]
  <2>1. skip.payload = walk[w].payload /\ take.payload = walk[w].payload
    BY <1>1 DEF WalkType
  <2>2. SetWalk(w, skip) \/ SetWalk(w, take)
    BY <1>3 DEF Read
  <2>3. walk[w].pc = "read"
    BY <1>3 DEF Read
  <2> HIDE DEF skip, take
  <2> QED BY <1>2, <2>1, <2>2, <2>3, SameCurrent DEF SetWalk, CInv, IInv, Typed, PipelineTypeOK
<1>4. CASE WriteFails(w) \/ WalkFails(w) \/ Reconcile(w)
  <2>1. /\ \/ SetWalk(w, [walk[w] EXCEPT !.pc = "reconcile", !.copy = None])
           \/ SetWalk(w, Idle)
        /\ walk[w].pc # "idle"
    BY <1>4 DEF WriteFails, WalkFails, Reconcile
  <2>2. \A v \in Walkers : walk'[v].pc \notin {"read", "write"}
    BY <2>1, PastCalm DEF CInv
  <2> QED BY <1>2, <2>2, SameCurrent
<1> QED BY <1>3, <1>4

LEMMA FeedCurrent ==
  ASSUME CInv, NEW x \in FeedType, FeedStep(x)
  PROVE  Current'
<1>1. feed' = x /\ UNCHANGED <<event, outbox, url, walk>>
  BY DEF FeedStep, dbVars
<1>2. feed \in Ends => x \in Ends /\ ~ToldBefore(x)
  BY FeedStaysEnded
<1>3. /\ VoidsOnly' <=> VoidsOnly
      /\ \A y : News(y)' <=> News(y)
      /\ \A y : ToldBefore(y)' <=> ToldBefore(y)
      /\ \A w \in Walkers : Carries(w)' <=> Carries(w)
  BY <1>1 DEF VoidsOnly, News, Matches, ToldBefore, Carries
<1>4. feed \notin Ends => VoidsOnly
  BY DEF CInv, Current, Early
<1>5. Early'
  BY <1>1, <1>2, <1>3 DEF CInv, Current, Early
<1>6. x \in Ends => News(x)
  BY <1>2, <1>4, VoidsAreNews DEF News
<1>7. ASSUME NEW w \in Walkers, Carries(w), walk[w].payload \in Ends
      PROVE  News(walk[w].payload) /\ ~ToldBefore(x)
  BY <1>2, <1>7 DEF CInv, Current, Newest, IInv, Calm, Flight
<1>8. Newest'
  BY <1>1, <1>3, <1>6, <1>7 DEF Newest
<1> QED BY <1>1, <1>5, <1>8 DEF CInv, Current, LastWordIsCurrent

\* What a row that is added tells.
LEMMA AppendTells ==
  ASSUME outbox \in Seq(RowOf), NEW row \in RowOf, outbox' = Append(outbox, row)
  PROVE  /\ outbox' # <<>> /\ outbox'[Len(outbox')] = row
         /\ VoidsOnly' <=> VoidsOnly /\ row.status = "canceled" /\ row.score = None
         /\ \A x : ToldBefore(x)' <=>
              ToldBefore(x) \/ (row.status = Translated(x).status /\ row.score = x.score)
<1>1. /\ Len(outbox') = Len(outbox) + 1 /\ outbox'[Len(outbox) + 1] = row
      /\ Len(outbox) + 1 \in DOMAIN outbox'
      /\ \A i \in DOMAIN outbox : i \in DOMAIN outbox' /\ outbox'[i] = outbox[i]
      /\ \A i \in DOMAIN outbox' : i \in DOMAIN outbox \/ i = Len(outbox) + 1
  BY AppendElements
<1>2. outbox' # <<>> /\ outbox'[Len(outbox')] = row
  BY <1>1
<1>3. VoidsOnly' <=> VoidsOnly /\ row.status = "canceled" /\ row.score = None
  BY <1>1 DEF VoidsOnly
<1>4. \A x : ToldBefore(x)' <=>
        ToldBefore(x) \/ (row.status = Translated(x).status /\ row.score = x.score)
  BY <1>1 DEF ToldBefore
<1> QED BY <1>2, <1>3, <1>4

\* The operator's row says what the last one said.
LEMMA ForceCurrent ==
  ASSUME CInv, ForceEnqueue
  PROVE  Current'
<1> DEFINE row == Row(Transition(None, event), event, sel, TRUE)
           last == outbox[Len(outbox)]
<1>1. event \in EventType /\ event # None /\ SelGood(sel) /\ outbox \in Seq(RowOf)
  BY DEF CInv, IInv, Typed, PipelineTypeOK, ForceEnqueue
<1>2. /\ Transition(None, event) \in {"FINALIZED", "VOIDED"}
      /\ event.status \in {"finished", "canceled"}
  BY TransitionType DEF ForceEnqueue
<1>3. row \in RowOf
  BY <1>1, <1>2, SelGoodTyped DEF Row, RowOf, EventType
<1>4. row.status = event.status /\ row.score = event.score
  BY DEF Row
<1>5. outbox' = Append(outbox, row) /\ UNCHANGED <<feed, event, url, walk>>
  BY DEF ForceEnqueue
<1> HIDE DEF row
<1>6. Len(outbox) \in DOMAIN outbox /\ last.status = row.status /\ last.score = row.score
  BY <1>1, <1>2, <1>4, LastRow DEF CInv, Current, LastWordIsCurrent, Over
<1>7. /\ outbox' # <<>> /\ outbox'[Len(outbox')] = row
      /\ VoidsOnly' <=> VoidsOnly /\ row.status = "canceled" /\ row.score = None
      /\ \A x : ToldBefore(x)' <=>
           ToldBefore(x) \/ (row.status = Translated(x).status /\ row.score = x.score)
  BY <1>1, <1>3, <1>5, AppendTells
<1>8. VoidsOnly' <=> VoidsOnly
  BY <1>6, <1>7 DEF VoidsOnly
<1>9. \A x : ToldBefore(x)' <=> ToldBefore(x)
  BY <1>6, <1>7 DEF ToldBefore
<1>10. \A x : News(x)' <=> News(x)
  BY <1>5, <1>8, <1>9 DEF News, Matches
<1>11. \A w \in Walkers : Carries(w)' <=> Carries(w)
  BY <1>5 DEF Carries
<1>12. Early' /\ Newest'
  BY <1>5, <1>8, <1>9, <1>10, <1>11 DEF CInv, Current, Early, Newest
<1>13. LastWordIsCurrent'
  BY <1>4, <1>5, <1>7 DEF LastWordIsCurrent, Over
<1> QED BY <1>5, <1>12, <1>13 DEF CInv, Current

\* A vacuumed event is a new one.
LEMMA VacuumCurrent ==
  ASSUME CInv, VacuumEvent
  PROVE  Current'
<1>1. event' = None /\ outbox' = <<>> /\ UNCHANGED <<feed, url, walk>>
  BY DEF VacuumEvent
<1>2. VoidsOnly' /\ \A x : ~ToldBefore(x)'
  BY <1>1 DEF VoidsOnly, ToldBefore
<1> QED BY <1>1, <1>2 DEF CInv, Current, Early, Newest, News, LastWordIsCurrent, Over

\* With the URL set a row that is not added was there.
LEMMA EnqueuedTells ==
  ASSUME url, NEW name \in {"FINALIZED", "VOIDED"}, NEW e \in EventType, NEW s, SelGood(s),
         e.status \in {"finished", "canceled"}, outbox' = Enqueued(name, e, s)
  PROVE  \/ /\ outbox' = outbox
            /\ \E i \in DOMAIN outbox : outbox[i].status = e.status /\ outbox[i].score = e.score
         \/ \E row \in RowOf : /\ row.status = e.status /\ row.score = e.score
                               /\ outbox' = Append(outbox, row)
<1> DEFINE row == Row(name, e, s, FALSE)
<1>1. row \in RowOf /\ row.status = e.status /\ row.score = e.score
  BY SelGoodTyped DEF Row, RowOf, EventType
<1>2. \/ outbox' = Append(outbox, row)
      \/ outbox' = outbox /\ \E i \in DOMAIN outbox : StateOf(outbox[i]) = StateOf(row)
  BY DEF Enqueued
<1> HIDE DEF row
<1> QED BY <1>1, <1>2 DEF StateOf

LEMMA AutoVoidCurrent ==
  ASSUME CInv, AutoVoid
  PROVE  Current'
<1>1. UNCHANGED <<feed, url, walk>>
  BY DEF AutoVoid
<1>2. CASE event = None /\ UNCHANGED <<event, sel, outbox>>
  BY <1>1, <1>2, SameCurrent
<1>3. CASE /\ event = dog /\ event' = Canceled(dog)
           /\ outbox' = Enqueued("VOIDED", Canceled(dog), sel') /\ SelGood(sel')
  <2> DEFINE s == sel'
             e == Canceled(dog)
  <2>1. /\ dog \in EventType /\ dog.status = "notstarted" /\ event # None
        /\ \A w \in Walkers : ~Busy(w)
    BY <1>3, AutoVoidFinds DEF CInv, AutoVoid
  <2>2. dog.score = None
    BY <1>3, <2>1 DEF CInv, IInv, Calm, Ended
  <2>3. VoidsOnly /\ url /\ outbox \in Seq(RowOf)
    BY <1>3, <2>1 DEF CInv, Current, Early, IInv, Typed, PipelineTypeOK
  <2>4. e \in EventType /\ e.status = "canceled" /\ e.score = None
    BY <2>1, <2>2, CanceledType
  <2>5. SelGood(s) /\ outbox' = Enqueued("VOIDED", e, s) /\ event' = e
    BY <1>3
  <2> HIDE DEF s, e
  <2>6. \/ outbox' = outbox /\ outbox # <<>>
        \/ \E row \in RowOf : /\ row.status = "canceled" /\ row.score = None
                              /\ outbox' = Append(outbox, row)
    BY <2>3, <2>4, <2>5, EnqueuedTells
  <2>7. /\ VoidsOnly' /\ outbox' # <<>>
        /\ outbox'[Len(outbox')].status = "canceled" /\ outbox'[Len(outbox')].score = None
    <3>1. CASE outbox' = outbox /\ outbox # <<>>
      <4>1. Len(outbox) \in DOMAIN outbox
        BY <2>3, <3>1, LastRow
      <4> QED BY <2>3, <3>1, <4>1 DEF VoidsOnly
    <3>2. ASSUME NEW row \in RowOf, row.status = "canceled", row.score = None,
                 outbox' = Append(outbox, row)
          PROVE  <2>7!1 /\ <2>7!2
      BY <2>3, <3>2, AppendTells
    <3> QED BY <2>6, <3>1, <3>2
  <2>8. LastWordIsCurrent'
    BY <2>4, <2>5, <2>7 DEF LastWordIsCurrent, Over
  <2>9. \A x \in Ends : News(x)'
    BY <2>7 DEF VoidsOnly, News, ToldBefore, Ends, Translated
  <2>10. \A w \in Walkers : ~Carries(w)'
    BY <1>1, <2>1 DEF Busy, Carries
  <2> QED BY <1>1, <2>3, <2>7, <2>8, <2>9, <2>10 DEF Current, Early, Newest
<1> QED BY <1>2, <1>3, AutoVoidFinds DEF CInv

\* The row that a walk's end is told with, or the last one that told it.
LEMMA WriteTells ==
  ASSUME CInv, NEW w \in Walkers, Write(w), walk[w].payload \in Ends
  PROVE  LET new == Translated(walk[w].payload)
         IN \/ /\ outbox' = outbox /\ outbox # <<>>
               /\ outbox[Len(outbox)].status = new.status
               /\ outbox[Len(outbox)].score = new.score
            \/ \E row \in RowOf : /\ row.status = new.status /\ row.score = new.score
                                  /\ outbox' = Append(outbox, row)
<1> DEFINE p == walk[w].payload
           new == Translated(p)
           told == /\ outbox # <<>>
                   /\ outbox[Len(outbox)].status = new.status
                   /\ outbox[Len(outbox)].score = new.score
<1>1. event = walk[w].copy /\ Carries(w) /\ p \in Listed
  BY WriteFinds DEF CInv
<1>2. /\ new \in EventType /\ new.score = p.score /\ new.status \in {"finished", "canceled"}
      /\ new.status = "finished" <=> p.says = "final"
      /\ new.status = "canceled" => new.score = None
  BY <1>1, TranslatedType DEF Ends, Listed, EventType
<1>3. ASSUME event # None, event.status = new.status, event.score = new.score PROVE told
  BY <1>2, <1>3 DEF CInv, Current, LastWordIsCurrent, Over
<1>4. CASE Stable(w)
  <2>1. event # None /\ event.status = new.status /\ event.score = new.score
    BY <1>1, <1>2, <1>4 DEF Stable
  <2>2. outbox' = outbox
    BY <1>3, <1>4, <2>1 DEF Write, WriteStable
  <2> QED BY <1>3, <2>1, <2>2
<1>5. CASE ~Stable(w)
  <2>1. PICK M \in SUBSET Markets : WriteFull(w, M)
    BY <1>5 DEF Write
  <2> DEFINE s == sel'
             name == Transition(event, new)
  <2>2. outbox' = Enqueued(name, new, s)
    BY <1>1, <2>1 DEF WriteFull
  <2>3. SelGood(s) /\ url /\ outbox \in Seq(RowOf)
    BY WriteTyped DEF CInv, Current, IInv, Typed, PipelineTypeOK
  <2>4. CASE name = "NONE"
    <3>1. outbox' = outbox
      BY <2>2, <2>4 DEF Enqueued
    <3>2. event # None /\ event.status = new.status
      BY <1>2, <2>4 DEF Transition
    <3>3. event.score = new.score
      <4>1. CASE new.status = "finished"
        BY <2>4, <4>1 DEF Transition
      <4>2. CASE new.status = "canceled"
        BY <1>2, <3>2, <4>2 DEF CInv, IInv, Calm, Ended
      <4> QED BY <1>2, <4>1, <4>2
    <3> QED BY <1>3, <3>1, <3>2, <3>3
  <2>5. CASE name # "NONE"
    <3>1. name \in {"FINALIZED", "VOIDED"}
      BY <2>5, TransitionType
    <3> HIDE DEF s, name, new
    <3>2. \/ /\ outbox' = outbox
             /\ \E i \in DOMAIN outbox :
                  outbox[i].status = new.status /\ outbox[i].score = new.score
          \/ \E row \in RowOf : /\ row.status = new.status /\ row.score = new.score
                                /\ outbox' = Append(outbox, row)
      BY <1>2, <2>2, <2>3, <3>1, EnqueuedTells
    <3>3. ASSUME NEW i \in DOMAIN outbox, outbox[i].status = new.status, outbox[i].score = new.score
          PROVE  told
      <4>1. ToldBefore(p)
        BY <1>2, <3>3 DEF ToldBefore, new
      <4>2. Matches(p) \/ (p.says = "void" /\ VoidsOnly)
        BY <1>1, <4>1 DEF CInv, Current, Newest, News
      <4>3. CASE Matches(p)
        BY <1>2, <1>3, <4>3 DEF Matches, new
      <4>4. CASE p.says = "void" /\ VoidsOnly
        <5>1. outbox # <<>> /\ Len(outbox) \in DOMAIN outbox
          BY <2>3, <3>3, LastRow
        <5>2. new.status = "canceled" /\ new.score = None
          BY <1>2, <4>4
        <5> QED BY <4>4, <5>1, <5>2 DEF VoidsOnly
      <4> QED BY <4>2, <4>3, <4>4
    <3> QED BY <3>2, <3>3 DEF new
  <2> QED BY <2>4, <2>5
<1> QED BY <1>4, <1>5

LEMMA WriteCurrent ==
  ASSUME CInv, NEW w \in Walkers, Write(w)
  PROVE  Current'
<1> DEFINE p == walk[w].payload
           new == Translated(p)
<1>1. event = walk[w].copy /\ Carries(w) /\ p \in Listed /\ event' = new
  BY WriteFinds DEF CInv
<1>2. /\ new \in EventType /\ new.score = p.score
      /\ new.status = "notstarted" <=> p.says = "pending"
      /\ p \in Ends <=> p.says # "pending"
  BY <1>1, TranslatedType
<1>3. UNCHANGED <<feed, url>> /\ url
  BY DEF Write, CInv, Current
<1>4. \A v \in Walkers : ~Carries(v)'
  <2>1. SetWalk(w, [walk[w] EXCEPT !.pc = "reconcile", !.copy = None]) /\ walk[w].pc # "idle"
    BY DEF Write
  <2> QED BY <2>1, PastCalm DEF CInv, Carries
<1>5. outbox \in Seq(RowOf)
  BY DEF CInv, IInv, Typed, PipelineTypeOK
<1>6. CASE p.says = "pending"
  <2>1. VoidsOnly
    BY <1>1, <1>6 DEF CInv, Current, Early
  <2>2. ~Stable(w) /\ Transition(walk[w].copy, new) = "NONE"
    BY <1>2, <1>6 DEF Stable, Transition
  <2>3. outbox' = outbox
    BY <2>2 DEF Write, WriteFull, Enqueued
  <2>4. VoidsOnly'
    BY <2>1, <2>3 DEF VoidsOnly
  <2>5. \A x \in Ends : News(x)'
    BY <2>4 DEF VoidsOnly, News, ToldBefore, Ends, Translated
  <2>6. ~Over(event)'
    BY <1>1, <1>2, <1>6 DEF Over
  <2> QED BY <1>3, <1>4, <2>4, <2>5, <2>6 DEF Current, Early, Newest, LastWordIsCurrent
<1>7. CASE p \in Ends
  <2>1. feed \in Ends /\ (feed = p \/ ~ToldBefore(feed))
    BY <1>1, <1>7 DEF CInv, Current, Newest, IInv, Calm, Flight
  <2>2. \/ /\ outbox' = outbox /\ outbox # <<>>
           /\ outbox[Len(outbox)].status = new.status /\ outbox[Len(outbox)].score = new.score
        \/ \E row \in RowOf : /\ row.status = new.status /\ row.score = new.score
                              /\ outbox' = Append(outbox, row)
    BY <1>7, WriteTells
  <2>3. /\ outbox' # <<>> /\ outbox'[Len(outbox')].status = new.status
        /\ outbox'[Len(outbox')].score = new.score
        /\ ToldBefore(feed)' => ToldBefore(feed) \/
             (new.status = Translated(feed).status /\ new.score = feed.score)
    <3>1. CASE outbox' = outbox
      BY <1>3, <2>2, <3>1, AppendElements, <1>5 DEF ToldBefore
    <3>2. ASSUME NEW row \in RowOf, row.status = new.status, row.score = new.score,
                 outbox' = Append(outbox, row)
          PROVE  /\ outbox' # <<>> /\ outbox'[Len(outbox')].status = new.status
                 /\ outbox'[Len(outbox')].score = new.score
                 /\ ToldBefore(feed)' => ToldBefore(feed) \/
                      (new.status = Translated(feed).status /\ new.score = feed.score)
      <4>1. /\ outbox' # <<>> /\ outbox'[Len(outbox')] = row
            /\ \A x : ToldBefore(x)' <=>
                 ToldBefore(x) \/ (row.status = Translated(x).status /\ row.score = x.score)
        BY <1>5, <3>2, AppendTells
      <4>2. ToldBefore(feed)' <=> ToldBefore(feed) \/
              (row.status = Translated(feed).status /\ row.score = feed.score)
        BY <1>3, <4>1 DEF ToldBefore
      <4> QED BY <3>2, <4>1, <4>2
    <3> QED BY <2>2, <3>1, <3>2
  <2>4. event'.status = new.status /\ event'.score = new.score /\ event' # None
    BY <1>1, <1>2, PipelineAssumption
  <2>5. CASE feed = p
    <3>1. Matches(feed)'
      BY <1>2, <1>3, <2>4, <2>5 DEF Matches
    <3> QED BY <1>2, <1>3, <1>4, <1>7, <2>1, <2>3, <2>4, <3>1
            DEF Current, Early, Newest, News, LastWordIsCurrent
  <2>6. CASE feed # p
    <3>1. ~ToldBefore(feed)'
      BY <1>2, <1>7, <2>1, <2>3, <2>6, EndsDiffer
    <3> QED BY <1>2, <1>3, <1>4, <1>7, <2>1, <2>3, <2>4, <3>1
            DEF Current, Early, Newest, News, LastWordIsCurrent
  <2> QED BY <2>5, <2>6
<1> QED BY <1>2, <1>6, <1>7

LEMMA NextCurrent == Connected /\ CInv /\ [PipelineNext]_pipelineVars => CInv'
<1> SUFFICES ASSUME Connected, CInv, [PipelineNext]_pipelineVars PROVE Current'
  BY NextCalm DEF CInv, Connected
<1>1. ASSUME NEW w \in Walkers, WalkStep(w) PROVE Current'
  BY <1>1, WalkCurrent, WriteCurrent DEF WalkStep
<1>2. ASSUME NEW w \in Walkers, NEW mode \in Modes, Fetch(w, mode) PROVE Current'
  BY <1>2, FetchCurrent DEF Connected
<1>3. ASSUME NEW x \in FeedType, FeedStep(x) PROVE Current'
  BY <1>3, FeedCurrent
<1>4. CASE \/ Scan \/ BackfillReads \/ BackfillWrites \/ BackfillVoids
           \/ (\E b \in Bets : PlaceBet(b)) \/ Hour \/ Days \/ UNCHANGED pipelineVars
  <2>1. UNCHANGED <<feed, event, outbox, url, walk>>
    BY <1>4 DEF Scan, BackfillReads, BackfillWrites, BackfillVoids,
              PlaceBet, Hour, Days, pipelineVars, dbVars
  <2> QED BY <2>1, SameCurrent
<1>5. ~RedeployUrl
  BY DEF RedeployUrl, Connected
<1> QED BY <1>1, <1>2, <1>3, <1>4, <1>5, AutoVoidCurrent, VacuumCurrent, ForceCurrent DEF PipelineNext

\* As long as transactions do not overlap and the URL stays set, through blips,
\* corrections, outages, failures and work by hand: the newest row says how the
\* event row ended, and with which score.
THEOREM LastWordStaysCurrent == Connected /\ PipelineSpec => []LastWordIsCurrent
<1> SUFFICES ASSUME Connected PROVE PipelineSpec => []LastWordIsCurrent
  OBVIOUS
<1>1. CInv => LastWordIsCurrent
  BY DEF CInv, Current
<1>2. PipelineInit => CInv
  BY InitCurrent
<1>3. CInv /\ [PipelineNext]_pipelineVars => CInv'
  BY NextCurrent
<1> QED BY <1>1, <1>2, <1>3, PTL DEF PipelineSpec

\* Only the vacuum deletes an event, and it finds one that has ended, which the
\* newest row tells.
LEMMA VacuumFindsItTold ==
  ASSUME CInv, PipelineNext, event # None, event' = None
  PROVE  \E i \in DOMAIN outbox : outbox[i].status = event.status
<1>1. CASE VacuumEvent
  <2>1. Over(event)
    BY <1>1 DEF VacuumEvent, Over, CInv, IInv, Calm, Ended
  <2>2. Len(outbox) \in DOMAIN outbox
    BY <2>1, LastRow DEF CInv, Current, LastWordIsCurrent, IInv, Typed, PipelineTypeOK
  <2> QED BY <2>1, <2>2 DEF CInv, Current, LastWordIsCurrent
<1>2. ASSUME NEW w \in Walkers, Write(w) PROVE FALSE
  <2>1. event' \in EventType
    BY <1>2, WriteFinds, TranslatedType DEF CInv
  <2> QED BY <2>1, PipelineAssumption
<1>3. CASE AutoVoid
  <2>1. event' = Canceled(dog) /\ dog \in EventType
    BY <1>3, AutoVoidFinds DEF CInv
  <2> QED BY <2>1, CanceledType, PipelineAssumption
<1>4. ASSUME NEW w \in Walkers, NEW mode \in Modes, Fetch(w, mode) PROVE FALSE
  BY <1>4 DEF Fetch, dbVars
<1>5. ASSUME NEW w \in Walkers, Read(w) \/ WriteFails(w) \/ WalkFails(w) \/ Reconcile(w)
      PROVE  FALSE
  BY <1>5 DEF Read, WriteFails, WalkFails, Reconcile, dbVars
<1>6. CASE \/ Scan \/ BackfillReads \/ BackfillWrites \/ BackfillVoids \/ ForceEnqueue
           \/ \E b \in Bets : PlaceBet(b)
           \/ \E x \in FeedType : FeedStep(x)
           \/ Hour \/ Days \/ RedeployUrl
  BY <1>6 DEF Scan, BackfillReads, BackfillWrites, BackfillVoids,
              ForceEnqueue, PlaceBet, FeedStep, Hour, Days, RedeployUrl, dbVars
<1> QED BY <1>1, <1>2, <1>3, <1>4, <1>5, <1>6 DEF PipelineNext, WalkStep

\* Under the same conditions the vacuum deletes no event whose end was not told
\* (vacuum.py deletes what is final, finished or canceled, and its rows).
THEOREM NothingDeletedUntold == Connected /\ PipelineSpec => DeletedWasTold
<1> SUFFICES ASSUME Connected PROVE PipelineSpec => DeletedWasTold
  OBVIOUS
<1>1. CInv /\ [PipelineNext]_pipelineVars =>
        [event # None /\ event' = None =>
           \E i \in DOMAIN outbox : outbox[i].status = event.status]_pipelineVars
  BY VacuumFindsItTold
<1>2. PipelineInit => CInv
  BY InitCurrent
<1>3. CInv /\ [PipelineNext]_pipelineVars => CInv'
  BY NextCurrent
<1> QED BY <1>1, <1>2, <1>3, PTL DEF PipelineSpec, DeletedWasTold
===============================================================================
