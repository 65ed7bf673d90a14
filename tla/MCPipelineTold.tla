---------------------------- MODULE MCPipelineTold ----------------------------
(* Two instances of EventPipeline for one run: two walks that overlap each *)
(* other, the watchdog and the nightly settlement, with one score; and one *)
(* walk that overlaps the watchdog, with scores that are corrected, events *)
(* that vanish, hours without a walk, and redeploys without the receiver's *)
(* URL.  In each behaviour one moves, the other stays as it starts.        *)
EXTENDS MCEventPipeline

VARIABLES
  overlaps,   \* the first of the two moves
  cfeed, cage, cevent, cunseen, csel, cbet, coutbox, curl, cwalk, cdog, cfill

Corrected == INSTANCE EventPipeline WITH
  Walkers <- {"w"}, Scores <- MCScores, PipelineFaults <- CorrectedFaults,
  feed <- cfeed, age <- cage, event <- cevent, unseen <- cunseen, sel <- csel, bet <- cbet,
  outbox <- coutbox, url <- curl, walk <- cwalk, dog <- cdog, fill <- cfill

cvars == <<cfeed, cage, cevent, cunseen, csel, cbet, coutbox, curl, cwalk, cdog, cfill>>
toldVars == <<overlaps, pipelineVars, cvars>>

ToldInit == overlaps \in BOOLEAN /\ PipelineInit /\ Corrected!PipelineInit
Overlaps(A) == overlaps /\ A /\ UNCHANGED <<overlaps, cvars>>
Corrects(A) == ~ overlaps /\ A /\ UNCHANGED <<overlaps, pipelineVars>>
ToldNext == Overlaps(PipelineNext) \/ Corrects(Corrected!PipelineNext)

\* The crons tick, and a started transaction ends.
ToldSpec ==
  /\ ToldInit /\ [][ToldNext]_toldVars
  /\ \A w \in Walkers : /\ WF_toldVars(Overlaps(\E mode \in Modes : Fetch(w, mode)))
                        /\ WF_toldVars(Overlaps(WalkStep(w)))
  /\ WF_toldVars(Overlaps(AutoVoid)) /\ WF_toldVars(Overlaps(BackfillWrites))
  /\ WF_toldVars(Corrects(\E mode \in Modes : Corrected!Fetch("w", mode)))
  /\ WF_toldVars(Corrects(Corrected!WalkStep("w")))
  /\ WF_toldVars(Corrects(Corrected!AutoVoid)) /\ WF_toldVars(Corrects(Corrected!BackfillWrites))

\* FinalIsTold of either.
FinalsAreTold == FinalIsTold /\ Corrected!FinalIsTold
===============================================================================
