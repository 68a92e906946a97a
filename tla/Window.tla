------------------------------- MODULE Window -------------------------------
(***************************************************************************)
(* memory.Window: the bounded conversation a caller appends to while       *)
(* snapshots, which may summarise outside the data lock, trim it.          *)
(*                                                                         *)
(* A message is [role, n, cost]: n numbers the messages in the order they  *)
(* were appended, cost is its estimated tokens. The summary is the         *)
(* sequence of summaries folded into it, each the messages it stands for.  *)
(***************************************************************************)
EXTENDS Naturals, Sequences, FiniteSets, SequencesExt, FiniteSetsExt

CONSTANTS
  Snapper,        \* the goroutines that take snapshots
  Nobody,
  MaxAppends,     \* bound
  MaxSnapshots,   \* bound
  Costs,          \* estimated tokens of a message
  SummaryCost,    \* estimated tokens of one summary
  HeaderCost      \* and of "Conversation summary so far:", put before them

ASSUME WindowAssumption ==
  /\ Nobody \notin Snapper /\ Costs \subseteq Nat
  /\ SummaryCost \in Nat /\ HeaderCost \in Nat

VARIABLES
  caps,       \* [messages, tokens, summarizer], 0 for no cap
  messages, summary,
  snapMu,     \* the goroutine that holds it, or Nobody
  snap,       \* per goroutine: [at, start, evicted, text]
  snapshot,   \* the last snapshot returned
  appended,   \* history: every message appended
  lost,       \* history: messages evicted without a summary
  squeezed,   \* history: those of them that enforceCapsLocked dropped
  failed,     \* history: the Summarizer has failed, or given no text
  snapshots   \* history: snapshots begun

windowVars == <<caps, messages, summary, snapMu, snap, snapshot, appended, lost, squeezed,
                failed, snapshots>>

Idle == [at |-> "idle", start |-> 0, evicted |-> << >>, text |-> << >>]

IsSystem(ms) == ms # << >> /\ Head(ms).role = "system"
SystemOf(ms) == IF IsSystem(ms) THEN <<Head(ms)>> ELSE << >>
BodyOf(ms) == IF IsSystem(ms) THEN Tail(ms) ELSE ms

Tokens(ms) ==
  LET upTo[n \in 0 .. Len(ms)] == IF n = 0 THEN 0 ELSE upTo[n - 1] + ms[n].cost
  IN upTo[Len(ms)]

(* A slot is kept for the summary as soon as there may be one.             *)
Fits(sys, kept, summed) ==
  LET slot == IF summed # << >> \/ caps.summarizer THEN 1 ELSE 0
  IN /\ caps.messages = 0 \/ Len(sys) + slot + Len(kept) <= caps.messages
     /\ \/ caps.tokens = 0
        \/ Tokens(sys) + SummaryCost * Len(summed) + Tokens(kept) <= caps.tokens

(* evictionPlanLocked: how many of the oldest messages must go.            *)
Plan(ms, summed) ==
  LET body == BodyOf(ms) IN
  Min({n \in 0 .. Len(body) :
         n = Len(body) \/ Fits(SystemOf(ms), SubSeq(body, n + 1, Len(body)), summed)})

Without(ms, n) == SystemOf(ms) \o SubSeq(BodyOf(ms), n + 1, Len(BodyOf(ms)))

Evicted(ms, n) == ToSet(SubSeq(BodyOf(ms), 1, Min({n, Len(BodyOf(ms))})))

-----------------------------------------------------------------------------
(* Append and AppendAll.                                                   *)
AppendMessage ==
  /\ Len(appended) < MaxAppends
  /\ \E role \in {"system", "user"}, cost \in Costs :
       LET m == [role |-> role, n |-> Len(appended) + 1, cost |-> cost] IN
       /\ messages' = Append(messages, m)
       /\ appended' = Append(appended, m)
  /\ UNCHANGED <<caps, summary, snapMu, snap, snapshot, lost, squeezed, failed, snapshots>>

(* Slip: the snapshots are not serialised. *)
PlanUnserialized(t) ==
  /\ snap[t].at = "idle" /\ snapshots < MaxSnapshots
  /\ snapMu' = t /\ snapshots' = snapshots + 1
  /\ LET start == Plan(messages, summary) IN
     snap' = [snap EXCEPT ![t] =
       [at |-> "planned", start |-> start, text |-> << >>,
        evicted |-> IF caps.summarizer THEN SubSeq(BodyOf(messages), 1, start) ELSE << >>]]
  /\ UNCHANGED <<caps, messages, summary, snapshot, appended, lost, squeezed, failed>>

(* Phase 1: under both locks, decide what goes.                            *)
PlanEviction(t) ==
  /\ snap[t].at = "idle" /\ snapMu = Nobody /\ snapshots < MaxSnapshots
  /\ snapMu' = t /\ snapshots' = snapshots + 1
  /\ LET start == Plan(messages, summary) IN
     snap' = [snap EXCEPT ![t] =
       [at |-> "planned", start |-> start, text |-> << >>,
        evicted |-> IF caps.summarizer THEN SubSeq(BodyOf(messages), 1, start) ELSE << >>]]
  /\ UNCHANGED <<caps, messages, summary, snapshot, appended, lost, squeezed, failed>>

(* Phase 2: the Summarizer runs, or fails, outside the data lock.          *)
Summarize(t) ==
  /\ snap[t].at = "planned"
  /\ \E ok \in IF snap[t].evicted = << >> THEN {FALSE} ELSE BOOLEAN :
       /\ snap' = [snap EXCEPT ![t].at = "summarized",
                               ![t].text = IF ok THEN <<snap[t].evicted>> ELSE << >>]
       /\ failed' = (failed \/ (~ok /\ snap[t].evicted # << >>))
  /\ UNCHANGED <<caps, messages, summary, snapMu, snapshot, appended, lost, squeezed, snapshots>>

(* buildSnapshotLocked: a summary comes under a header of its own.         *)
Snapshot(ms, summed) ==
  [sys |-> SystemOf(ms), header |-> IF summed = << >> THEN 0 ELSE HeaderCost,
   summary |-> summed, body |-> BodyOf(ms)]

(* Phase 3: fold the summary, drop the prefix by its length, drop more     *)
(* (enforceCapsLocked) while the caps are still exceeded, and build.       *)
Fold(t) ==
  /\ snap[t].at = "summarized"
  /\ LET start  == snap[t].start
         summed == summary \o snap[t].text
         ms     == IF start > 0 THEN Without(messages, start) ELSE messages
         more   == Plan(ms, summed)
         final  == Without(ms, more)
     IN /\ summary' = summed
        /\ messages' = final
        /\ lost' = lost \cup Evicted(ms, more)
                     \cup IF snap[t].text = << >> THEN Evicted(messages, start) ELSE {}
        /\ squeezed' = squeezed \cup Evicted(ms, more)
        /\ snapshot' = Snapshot(final, summed)
  /\ snap' = [snap EXCEPT ![t] = Idle]
  /\ snapMu' = Nobody
  /\ UNCHANGED <<caps, appended, failed, snapshots>>

-----------------------------------------------------------------------------
WindowInit ==
  /\ caps \in [messages : {0, 2, 3}, tokens : {0, 3}, summarizer : BOOLEAN]
  /\ messages = << >> /\ summary = << >>
  /\ snapMu = Nobody
  /\ snap = [t \in Snapper |-> Idle]
  /\ snapshot = Snapshot(<< >>, << >>)
  /\ appended = << >> /\ lost = {} /\ squeezed = {} /\ failed = FALSE
  /\ snapshots = 0

WindowNext ==
  \/ AppendMessage
  \/ \E t \in Snapper : PlanEviction(t) \/ Summarize(t) \/ Fold(t)

WindowSpec == WindowInit /\ [][WindowNext]_windowVars

-----------------------------------------------------------------------------
(* What a snapshot counts against the caps, with a summary for one message *)
(* and the header that fits leaves out.                                    *)
CountOf(sn) == Len(sn.sys) + (IF sn.summary = << >> THEN 0 ELSE 1) + Len(sn.body)
TokensOf(sn) ==
  Tokens(sn.sys) + sn.header + SummaryCost * Len(sn.summary) + Tokens(sn.body)

Honors(sn, slack) ==
  /\ caps.messages = 0 \/ CountOf(sn) <= caps.messages
  /\ caps.tokens = 0 \/ TokensOf(sn) <= caps.tokens + slack

(***************************************************************************)
(* Appends and snapshots may interleave as they like around the slow       *)
(* summariser: every message is kept, summarised or evicted, once; the     *)
(* summaries and then the kept messages stand in the order of the          *)
(* conversation; while a Summarizer gives its text, only what the second   *)
(* look at the caps drops goes unsummarised; and a snapshot exceeds        *)
(* MaxMessages only when nothing is left to evict, MaxTokens only then or  *)
(* by no more than the header of its summary.                              *)
(***************************************************************************)
ConversationIsKept ==
  LET summed == FlattenSeq(summary)
      kept   == BodyOf(messages)
      told   == summed \o kept
  IN /\ \A i, j \in DOMAIN told : i < j => told[i].n < told[j].n
     /\ ToSet(told) \cap lost = {}
     /\ ToSet(told) \cup ToSet(SystemOf(messages)) \cup lost = ToSet(appended)
     /\ caps.summarizer /\ ~failed => lost = squeezed
     /\ snapshot.body # << >> => Honors(snapshot, HeaderCost)

(***************************************************************************)
(* The comment on the second look at the caps: "These extra drops aren't   *)
(* summarized this round; the next Snapshot will fold them if a Summarizer *)
(* is set." So what was dropped there before a snapshot ends is in the     *)
(* summary when it does, if the Summarizer always gave its text.           *)
(***************************************************************************)
DropsAreFolded ==
  [][\A t \in Snapper : Fold(t) /\ caps.summarizer /\ ~failed =>
        squeezed \subseteq ToSet(FlattenSeq(summary'))]_windowVars

(***************************************************************************)
(* The same comment: "so the returned snapshot honors MaxTokens /          *)
(* MaxMessages", while there is a message left to drop.                    *)
(***************************************************************************)
SnapshotsHonorTheCaps == snapshot.body # << >> => Honors(snapshot, 0)

=============================================================================
