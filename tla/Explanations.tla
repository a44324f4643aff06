---------------------------- MODULE Explanations ----------------------------
(***************************************************************************)
(* The explanation of a recommendation (popup/Dashboard.tsx,               *)
(* popup/ai-explain.ts): a click asks a paid service, behind a limiter in  *)
(* the popup's memory and a count in local storage.  Nothing stops a       *)
(* second click while a call is under way, and the memory is gone with the *)
(* popup.                                                                  *)
(***************************************************************************)
EXTENDS Integers, FiniteSets

CONSTANTS
    MaxRequests,    \* RATE_LIMIT_MAX_REQUESTS
    Window,         \* RATE_LIMIT_WINDOW_MS
    MaxDashboards,  \* bound: how often the popup is opened
    MaxExplains,    \* bound: calls
    MaxExplainTime  \* bound

ASSUME ExplainAssumption ==
    /\ {MaxRequests, Window} \subseteq Nat \ {0}
    /\ {MaxDashboards, MaxExplains, MaxExplainTime} \subseteq Nat

VARIABLES
    savedKey,       \* the stored key: none, one of the wrong form, one that passes
    dialog,         \* the dashboard of the popup, and its dialog
    explains,       \* the calls of generateAIExplanation under way
    memory,         \* memoryLimiter's times, each with the call that left it
    aiRateLimit,    \* the count in local storage, if there is one
    explainTime,
    departed,       \* auxiliary: the calls that left for the service, as [life, at]
    asked           \* auxiliary: calls so far

explainVars == <<savedKey, dialog, explains, memory, aiRateLimit, explainTime, departed, asked>>

\* best: the recommendation has a best strategy; explanation: its text is not blank
\* auxiliary: clicked, the last click found a key; blank, so was the last answer
\* since; hung, a call of this life hangs
ClosedDashboard(life) ==
    [open |-> FALSE, life |-> life, best |-> FALSE, apiKey |-> "none", loading |-> FALSE,
     explanation |-> FALSE, error |-> FALSE, clicked |-> FALSE, blank |-> FALSE,
     hung |-> FALSE]

ExplainInit ==
    /\ savedKey \in {"none", "malformed", "valid"}
    /\ dialog = ClosedDashboard(0) /\ explains = {} /\ memory = {}
    /\ aiRateLimit = {} /\ explainTime = 0 /\ departed = {} /\ asked = 0

-----------------------------------------------------------------------------
\* the button that explains is there without a best strategy too
OpenDashboard ==
    /\ ~dialog.open /\ dialog.life < MaxDashboards
    /\ \E best \in BOOLEAN :
          dialog' = [ClosedDashboard(dialog.life) EXCEPT !.open = TRUE, !.best = best]
    /\ UNCHANGED <<savedKey, explains, memory, aiRateLimit, explainTime, departed, asked>>

\* the dashboard's effect, whenever the storage answers
KeyArrives ==
    /\ dialog.open /\ dialog.apiKey = "none" /\ savedKey # "none"
    /\ dialog' = [dialog EXCEPT !.apiKey = savedKey]
    /\ UNCHANGED <<savedKey, explains, memory, aiRateLimit, explainTime, departed, asked>>

\* everything of the page is lost, and what has left has left
CloseDashboard ==
    /\ dialog.open
    /\ dialog' = ClosedDashboard(dialog.life + 1)
    /\ explains' = {} /\ memory' = {}
    /\ UNCHANGED <<savedKey, aiRateLimit, explainTime, departed, asked>>

\* handleExplainClick, up to its first call; with nothing to explain it returns
\* after loading has begun, and the finally ends that
HandleExplainClick ==
    /\ dialog.open
    /\ LET cleared == [dialog EXCEPT !.explanation = FALSE, !.error = FALSE,
                                     !.clicked = dialog.apiKey # "none", !.blank = FALSE]
       IN  \/ /\ dialog.apiKey = "none"
              /\ dialog' = cleared
              /\ UNCHANGED <<explains, asked>>
           \/ /\ dialog.apiKey = "malformed"
              /\ dialog' = [cleared EXCEPT !.error = TRUE]
              /\ UNCHANGED <<explains, asked>>
           \/ /\ dialog.apiKey = "valid" /\ ~dialog.best
              /\ dialog' = [cleared EXCEPT !.loading = FALSE]
              /\ UNCHANGED <<explains, asked>>
           \/ /\ dialog.apiKey = "valid" /\ dialog.best /\ asked < MaxExplains
              /\ dialog' = [cleared EXCEPT !.loading = TRUE]
              /\ explains' = explains \cup {[id |-> asked, step |-> "limiter", now |-> 0,
                                             read |-> {}]}
              /\ asked' = asked + 1
    /\ UNCHANGED <<savedKey, memory, aiRateLimit, explainTime, departed>>

Outcomes == {"text", "blank", "failure"}

Shown(outcome) ==
    CASE outcome = "text" -> [dialog EXCEPT !.explanation = TRUE, !.blank = FALSE]
      [] outcome = "blank" -> [dialog EXCEPT !.explanation = FALSE, !.blank = TRUE]
      [] outcome = "failure" -> [dialog EXCEPT !.error = TRUE]

\* a plausible slip: what follows the await is skipped when it throws
Settle_NoFinally(outcome) ==
    dialog' = IF outcome = "failure" THEN Shown(outcome)
              ELSE [Shown(outcome) EXCEPT !.loading = FALSE]

\* try, catch, finally: whichever call ends, it writes the one dialog
Settle(outcome) == dialog' = [Shown(outcome) EXCEPT !.loading = FALSE]

To(call, step) == (explains \ {call}) \cup {[call EXCEPT !.step = step]}

-----------------------------------------------------------------------------
(* isRateLimited                                                           *)

InWindow(times) == {t \in times : explainTime - t.at < Window}

\* a plausible slip: the count in storage is trusted alone
FullMemory_Never(times) == FALSE

FullMemory(times) == Cardinality(InWindow(times)) >= MaxRequests

\* the limiter of the popup, and storage.get, which is sent with the time of now
AskLimiter(call) ==
    /\ call.step = "limiter"
    /\ \/ /\ FullMemory(memory)
          /\ Settle("failure")
          /\ explains' = explains \ {call}
          /\ memory' = InWindow(memory)
       \/ /\ ~FullMemory(memory)
          /\ memory' = InWindow(memory) \cup {[id |-> call.id, at |-> explainTime]}
          /\ explains' = (explains \ {call}) \cup
                            {[call EXCEPT !.step = "storage", !.now = explainTime]}
          /\ UNCHANGED dialog
    /\ UNCHANGED <<savedKey, aiRateLimit, explainTime, departed, asked>>

StorageIsRead(call) ==
    /\ call.step = "storage"
    /\ explains' = (explains \ {call}) \cup
                      {[call EXCEPT !.step = "decide", !.read = aiRateLimit]}
    /\ UNCHANGED <<savedKey, dialog, memory, aiRateLimit, explainTime, departed, asked>>

\* the callback of a get that failed throws, and the promise stays as it is
StorageFails(call) ==
    /\ call.step = "storage"
    /\ explains' = explains \ {call}
    /\ dialog' = [dialog EXCEPT !.hung = TRUE]
    /\ UNCHANGED <<savedKey, memory, aiRateLimit, explainTime, departed, asked>>

\* the callback: a new window, a full one, or one more; then the call leaves
DecideExplain(call) ==
    /\ call.step = "decide"
    /\ LET current == {d \in call.read : call.now - d.windowStart <= Window}
       IN  \/ /\ \E d \in current : d.count >= MaxRequests
              /\ Settle("failure")
              /\ explains' = explains \ {call}
              /\ UNCHANGED <<aiRateLimit, departed>>
           \/ /\ \A d \in current : d.count < MaxRequests
              /\ aiRateLimit' = IF current = {} THEN {[count |-> 1, windowStart |-> call.now]}
                                ELSE {[d EXCEPT !.count = @ + 1] : d \in current}
              /\ explains' = To(call, "service")
              /\ departed' = departed \cup
                    {[id |-> call.id, life |-> dialog.life, at |-> call.now]}
              /\ UNCHANGED dialog
    /\ UNCHANGED <<savedKey, memory, explainTime, asked>>

\* a text, which is trimmed and may be blank then; or an error status, an empty
\* answer or no answer
ServiceAnswers(call, outcome) ==
    /\ call.step = "service"
    /\ Settle(outcome)
    /\ explains' = explains \ {call}
    /\ UNCHANGED <<savedKey, memory, aiRateLimit, explainTime, departed, asked>>

ExplainTick ==
    /\ explainTime < MaxExplainTime
    /\ explainTime' = explainTime + 1
    /\ UNCHANGED <<savedKey, dialog, explains, memory, aiRateLimit, departed, asked>>

ExplainNext ==
    \/ OpenDashboard \/ KeyArrives \/ CloseDashboard \/ HandleExplainClick
    \/ \E call \in explains :
          \/ AskLimiter(call) \/ StorageIsRead(call) \/ StorageFails(call)
          \/ DecideExplain(call)
          \/ \E outcome \in Outcomes : ServiceAnswers(call, outcome)
    \/ ExplainTick

ExplainSpec == ExplainInit /\ [][ExplainNext]_explainVars

-----------------------------------------------------------------------------
(* What is promised                                                        *)

\* However clicks overlap, once the calls are over the dialog that was opened
\* with a key has stopped loading and shows a text or an error, unless a get of
\* the storage failed, the last answer was blank, or there was no best strategy
\* to ask about (handleExplainClick, generateAIExplanation).
QuietDialogAnswers ==
    dialog.open /\ dialog.clicked /\ explains = {} /\ ~dialog.hung =>
        /\ ~dialog.loading
        /\ \/ dialog.explanation \/ dialog.error \/ dialog.blank
           \/ dialog.apiKey = "valid" /\ ~dialog.best

\* One popup is admitted at most MaxRequests calls of the paid service in a
\* window, although the count in storage is read and written by overlapping
\* calls (isRateLimited: the limiter in memory comes first).
CallsArePaced ==
    \A d \in departed :
        Cardinality({e \in departed : e.life = d.life /\ e.at \in d.at..(d.at + Window - 1)})
            <= MaxRequests
=============================================================================
