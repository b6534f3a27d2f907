------------------------------- MODULE AiChat -------------------------------
(***************************************************************************)
(* The full-page AI chat of one user: the page that shows a thread and the *)
(* latest dashboard (useAiChat), the ai.chat procedure that streams a turn *)
(* and saves the session when it is over, and the session rows.            *)
(*                                                                         *)
(* A turn is known by its number, its entries in a thread by number and    *)
(* kind, a session row by the turn that inserted it, a dashboard by the    *)
(* turn that composed it (0 is none).  Text deltas and tool chips only     *)
(* change what is drawn and are left out; sharing and deleting sessions,   *)
(* titles, empty replies and the choice of agent and model are too.  The   *)
(* thread is sent as its last Keep entries (40 in the code); the row's own *)
(* cap of 200 is never reached.                                            *)
(***************************************************************************)
EXTENDS Integers, FiniteSets, Sequences, SequencesExt

CONSTANTS
    Keep,        \* entries of a thread that are sent back
    MaxTools,    \* bound: research tool calls of a turn
    MaxTurns,    \* bound: messages sent
    MaxPages,    \* bound: times a chat page is opened
    MaxFaults    \* bound: failed generations, saves and connections

ASSUME BoundsAssumption ==
    {Keep, MaxTools, MaxTurns, MaxPages, MaxFaults} \subseteq Nat /\ MaxTurns > 0

VARIABLES
    page,      \* the mounted page: what it shows and refers to
    turn,      \* each turn: the client's loop, the stream and the procedure
    rows,      \* ai_session: thread and dashboard by row
    cache,     \* the client's copies of rows it has loaded (react-query)
    faults,
    settled,   \* history: what the page shows was last stored or loaded, not sent
    loose      \* history: why the page's copy may be behind its row (see below)

chatVars == <<page, turn, rows, cache, faults, settled, loose>>

Turns == 1..MaxTurns
Absent == [thread |-> <<>>, art |-> 0]     \* a stored thread is never empty

Unsent == [phase |-> "unsent", page |-> 0, open |-> FALSE, aborted |-> FALSE, live |-> FALSE,
           prior |-> <<>>, base |-> 0, row |-> 0,
           tools |-> <<>>, art |-> FALSE, wire |-> <<>>, got |-> <<>>]
Over == [Unsent EXCEPT !.phase = "over"]

(* A turn neither end of which can change anything any more.  What a severed *)
(* one still does (its tools run, its reply is thrown away) is not followed. *)
Retired(t) ==
    IF ~t.open /\ (~t.live \/ t.phase \in {"ended", "failed"}) THEN Over ELSE t

Blank(k, id) ==
    [no |-> k, id |-> id, thread |-> <<>>, shown |-> 0, chat |-> id, current |-> 0,
     hydrated |-> id = 0, asked |-> id = 0, query |-> Absent]

(* Turn 1 was over before, in a tab that is closed: one chat is stored.      *)
Earlier == [thread |-> <<<<1, "user">>, <<1, "artifact">>>>, art |-> 1]

ChatInit ==
    /\ \E id \in {0, 1} :
          /\ page = Blank(1, id)
          /\ settled = (id # 0) /\ loose = (id # 0)
    /\ turn = [n \in Turns |-> IF n = 1 THEN Over ELSE Unsent]
    /\ rows = [n \in Turns |-> IF n = 1 THEN Earlier ELSE Absent]
    /\ cache = [n \in Turns |-> Absent]
    /\ faults = 0

Latest(k, s) == SubSeq(s, Len(s) - (IF Len(s) < k THEN Len(s) ELSE k) + 1, Len(s))
NotPending(e) == e[2] # "pending"

(* What is kept, in order: SelectSeq by position, since its recursion is     *)
(* beyond the provers.                                                       *)
WithoutPending(thread) ==
    LET kept == {i \in DOMAIN thread : NotPending(thread[i])}
        Nth(j) == CHOOSE i \in kept : Cardinality({h \in kept : h <= i}) = j
    IN  [j \in 1..Cardinality(kept) |-> thread[Nth(j)]]
ToServer(thread) == Latest(Keep, WithoutPending(thread))

(* The page, or the row after it, no longer follows this turn.               *)
Abandoned(n) == turn[n].aborted \/ turn[n].page # page.no

-----------------------------------------------------------------------------
(* The page.  Opening another chat mounts a new instance of the hook (the    *)
(* page is keyed by the id); the loop of the old one goes on, but what it    *)
(* sets is no longer shown, and nothing aborts its request.  A copy that is  *)
(* still cached hydrates the page at once, and only once; it may have been   *)
(* dropped (five minutes unused, a reload of the tab).                       *)
Hydrated(p, id, copy) ==
    [p EXCEPT !.thread = copy.thread, !.shown = copy.art, !.chat = id,
              !.current = 0, !.hydrated = TRUE]

Open(id) ==
    /\ page.no < MaxPages
    /\ id # 0 => rows[id] # Absent
    /\ turn' = [n \in Turns |-> IF turn[n].phase = "unsent" THEN turn[n]
                    ELSE Retired([turn[n] EXCEPT !.open = FALSE, !.wire = <<>>])]
    /\ \/ /\ cache' = [n \in Turns |-> IF n = id THEN Absent ELSE cache[n]]
          /\ page' = Blank(page.no + 1, id)
          /\ loose' = (id # 0)
       \/ /\ id # 0 /\ cache[id] # Absent
          /\ page' = Hydrated(Blank(page.no + 1, id), id, cache[id])
          /\ loose' = (cache[id] # rows[id])
          /\ UNCHANGED cache
    /\ settled' = (id # 0)
    /\ UNCHANGED <<rows, faults>>

(* sessionGet, once a visit: the row is read, and the answer arrives later.  *)
Query ==
    /\ ~page.asked
    /\ page' = [page EXCEPT !.asked = TRUE, !.query = rows[page.id]]
    /\ UNCHANGED <<turn, rows, cache, faults, settled, loose>>

Aborted(n) == [turn EXCEPT ![n].aborted = TRUE, ![n].wire = <<>>]

QueryAnswered ==
    /\ page.query # Absent
    /\ cache' = [cache EXCEPT ![page.id] = page.query]
    /\ \/ /\ page.hydrated
          /\ page' = [page EXCEPT !.query = Absent]
          /\ UNCHANGED <<turn, settled, loose>>
       \/ /\ ~page.hydrated
          /\ page' = [Hydrated(page, page.id, page.query) EXCEPT !.query = Absent]
          /\ turn' = IF page.current = 0 THEN turn ELSE Aborted(page.current)
          /\ settled' = TRUE
          /\ loose' = (page.query # rows[page.id])
    /\ UNCHANGED <<rows, faults>>

IsNext(n) == turn[n].phase = "unsent" /\ \A m \in 1..n - 1 : turn[m].phase # "unsent"

Send(n) ==
    /\ page.current = 0 /\ IsNext(n)
    /\ turn' = [turn EXCEPT ![n] =
            [Unsent EXCEPT !.phase = "working", !.page = page.no, !.open = TRUE, !.live = TRUE,
                           !.prior = ToServer(page.thread), !.base = page.shown,
                           !.row = page.chat]]
    /\ page' = [page EXCEPT !.thread = @ \o <<<<n, "user">>, <<n, "pending">>>>, !.current = n]
    /\ settled' = FALSE
    /\ UNCHANGED <<rows, cache, faults, loose>>

Cancel ==
    /\ page.current # 0 /\ ~turn[page.current].aborted
    /\ turn' = Aborted(page.current)
    /\ UNCHANGED <<page, rows, cache, faults, settled, loose>>

(* What is kept of a turn besides its prompt, by the page and by the row.    *)
Reply(n, tools, art) ==
    tools \o (IF art THEN <<<<n, "artifact">>>> ELSE <<>>) \o <<<<n, "text">>>>

(* One event of the stream.  chat-done replaces the streamed bubble by the   *)
(* turn in the shape the server saved.                                       *)
Folded(thread, t, n) ==
    WithoutPending(thread) \o Reply(n, t.got, t.art)

Receive(n) ==
    LET t == turn[n] IN
    /\ t.open /\ ~t.aborted /\ t.wire # <<>>
    /\ LET ev == Head(t.wire) IN
       \/ /\ ev.type = "tool-end"
          /\ turn' = [turn EXCEPT ![n].wire = Tail(@), ![n].got = Append(@, ev.entry)]
          /\ UNCHANGED <<page, settled>>
       \/ /\ ev.type = "artifact"
          /\ turn' = [turn EXCEPT ![n].wire = Tail(@)]
          /\ page' = [page EXCEPT !.shown = n]
          /\ UNCHANGED settled
       \/ /\ ev.type = "chat-done"
          /\ turn' = [turn EXCEPT ![n].wire = Tail(@)]
          /\ page' = [page EXCEPT !.thread = Folded(@, t, n),
                                  !.shown = IF t.art THEN n ELSE @,
                                  !.chat = IF ev.row # 0 THEN ev.row ELSE @]
          /\ settled' = (ev.row # 0)
    /\ UNCHANGED <<rows, cache, faults, loose>>

Released(p, n) == IF p.current = n THEN [p EXCEPT !.current = 0] ELSE p

Close(n) ==
    /\ turn[n].open /\ ~turn[n].aborted /\ turn[n].live
    /\ turn[n].phase = "ended" /\ turn[n].wire = <<>>
    /\ turn' = [turn EXCEPT ![n] = Retired([@ EXCEPT !.open = FALSE])]
    /\ page' = Released(page, n)
    /\ UNCHANGED <<rows, cache, faults, settled, loose>>

(* The catch block restores the dashboard of the time of sending, whatever   *)
(* the page shows by now, and closes the last bubble if it is pending,       *)
(* whosever it is.                                                           *)
Closed(thread) ==
    IF thread # <<>> /\ thread[Len(thread)][2] = "pending"
    THEN [thread EXCEPT ![Len(thread)] = <<@[1], "canceled">>]
    ELSE thread

Catch(n) ==
    LET t == turn[n] IN
    /\ t.open
    /\ t.aborted \/ ~t.live \/ (t.phase = "failed" /\ t.wire = <<>>)
    /\ turn' = [turn EXCEPT ![n] = Retired([@ EXCEPT !.open = FALSE, !.wire = <<>>])]
    /\ page' = Released([page EXCEPT !.shown = t.base,
                            !.thread = IF t.aborted THEN Closed(@) ELSE WithoutPending(@)], n)
    /\ settled' = FALSE
    /\ loose' = (loose \/ page.current # n \/ t.phase = "ended")
    /\ UNCHANGED <<rows, cache, faults>>

-----------------------------------------------------------------------------
(* The procedure.  Tools and the model go on whether or not anyone reads the *)
(* stream; what follows the stream runs only while the generator is pulled.  *)
Emit(t, ev) == IF t.open /\ ~t.aborted THEN Append(t.wire, ev) ELSE t.wire

Working(n) == turn[n].phase = "working" /\ turn[n].live
Parked(n) == turn[n].phase = "asking" /\ turn[n].live

ToolEnded(n) ==
    LET e == <<n, "tool">> IN
    turn' = [turn EXCEPT ![n].phase = "working", ![n].tools = Append(@, e),
                         ![n].wire = Emit(turn[n], [type |-> "tool-end", entry |-> e])]

AutoTool(n) ==
    /\ Working(n) /\ Len(turn[n].tools) < MaxTools
    /\ ToolEnded(n)
    /\ UNCHANGED <<page, rows, cache, faults, settled, loose>>

AskTool(n) ==
    /\ Working(n) /\ Len(turn[n].tools) < MaxTools
    /\ turn' = [turn EXCEPT ![n].phase = "asking"]
    /\ UNCHANGED <<page, rows, cache, faults, settled, loose>>

(* resolveToolApproval: the chip's buttons work for any parked call.         *)
Answer(n) ==
    /\ Parked(n)
    /\ ToolEnded(n)
    /\ UNCHANGED <<page, rows, cache, faults, settled, loose>>

(* The timer of awaitApproval.                                               *)
ExpiredNever(n) == FALSE
Expired(n) == Parked(n)
Timeout(n) ==
    /\ Expired(n)
    /\ ToolEnded(n)
    /\ UNCHANGED <<page, rows, cache, faults, settled, loose>>

Compose(n) ==
    /\ Working(n) /\ ~turn[n].art
    /\ turn' = [turn EXCEPT ![n].art = TRUE, ![n].wire = Emit(turn[n], [type |-> "artifact"])]
    /\ UNCHANGED <<page, rows, cache, faults, settled, loose>>

LoopReturns(n) ==
    /\ Working(n)
    /\ turn' = [turn EXCEPT ![n].phase = "returned"]
    /\ UNCHANGED <<page, rows, cache, faults, settled, loose>>

LoopThrows(n) ==
    /\ Working(n) /\ faults < MaxFaults
    /\ turn' = [turn EXCEPT ![n] = Retired([@ EXCEPT !.phase = "failed"])]
    /\ faults' = faults + 1
    /\ UNCHANGED <<page, rows, cache, settled, loose>>

(* upsertAiSession: over the row the request named, or into a new one.  The  *)
(* thread is the one the request brought.                                    *)
StoredArtless(t, n) ==
    [thread |-> t.prior \o <<<<n, "user">>>> \o Reply(n, t.tools, t.art),
     art |-> IF t.art THEN n ELSE 0]
StoredTurnOnly(t, n) ==
    [thread |-> <<<<n, "user">>>> \o Reply(n, t.tools, t.art),
     art |-> IF t.art THEN n ELSE t.base]
Stored(t, n) ==
    [thread |-> t.prior \o <<<<n, "user">>>> \o Reply(n, t.tools, t.art),
     art |-> IF t.art THEN n ELSE t.base]

Target(t, n) == IF t.row # 0 THEN t.row ELSE n

Done(t, id) == Emit(t, [type |-> "chat-done", row |-> id])

Persist(n) ==
    LET t == turn[n]
        id == Target(t, n) IN
    /\ t.phase = "returned" /\ t.live
    /\ \/ /\ rows' = [rows EXCEPT ![id] = Stored(t, n)]
          /\ turn' = [turn EXCEPT ![n] = Retired([@ EXCEPT !.phase = "ended", !.wire = Done(t, id)])]
          /\ loose' = (loose \/ (Abandoned(n) /\ page.chat = id))
          /\ UNCHANGED faults
       \/ /\ faults < MaxFaults
          /\ faults' = faults + 1
          /\ turn' = [turn EXCEPT ![n] = Retired([@ EXCEPT !.phase = "ended", !.wire = Done(t, 0)])]
          /\ UNCHANGED <<rows, loose>>
    /\ UNCHANGED <<page, cache, settled>>

(* The generator is returned once the server notices that nobody reads on:   *)
(* after an abort, after a reload, or when the connection breaks.            *)
Sever(n) ==
    /\ turn[n].live /\ turn[n].phase \notin {"ended", "failed"} /\ Abandoned(n)
    /\ turn' = [turn EXCEPT ![n] = Retired([@ EXCEPT !.live = FALSE])]
    /\ UNCHANGED <<page, rows, cache, faults, settled, loose>>

Break(n) ==
    /\ turn[n].live /\ turn[n].open /\ ~turn[n].aborted /\ faults < MaxFaults
    /\ turn' = [turn EXCEPT ![n].live = FALSE]
    /\ faults' = faults + 1
    /\ UNCHANGED <<page, rows, cache, settled, loose>>

Serve(n) ==
    AutoTool(n) \/ AskTool(n) \/ Compose(n) \/ LoopReturns(n) \/ LoopThrows(n) \/ Persist(n)
Follow(n) == Receive(n) \/ Close(n) \/ Catch(n)

ChatNext ==
    \/ \E id \in 0..MaxTurns : Open(id)
    \/ Query \/ QueryAnswered \/ Cancel
    \/ \E n \in Turns : Send(n) \/ Serve(n) \/ Follow(n) \/ Answer(n) \/ Timeout(n) \/ Sever(n) \/ Break(n)

ChatSpec == ChatInit /\ [][ChatNext]_chatVars

(* The model's stream ends (a bounded number of steps), the timer of a       *)
(* parked call fires, and the client reads what arrives.  Nobody need answer.*)
FairChatSpec == ChatSpec /\ WF_chatVars(\E n \in Turns : Serve(n) \/ Timeout(n) \/ Follow(n))

-----------------------------------------------------------------------------
(* "The next send() replays a thread identical to the stored row"            *)
(* (use-ai-chat.ts:10-13): once a turn has been saved, or a chat loaded, and *)
(* until the next message, the page shows the thread and the dashboard its   *)
(* row holds, and would send back the end of it.  The page may be behind     *)
(* (loose) from the time it was opened from an older copy, before its copy   *)
(* is there, and once a turn it gave up on was saved or ended over it.       *)
InStep ==
    settled /\ ~loose =>
        /\ ToServer(page.thread) = Latest(Keep, rows[page.chat].thread)
        /\ page.shown = rows[page.chat].art

(* A turn saved over a row loses no entry of its thread, unless the page was *)
(* loose when it was saved, had given up on it, or had a thread too long to  *)
(* be sent back whole.                                                       *)
Saves(n) == turn[n].phase = "returned" /\ turn'[n].phase = "ended"
TurnsKept ==
    [][\A n \in Turns : Saves(n) /\ ~Abandoned(n) /\ ~loose /\ Len(turn[n].prior) < Keep =>
          \A id \in Turns : ToSet(rows[id].thread) \subseteq ToSet(rows'[id].thread)]_chatVars

(* "Timeout denies -- generation never hangs on a walked-away tab"            *)
(* (tools.ts:66): every turn the page waits for ends, answered or not.       *)
TurnsEnd == page.current # 0 ~> page.current = 0
=============================================================================
