--------------------------- MODULE BrowserSessions ---------------------------
(***************************************************************************)
(* The browser sessions of the desktop app                                 *)
(* (apps/desktop/src/browser/session-manager.ts): named sessions, each with *)
(* at most one web view, which is loaded on demand, shown in the main       *)
(* window or kept in a hidden one, and unloaded to make room.  Operations   *)
(* on a session go through a queue kept under the session's name; close and *)
(* rename do not.                                                          *)
(*                                                                         *)
(* An action runs from one wait for the outside (a page load, the list of   *)
(* devtools targets, the end of a restore) to the next.                     *)
(***************************************************************************)
EXTENDS Integers, Sequences, FiniteSets, Functions

CONSTANTS
  Names,        \* names of sessions
  Sessions,     \* session objects; one is used again when nothing refers to it
  Calls,        \* requests that may be outstanding at the same time
  MaxSessions,  \* options.maxSessions: how many sessions may have a view
  MaxClosed,    \* bound: closed sessions that are still referred to
  None

ASSUME BoundsAssumption ==
  /\ MaxSessions \in Nat \ {0}
  /\ MaxClosed \in Nat
  /\ IsFiniteSet(Names) /\ IsFiniteSet(Sessions)
  /\ Cardinality(Sessions) >= Cardinality(Names) + MaxClosed
  /\ None \notin Names \cup Sessions

VARIABLES
  sessions,     \* the sessions by name
  session,      \* the session objects
  queue,        \* under each name the calls waiting, the running one first
  call,         \* the requests
  visibleName,  \* visibleSessionName
  viewportActive,
  abandoned,    \* history: sessions closed while a call still held them
  strayed       \* history: sessions shown where hideVisible cannot find them

vars == <<sessions, session, queue, call, visibleName, viewportActive,
          abandoned, strayed>>

Ops == {"ensure", "touch", "show", "hide", "act"}

\* A session's `view` says where its web view is attached.  `restore` is its
\* restorePromise: the page it shows next is being loaded.
SessionType ==
  [name : Names \cup {None}, view : {"none", "hidden", "main"},
   restore : BOOLEAN]

CallType ==
  [op : Ops, queue : Names \cup {None}, session : Sessions \cup {None},
   pc : {"idle", "queued", "waiting", "working"}]

TypeOK ==
  /\ sessions \in [Names -> Sessions \cup {None}]
  /\ session \in [Sessions -> SessionType]
  /\ queue \in [Names -> Seq(Calls)]
  /\ call \in [Calls -> CallType]
  /\ visibleName \in Names \cup {None}
  /\ viewportActive \in BOOLEAN
  /\ abandoned \subseteq Sessions
  /\ strayed \subseteq Sessions

Fresh(n) == [name |-> n, view |-> "none", restore |-> FALSE]

Idle == [op |-> "hide", queue |-> None, session |-> None, pc |-> "idle"]

\* loadMetadata: the sessions of an earlier run of the app, none of them loaded.
Init ==
  /\ sessions \in {f \in [Names -> Sessions \cup {None}] :
                     \A m, n \in Names : f[m] = f[n] /\ f[m] # None => m = n}
  /\ session = [s \in Sessions |->
       Fresh(IF \E n \in Names : sessions[n] = s
             THEN CHOOSE n \in Names : sessions[n] = s ELSE None)]
  /\ queue = [n \in Names |-> <<>>]
  /\ call = [c \in Calls |-> Idle]
  /\ visibleName = None
  /\ viewportActive = FALSE
  /\ abandoned = {}
  /\ strayed = {}
-----------------------------------------------------------------------------
Listed == Range(sessions) \ {None}
Loaded == {s \in Listed : session[s].view # "none"}
Held(s) == \E c \in Calls : call[c].session = s

\* Objects nothing refers to any more: the next session can be any of them.
Free == {s \in Sessions \ Listed :
           session[s].view = "none" /\ ~Held(s)}

\* destroy.  The load of a page that goes away fails, which ends its restore.
Destroyed(r) == [r EXCEPT !.view = "none", !.restore = FALSE]

(* Mutant: a session with calls in its queue may be unloaded.              *)
EvictableAnyway == {s \in Loaded : session[s].view # "main"}

\* makeRoom: what may be unloaded for a new view.  Whether such a session is
\* pinned or was used in the last 30 seconds is left open: an activation may
\* take any of them, or fail.
Evictable == {s \in Loaded : /\ session[s].view # "main"
                             /\ queue[session[s].name] = <<>>}
(* Mutant: room is made for one view more than there is.                   *)
VictimsLate == IF Cardinality(Loaded) <= MaxSessions THEN {None} ELSE Evictable

Victims == IF Cardinality(Loaded) < MaxSessions THEN {None} ELSE Evictable

\* ensureActive up to its first wait, on the sessions S as the handler has
\* changed them: the outcomes.
Activations(S, s) ==
  IF S[s].view # "none" THEN {[session |-> S, unloaded |-> None, new |-> FALSE]}
  ELSE {[session |-> [x \in Sessions |->
                        CASE x = s -> [S[x] EXCEPT !.view = "hidden"]
                          [] x = t -> Destroyed(S[x])
                          [] OTHER -> S[x]],
         unloaded |-> t, new |-> TRUE] : t \in Victims}

\* makeRoom throws.
NoRoom(s) == session[s].view = "none" /\ Cardinality(Loaded) >= MaxSessions

\* destroy and moveToHidden forget the visible name when it is the session's.
ForgetVisible(s) == IF s # None /\ session[s].name = visibleName
                    THEN None ELSE visibleName

\* A session that was closed and has the name of the visible one makes
\* visibleSessionName forget a session which stays shown.
StrayedBy(s) == IF s \notin Listed /\ session[s].name = visibleName
                THEN (strayed \cup {sessions[visibleName]}) \ {s, None}
                ELSE strayed \ {s}

\* moveToHidden, on the sessions S.
Hidden(S, s) == IF s = None \/ S[s].view = "none" THEN S
                ELSE [S EXCEPT ![s].view = "hidden"]
Named(n) == IF n = None THEN None ELSE sessions[n]

RestoreStarted(S, s) == [S EXCEPT ![s].restore = TRUE]
-----------------------------------------------------------------------------
(* Entering and leaving a queue.                                           *)

Enqueue(c, op, n, s) ==
  /\ call[c].pc = "idle"
  /\ call' = [call EXCEPT ![c] = [op |-> op, queue |-> n, session |-> s,
                                  pc |-> "queued"]]
  /\ queue' = [queue EXCEPT ![n] = Append(@, c)]
  /\ UNCHANGED <<sessions, session, visibleName, viewportActive, abandoned, strayed>>

\* ensure takes a name, the other operations the id of a listed session.
AskEnsure(c, n) == Enqueue(c, "ensure", n, None)
Ask(c, op, n) ==
  /\ sessions[n] # None
  /\ op = "show" => viewportActive
  /\ Enqueue(c, op, n, sessions[n])

\* The call's turn has come.
Starts(c, op) == /\ call[c].pc = "queued"
                 /\ call[c].op = op
                 /\ c = Head(queue[call[c].queue])

\* The call ends, well or with an error, and the next one in its queue may run.
Answer(c) ==
  /\ call' = [call EXCEPT ![c] = Idle]
  /\ queue' = [queue EXCEPT ![call[c].queue] = Tail(@)]
  /\ abandoned' = {s \in abandoned : \/ session'[s].view # "none"
                                      \/ \E d \in Calls \ {c} : call[d].session = s}

Proceed(c, s, pc) ==
  /\ call' = [call EXCEPT ![c].pc = pc, ![c].session = s]
  /\ UNCHANGED <<queue, abandoned>>
-----------------------------------------------------------------------------
(* The operations.                                                         *)

\* getOrCreate looks the name up when the call runs, not when it was made.
BeginEnsure(c) ==
  /\ Starts(c, "ensure")
  /\ \E s \in IF Named(call[c].queue) # None THEN {Named(call[c].queue)} ELSE Free :
       LET S == IF s \in Listed THEN session
                ELSE [session EXCEPT ![s] = Fresh(call[c].queue)]
       IN /\ sessions' = [sessions EXCEPT ![call[c].queue] = s]
          /\ \/ /\ NoRoom(s)
                /\ session' = S
                /\ UNCHANGED visibleName
                /\ Answer(c)
             \/ \E a \in Activations(S, s) :
                  /\ session' = IF a.new THEN RestoreStarted(a.session, s) ELSE a.session
                  /\ visibleName' = ForgetVisible(a.unloaded)
                  /\ Proceed(c, s, "working")
  /\ UNCHANGED <<viewportActive, strayed>>

\* navigate, goBack, goForward, reload: the view must be there and restored.
BeginAct(c) ==
  /\ Starts(c, "act")
  /\ LET s == call[c].session
     IN \/ /\ NoRoom(s)
           /\ UNCHANGED <<session, visibleName>>
           /\ Answer(c)
        \/ \E a \in Activations(session, s) :
             /\ session' = IF a.new THEN RestoreStarted(a.session, s) ELSE a.session
             /\ visibleName' = ForgetVisible(a.unloaded)
             /\ Proceed(c, s, IF session'[s].restore THEN "waiting" ELSE "working")
  /\ UNCHANGED <<sessions, viewportActive, strayed>>

\* show: there may be no main window any more.  Neither this operation nor
\* hideVisible looks at the viewport again.
BeginShow(c) ==
  /\ Starts(c, "show")
  /\ LET s == call[c].session
     IN \/ /\ NoRoom(s)
           /\ UNCHANGED <<session, visibleName, strayed>>
        \/ \E a \in Activations(session, s) :
             LET shown == Named(ForgetVisible(a.unloaded))
                 S == Hidden(a.session, shown)
             IN \/ /\ session' = S
                   /\ visibleName' = None
                   /\ strayed' = strayed \ {shown}
                \/ /\ session' = RestoreStarted([S EXCEPT ![s].view = "main"], s)
                   /\ visibleName' = session[s].name
                   /\ strayed' = IF s \in Listed /\ viewportActive
                                 THEN strayed \ {s, shown}
                                 ELSE (strayed \ {shown}) \cup {s}
  /\ Answer(c)
  /\ UNCHANGED <<sessions, viewportActive>>

BeginHide(c) ==
  /\ Starts(c, "hide")
  /\ LET s == call[c].session
     IN /\ session' = Hidden(session, s)
        /\ visibleName' = IF session[s].view # "none" THEN ForgetVisible(s)
                                                      ELSE visibleName
        /\ strayed' = IF session[s].view # "none" THEN StrayedBy(s) ELSE strayed
  /\ Answer(c)
  /\ UNCHANGED <<sessions, viewportActive>>

BeginTouch(c) ==
  /\ Starts(c, "touch")
  /\ Proceed(c, call[c].session, "working")
  /\ UNCHANGED <<sessions, session, visibleName, viewportActive, strayed>>

\* The restore the call waited for is over: it goes on, unless the restore
\* failed or the view has gone meanwhile (requireView).
GoOn(c) ==
  /\ call[c].pc = "waiting"
  /\ ~session[call[c].session].restore
  /\ UNCHANGED <<sessions, session, visibleName, viewportActive, strayed>>
  /\ \/ Answer(c)
     \/ /\ session[call[c].session].view # "none"
        /\ Proceed(c, call[c].session, "working")

\* The page has loaded or failed to, and the devtools targets were listed.
Finish(c) ==
  /\ call[c].pc = "working"
  /\ UNCHANGED <<sessions, session, visibleName, viewportActive, strayed>>
  /\ Answer(c)
-----------------------------------------------------------------------------
RestoreEnds(s) ==
  /\ session[s].restore
  /\ session' = [session EXCEPT ![s].restore = FALSE]
  /\ UNCHANGED <<sessions, queue, call, visibleName, viewportActive, abandoned, strayed>>
-----------------------------------------------------------------------------
(* What does not go through the queue.                                     *)

Close(n) ==
  LET s == sessions[n]
  IN /\ s # None
     /\ Cardinality(Sessions \ (Listed \cup Free)) < MaxClosed
     /\ sessions' = [sessions EXCEPT ![n] = None]
     /\ session' = [session EXCEPT ![s] = Destroyed(@)]
     /\ visibleName' = IF session[s].view # "none" THEN ForgetVisible(s) ELSE visibleName
     /\ abandoned' = IF Held(s) THEN abandoned \cup {s} ELSE abandoned
     /\ strayed' = strayed \ {s}
     /\ UNCHANGED <<queue, call, viewportActive>>

Rename(n, m) ==
  LET s == sessions[n]
  IN /\ s # None
     /\ sessions[m] = None
     /\ sessions' = [sessions EXCEPT ![n] = None, ![m] = s]
     /\ session' = [session EXCEPT ![s].name = m]
     /\ strayed' = IF session[s].view = "main" THEN strayed \cup {s} ELSE strayed
     /\ UNCHANGED <<queue, call, visibleName, viewportActive, abandoned>>

ActivateViewport ==
  /\ ~viewportActive
  /\ viewportActive' = TRUE
  /\ UNCHANGED <<sessions, session, queue, call, visibleName, abandoned, strayed>>

(* Mutant: the viewport is left without hiding what it shows.              *)
DeactivateOnly ==
  /\ viewportActive
  /\ viewportActive' = FALSE
  /\ UNCHANGED <<sessions, session, queue, call, visibleName, abandoned, strayed>>

DeactivateViewport ==
  /\ viewportActive
  /\ viewportActive' = FALSE
  /\ session' = Hidden(session, Named(visibleName))
  /\ visibleName' = None
  /\ strayed' = strayed \ {Named(visibleName)}
  /\ UNCHANGED <<sessions, queue, call, abandoned>>

\* The `destroyed` event of a page that goes away by itself.
PageGone(s) ==
  /\ session[s].view # "none"
  /\ session' = [session EXCEPT ![s] = Destroyed(@)]
  /\ abandoned' = IF Held(s) THEN abandoned ELSE abandoned \ {s}
  /\ visibleName' = ForgetVisible(s)
  /\ strayed' = StrayedBy(s)
  /\ UNCHANGED <<sessions, queue, call, viewportActive>>

-----------------------------------------------------------------------------
Step(c) == \/ BeginEnsure(c) \/ BeginAct(c) \/ BeginShow(c) \/ BeginHide(c)
           \/ BeginTouch(c) \/ GoOn(c) \/ Finish(c)

Next ==
  \/ \E c \in Calls : Step(c)
  \/ \E c \in Calls, n \in Names : AskEnsure(c, n)
  \/ \E c \in Calls, n \in Names, op \in Ops \ {"ensure"} : Ask(c, op, n)
  \/ \E s \in Sessions : RestoreEnds(s) \/ PageGone(s)
  \/ \E n \in Names : Close(n)
  \/ \E m, n \in Names : Rename(n, m)
  \/ ActivateViewport
  \/ DeactivateViewport

Spec == Init /\ [][Next]_vars
-----------------------------------------------------------------------------
(* Properties.                                                             *)

\* No more listed sessions have a view than allowed, and a view of a session
\* that is not listed, which nobody can find or close, belongs to one that was
\* closed while a call still held it (close does not go through the queue).
ViewsAccounted ==
  /\ Cardinality(Loaded) <= MaxSessions
  /\ \A s \in Sessions :
       session[s].view # "none" => s \in Listed \cup abandoned

\* The main window shows the view of the session hideVisible would hide, and
\* none while the viewport is inactive.  The exceptions: a session renamed while
\* shown, and one shown after it was closed or after the viewport was left, by
\* a call that waited in the queue.
ShownIsKnown ==
  \A s \in Sessions \ strayed :
    session[s].view = "main" => /\ viewportActive
                                /\ visibleName # None
                                /\ sessions[visibleName] = s

\* makeRoom takes no view from an operation that is using it: the view of a
\* running call goes only when its session is closed or its page goes away.
\* A session renamed since the call was made is not protected: its queue is
\* under the old name.
ViewStaysUnderOperation ==
  [][\A c \in Calls :
       LET s == call[c].session
       IN /\ call[c].pc \in {"waiting", "working"}
          /\ session[s].view # "none" /\ session'[s].view = "none"
          => \/ session[s].name # call[c].queue
             \/ s \in Listed /\ s \notin Listed'
             \/ PageGone(s)]_vars
=============================================================================
