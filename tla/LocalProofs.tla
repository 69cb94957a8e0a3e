------------------------------ MODULE LocalProofs ------------------------------
(***************************************************************************)
(* Proofs about the programs that run on the user's machine: the browser    *)
(* sessions of the desktop app (BrowserSessions), its connection to the     *)
(* cloud (DesktopConnection), and the CLI's daemon (DaemonLifecycle).  The  *)
(* three share nothing; each part below is about one of them.               *)
(***************************************************************************)
EXTENDS BrowserSessions, DesktopConnection, DaemonLifecycle, FiniteSetTheorems, TLAPS

--------------------------------------------------------------------------------
(* Browser sessions.                                                        *)

(* The map and the objects agree on a session's name: no session has two.  *)
Agreed == \A n \in Names : sessions[n] # None => session[sessions[n]].name = n

(* A session that a call holds or that has a view was listed at some time, *)
(* and is still, or has been closed under a call.                          *)
Kept ==
  \A s \in Sessions : Held(s) \/ session[s].view # "none" =>
    session[s].name \in Names /\ s \in Listed \cup abandoned

(* A call that was made is in its queue, and at the head once it runs; it  *)
(* has a session, unless it is an ensure that has not looked one up yet.   *)
CallsOK ==
  \A c \in Calls : call[c].pc # "idle" =>
    /\ call[c].queue \in Names
    /\ \E i \in 1..Len(queue[call[c].queue]) : queue[call[c].queue][i] = c
    /\ call[c].pc # "queued" => queue[call[c].queue][1] = c
    /\ call[c].pc # "queued" \/ call[c].op # "ensure" => call[c].session \in Sessions

(* A queue has calls that were made, each once.                            *)
QueuesOK ==
  \A n \in Names : \A i \in 1..Len(queue[n]) :
    /\ call[queue[n][i]].pc # "idle" /\ call[queue[n][i]].queue = n
    /\ \A j \in 1..Len(queue[n]) : queue[n][i] = queue[n][j] => i = j

(* maxSessions is kept.                                                    *)
RoomKept == Cardinality(Loaded) <= MaxSessions

BrowserInv == /\ TypeOK /\ Agreed /\ Kept /\ CallsOK /\ QueuesOK
              /\ RoomKept /\ ShownIsKnown

--------------------------------------------------------------------------------
(* The sessions a map lists.                                               *)
LEMMA ListedIn ==
  ASSUME NEW f \in [Names -> Sessions \cup {None}]
  PROVE  \A s : s \in Range(f) \ {None} <=> s \in Sessions /\ \E n \in Names : f[n] = s
BY BoundsAssumption DEF Range

LEMMA LoadedFinite == TypeOK => IsFiniteSet(Loaded) /\ Cardinality(Loaded) \in Nat
<1> HAVE TypeOK
<1>1. Loaded \in SUBSET Sessions
  BY ListedIn DEF TypeOK, Loaded, Listed
<1> QED BY <1>1, FS_Subset, FS_CardinalityType, BoundsAssumption

LEMMA InitInv == Init => BrowserInv
<1> SUFFICES ASSUME Init PROVE BrowserInv
  OBVIOUS
<1> USE BoundsAssumption
<1>1. /\ sessions \in [Names -> Sessions \cup {None}]
      /\ \A m, n \in Names : sessions[m] = sessions[n] /\ sessions[m] # None => m = n
  BY DEF Init
<1>2. \A s \in Sessions : session[s] \in SessionType /\ session[s].view = "none"
  <2> SUFFICES ASSUME NEW s \in Sessions
               PROVE  session[s] \in SessionType /\ session[s].view = "none"
    OBVIOUS
  <2> DEFINE k == IF \E n \in Names : sessions[n] = s
                  THEN CHOOSE n \in Names : sessions[n] = s ELSE None
  <2>1. session[s] = Fresh(k)
    BY DEF Init
  <2>2. k \in Names \cup {None}
    OBVIOUS
  <2> QED BY <2>1, <2>2 DEF Fresh, SessionType
<1>3. \A c \in Calls : call[c] = Idle
  BY DEF Init
<1>4. TypeOK
  <2>1. session \in [Sessions -> SessionType]
    BY <1>2 DEF Init
  <2>2. Idle \in CallType
    BY DEF Idle, CallType, Ops
  <2>3. call \in [Calls -> CallType]
    BY <2>2 DEF Init
  <2>4. queue \in [Names -> Seq(Calls)]
    BY DEF Init
  <2> QED BY <1>1, <2>1, <2>3, <2>4 DEF Init, TypeOK
<1>5. Agreed
  <2> SUFFICES ASSUME NEW n \in Names, sessions[n] # None
               PROVE  session[sessions[n]].name = n
    BY DEF Agreed
  <2> DEFINE s == sessions[n]
  <2>1. s \in Sessions
    BY <1>1
  <2>2. (CHOOSE m \in Names : sessions[m] = s) = n
    BY <1>1
  <2>3. session[s] = Fresh(n)
    BY <2>1, <2>2 DEF Init
  <2> QED BY <2>3 DEF Fresh
<1>6. Kept
  BY <1>2, <1>3 DEF Kept, Held, Idle
<1>7. CallsOK
  BY <1>3 DEF CallsOK, Idle
<1>8. QueuesOK
  BY DEF QueuesOK, Init
<1>9. RoomKept
  <2>1. Loaded = {}
    BY <1>1, <1>2, ListedIn DEF Loaded, Listed
  <2> QED BY <2>1, FS_EmptySet DEF RoomKept
<1>10. ShownIsKnown
  BY <1>2 DEF ShownIsKnown
<1> QED BY <1>4, <1>5, <1>6, <1>7, <1>8, <1>9, <1>10 DEF BrowserInv

--------------------------------------------------------------------------------
(* Entering, passing through and leaving a queue.                          *)

(* A call that is made gets the last place.                                *)
LEMMA EnqueueQueues ==
  ASSUME TypeOK, CallsOK, QueuesOK, NEW c \in Calls, NEW op \in Ops, NEW n \in Names,
         NEW s \in Sessions \cup {None}, op = "ensure" \/ s \in Sessions,
         Enqueue(c, op, n, s)
  PROVE  /\ queue' \in [Names -> Seq(Calls)] /\ call' \in [Calls -> CallType]
         /\ CallsOK' /\ QueuesOK'
<1>1. queue' \in [Names -> Seq(Calls)] /\ call' \in [Calls -> CallType]
  BY DEF TypeOK, Enqueue, CallType, Ops
<1>2. \A m \in Names \ {n} : queue'[m] = queue[m]
  BY DEF TypeOK, Enqueue
<1>3. /\ queue'[n] \in Seq(Calls) /\ Len(queue'[n]) = Len(queue[n]) + 1
      /\ Len(queue[n]) \in Nat
      /\ queue'[n][Len(queue[n]) + 1] = c
      /\ \A i \in 1..Len(queue[n]) : queue'[n][i] = queue[n][i]
  BY DEF TypeOK, Enqueue
<1>4. \A m \in Names : \A i \in 1..Len(queue[m]) : queue[m][i] # c /\ queue[m][i] \in Calls
  BY DEF TypeOK, QueuesOK, Enqueue
<1>5. /\ call'[c] = [op |-> op, queue |-> n, session |-> s, pc |-> "queued"]
      /\ \A d \in Calls \ {c} : call'[d] = call[d]
  BY DEF TypeOK, Enqueue
<1>6. CallsOK'
  <2> SUFFICES ASSUME NEW d \in Calls, call'[d].pc # "idle"
               PROVE  /\ call'[d].queue \in Names
                      /\ \E i \in 1..Len(queue'[call'[d].queue]) : queue'[call'[d].queue][i] = d
                      /\ call'[d].pc # "queued" => queue'[call'[d].queue][1] = d
                      /\ call'[d].pc # "queued" \/ call'[d].op # "ensure"
                           => call'[d].session \in Sessions
    BY DEF CallsOK
  <2>1. CASE d = c
    BY <1>3, <1>5, <2>1
  <2>2. CASE d # c
    <3>1. call'[d] = call[d] /\ call[d].queue \in Names
      BY <1>5, <2>2 DEF CallsOK
    <3>2. PICK i \in 1..Len(queue[call[d].queue]) : queue[call[d].queue][i] = d
      BY <3>1 DEF CallsOK
    <3>3. /\ i \in 1..Len(queue'[call[d].queue]) /\ queue'[call[d].queue][i] = d
          /\ queue'[call[d].queue][1] = queue[call[d].queue][1]
      <4>1. CASE call[d].queue # n
        BY <1>2, <3>1, <3>2, <4>1
      <4>2. CASE call[d].queue = n
        <5>1. 1 \in 1..Len(queue[n]) /\ i \in 1..Len(queue[n])
          BY <1>3, <3>2, <4>2
        <5> QED BY <1>3, <3>2, <4>2, <5>1
      <4> QED BY <4>1, <4>2
    <3> QED BY <3>1, <3>3 DEF CallsOK
  <2> QED BY <2>1, <2>2
<1>7. QueuesOK'
  <2> SUFFICES ASSUME NEW m \in Names, NEW i \in 1..Len(queue'[m]),
                      NEW j \in 1..Len(queue'[m])
               PROVE  /\ call'[queue'[m][i]].pc # "idle" /\ call'[queue'[m][i]].queue = m
                      /\ queue'[m][i] = queue'[m][j] => i = j
    BY DEF QueuesOK
  <2>1. CASE m # n
    BY <1>2, <1>4, <1>5, <2>1 DEF QueuesOK
  <2>2. CASE m = n
    <3>1. \A k \in 1..Len(queue'[n]) : k \in 1..Len(queue[n]) \/ k = Len(queue[n]) + 1
      BY <1>3
    <3>2. \A k \in 1..Len(queue[n]) :
            /\ queue'[n][k] = queue[n][k] /\ queue[n][k] \in Calls \ {c}
            /\ call'[queue[n][k]] = call[queue[n][k]]
      BY <1>3, <1>4, <1>5
    <3>3. call'[queue'[m][i]].pc # "idle" /\ call'[queue'[m][i]].queue = m
      <4>1. CASE i \in 1..Len(queue[n])
        BY <2>2, <3>2, <4>1 DEF QueuesOK
      <4>2. CASE i = Len(queue[n]) + 1
        BY <1>3, <1>5, <2>2, <4>2
      <4> QED BY <2>2, <3>1, <4>1, <4>2
    <3>4. queue'[m][i] = queue'[m][j] => i = j
      <4>1. \A k, l \in 1..Len(queue[n]) : queue[n][k] = queue[n][l] => k = l
        BY DEF QueuesOK
      <4>2. i \in 1..Len(queue'[n]) /\ j \in 1..Len(queue'[n])
        BY <2>2
      <4>3. queue'[n][i] = queue'[n][j] => i = j
        BY <1>3, <3>1, <3>2, <4>1, <4>2
      <4> QED BY <2>2, <4>3
    <3> QED BY <3>3, <3>4
  <2> QED BY <2>1, <2>2
<1> QED BY <1>1, <1>6, <1>7

(* The call whose turn it is leaves its queue.                             *)
LEMMA AnswerQueues ==
  ASSUME TypeOK, CallsOK, QueuesOK, NEW c \in Calls, call[c].pc # "idle",
         queue[call[c].queue][1] = c, Answer(c)
  PROVE  /\ queue' \in [Names -> Seq(Calls)] /\ call' \in [Calls -> CallType]
         /\ CallsOK' /\ QueuesOK'
<1> DEFINE n == call[c].queue
<1>1. n \in Names /\ queue[n] # <<>> /\ queue[n] \in Seq(Calls)
  BY DEF TypeOK, CallsOK
<1>2. \A m \in Names \ {n} : queue'[m] = queue[m]
  BY DEF TypeOK, Answer
<1>3. /\ queue'[n] \in Seq(Calls) /\ Len(queue'[n]) = Len(queue[n]) - 1
      /\ Len(queue[n]) \in Nat \ {0} /\ Len(queue'[n]) \in Nat
      /\ \A i \in 1..Len(queue'[n]) : queue'[n][i] = queue[n][i + 1]
  <2>1. queue'[n] = Tail(queue[n])
    BY <1>1 DEF TypeOK, Answer
  <2> QED BY <1>1, <2>1
<1>4. queue' \in [Names -> Seq(Calls)] /\ call' \in [Calls -> CallType]
  BY <1>1, <1>3, BoundsAssumption DEF TypeOK, Answer, CallType, Idle, Ops
<1>5. call'[c] = Idle /\ \A d \in Calls \ {c} : call'[d] = call[d]
  BY DEF TypeOK, Answer
<1>6. \A i \in 2..Len(queue[n]) : queue[n][i] # c
  BY <1>1, <1>3 DEF QueuesOK
<1>7. CallsOK'
  <2> SUFFICES ASSUME NEW d \in Calls, call'[d].pc # "idle"
               PROVE  /\ call'[d].queue \in Names
                      /\ \E i \in 1..Len(queue'[call'[d].queue]) : queue'[call'[d].queue][i] = d
                      /\ call'[d].pc # "queued" => queue'[call'[d].queue][1] = d
                      /\ call'[d].pc # "queued" \/ call'[d].op # "ensure"
                           => call'[d].session \in Sessions
    BY DEF CallsOK
  <2>1. d # c /\ call'[d] = call[d] /\ call[d].queue \in Names
    BY <1>5 DEF Idle, CallsOK
  <2>2. CASE call[d].queue # n
    BY <1>2, <2>1, <2>2 DEF CallsOK
  <2>3. CASE call[d].queue = n
    <3>1. PICK i \in 1..Len(queue[n]) : queue[n][i] = d
      BY <2>1, <2>3 DEF CallsOK
    <3>2. i - 1 \in 1..Len(queue'[n]) /\ queue'[n][i - 1] = d
      <4>1. i # 1
        BY <2>1, <3>1
      <4>2. i - 1 \in 1..Len(queue'[n])
        BY <1>3, <3>1, <4>1
      <4>3. queue'[n][i - 1] = queue[n][(i - 1) + 1]
        BY <1>3, <4>2
      <4> QED BY <3>1, <4>2, <4>3
    <3>3. call[d].pc = "queued"
      BY <2>1, <2>3 DEF CallsOK
    <3> QED BY <2>1, <2>3, <3>2, <3>3 DEF CallsOK
  <2> QED BY <2>2, <2>3
<1>8. QueuesOK'
  <2> SUFFICES ASSUME NEW m \in Names, NEW i \in 1..Len(queue'[m]),
                      NEW j \in 1..Len(queue'[m])
               PROVE  /\ call'[queue'[m][i]].pc # "idle" /\ call'[queue'[m][i]].queue = m
                      /\ queue'[m][i] = queue'[m][j] => i = j
    BY DEF QueuesOK
  <2>1. CASE m # n
    <3>1. queue[m][i] \in Calls /\ queue[m][i] # c
      BY <1>2, <2>1 DEF TypeOK, QueuesOK
    <3> QED BY <1>2, <1>5, <2>1, <3>1 DEF QueuesOK
  <2>2. CASE m = n
    <3>1. i + 1 \in 2..Len(queue[n]) /\ j + 1 \in 2..Len(queue[n])
      BY <1>3, <2>2
    <3>2. queue[n][i + 1] \in Calls
      BY <1>1, <3>1
    <3>3. /\ queue'[m][i] = queue[n][i + 1] /\ queue'[m][j] = queue[n][j + 1]
          /\ i + 1 \in 1..Len(queue[n]) /\ j + 1 \in 1..Len(queue[n])
          /\ queue[n][i + 1] \in Calls \ {c}
      <4>1. queue'[m] = queue'[n] /\ i \in 1..Len(queue'[n]) /\ j \in 1..Len(queue'[n])
        BY <2>2
      <4>2. queue'[n][i] = queue[n][i + 1] /\ queue'[n][j] = queue[n][j + 1]
        BY <1>3, <4>1
      <4>3. i + 1 \in 1..Len(queue[n]) /\ j + 1 \in 1..Len(queue[n])
        BY <1>3, <4>1
      <4> QED BY <1>6, <3>1, <3>2, <4>1, <4>2, <4>3
    <3>4. call'[queue'[m][i]].pc # "idle" /\ call'[queue'[m][i]].queue = m
      <4>1. call'[queue'[m][i]] = call[queue[n][i + 1]]
        BY <1>5, <3>3
      <4>2. \A k \in 1..Len(queue[n]) : call[queue[n][k]].pc # "idle" /\ call[queue[n][k]].queue = n
        BY <1>1 DEF QueuesOK
      <4> QED BY <2>2, <3>3, <4>1, <4>2
    <3>5. queue[n][i + 1] = queue[n][j + 1] => i + 1 = j + 1
      BY <1>1, <3>3 DEF QueuesOK
    <3> QED BY <3>3, <3>4, <3>5
  <2> QED BY <2>1, <2>2
<1> QED BY <1>4, <1>7, <1>8

(* The call whose turn it is goes on.                                      *)
LEMMA ProceedQueues ==
  ASSUME TypeOK, CallsOK, QueuesOK, NEW c \in Calls, call[c].pc # "idle",
         queue[call[c].queue][1] = c, NEW s \in Sessions,
         NEW pc \in {"waiting", "working"}, Proceed(c, s, pc)
  PROVE  /\ queue' \in [Names -> Seq(Calls)] /\ call' \in [Calls -> CallType]
         /\ CallsOK' /\ QueuesOK'
<1>1. /\ call'[c] = [call[c] EXCEPT !.pc = pc, !.session = s]
      /\ \A d \in Calls \ {c} : call'[d] = call[d]
      /\ queue' = queue
  BY DEF TypeOK, Proceed
<1>3. call[c] \in CallType
  BY DEF TypeOK
<1>2. call' \in [Calls -> CallType]
  <2>1. [call[c] EXCEPT !.pc = pc, !.session = s] \in CallType
    BY <1>3 DEF CallType
  <2>2. call' = [call EXCEPT ![c] = [call[c] EXCEPT !.pc = pc, !.session = s]]
    BY DEF TypeOK, Proceed
  <2> QED BY <2>1, <2>2 DEF TypeOK
<1>4. call'[c].queue = call[c].queue /\ call'[c].pc = pc /\ call'[c].session = s
  BY <1>1, <1>3 DEF CallType
<1>5. CallsOK'
  <2> SUFFICES ASSUME NEW d \in Calls, call'[d].pc # "idle"
               PROVE  /\ call'[d].queue \in Names
                      /\ \E i \in 1..Len(queue'[call'[d].queue]) : queue'[call'[d].queue][i] = d
                      /\ call'[d].pc # "queued" => queue'[call'[d].queue][1] = d
                      /\ call'[d].pc # "queued" \/ call'[d].op # "ensure"
                           => call'[d].session \in Sessions
    BY DEF CallsOK
  <2>1. CASE d = c
    <3>1. /\ call[c].queue \in Names
          /\ \E i \in 1..Len(queue[call[c].queue]) : queue[call[c].queue][i] = c
      BY DEF CallsOK
    <3> QED BY <1>1, <1>4, <2>1, <3>1
  <2>2. CASE d # c
    BY <1>1, <2>2 DEF CallsOK
  <2> QED BY <2>1, <2>2
<1>6. QueuesOK'
  <2>1. \A d \in Calls : /\ call'[d].queue = call[d].queue
                         /\ call[d].pc # "idle" => call'[d].pc # "idle"
    <3> SUFFICES ASSUME NEW d \in Calls
                 PROVE  /\ call'[d].queue = call[d].queue
                        /\ call[d].pc # "idle" => call'[d].pc # "idle"
      OBVIOUS
    <3>1. CASE d = c
      BY <1>4, <3>1
    <3>2. CASE d # c
      BY <1>1, <3>2
    <3> QED BY <3>1, <3>2
  <2>2. \A n \in Names : \A i \in 1..Len(queue[n]) : queue[n][i] \in Calls
    BY DEF TypeOK
  <2> QED BY <1>1, <2>1, <2>2 DEF QueuesOK
<1> QED BY <1>1, <1>2, <1>5, <1>6 DEF TypeOK

--------------------------------------------------------------------------------
(* Views.                                                                  *)

(* moveToHidden.                                                           *)
LEMMA HiddenView ==
  ASSUME NEW S \in [Sessions -> SessionType], NEW s \in Sessions \cup {None}
  PROVE  /\ Hidden(S, s) \in [Sessions -> SessionType]
         /\ \A x \in Sessions : /\ Hidden(S, s)[x].name = S[x].name
                                /\ Hidden(S, s)[x].view = "none" <=> S[x].view = "none"
                                /\ Hidden(S, s)[x].view = "main" => S[x].view = "main"
                                /\ Hidden(S, s)[x].view = "main" => x # s
BY BoundsAssumption DEF Hidden, SessionType

(* Looking up a name.                                                      *)
LEMMA NamedIn ==
  ASSUME TypeOK, NEW n \in Names \cup {None}
  PROVE  Named(n) \in Sessions \cup {None} /\ (n = None => Named(n) = None)
BY BoundsAssumption DEF Named, TypeOK

(* What ensureActive does to the sessions: s has a view, which is hidden   *)
(* if it is new, and at most one other session has lost its own.           *)
LEMMA Activated ==
  ASSUME TypeOK, NEW S \in [Sessions -> SessionType], NEW s \in Sessions,
         \A x \in Sessions \ {s} : S[x] = session[x],
         S[s].view = session[s].view,
         NEW a \in Activations(S, s)
  PROVE  /\ a.session \in [Sessions -> SessionType]
         /\ a.unloaded \in Evictable \cup {None}
         /\ a.session[s].view # "none"
         /\ \A x \in Sessions :
              /\ a.session[x].name = S[x].name
              /\ a.session[x].view = "main" => session[x].view = "main"
              /\ a.session[x].view # "none" => session[x].view # "none" \/ x = s
              /\ a.session[x].view = "none" => session[x].view = "none" \/ x = a.unloaded
         /\ a.unloaded # None => /\ a.session[a.unloaded].view = "none"
                                 /\ a.unloaded # s
                                 /\ session[s].view = "none"
         /\ session[s].view # "none" => a.session = S
         /\ session[s].view = "none" /\ a.unloaded = None => Cardinality(Loaded) < MaxSessions
<1>1. CASE S[s].view # "none"
  BY <1>1 DEF Activations
<1>2. CASE S[s].view = "none"
  <2>1. PICK t \in Victims :
          a = [session |-> [x \in Sessions |->
                        CASE x = s -> [S[x] EXCEPT !.view = "hidden"]
                          [] x = t -> Destroyed(S[x])
                          [] OTHER -> S[x]],
               unloaded |-> t, new |-> TRUE]
    BY <1>2 DEF Activations
  <2>2. /\ t \in Evictable \cup {None}
        /\ t = None => Cardinality(Loaded) < MaxSessions
    <3>1. None \notin Evictable
      BY BoundsAssumption DEF Evictable, Loaded, Listed
    <3> QED BY <3>1 DEF Victims
  <2>3. t # s
    BY <1>2, <2>2, BoundsAssumption DEF Evictable, Loaded
  <2>4. a.unloaded = t
    BY <2>1
  <2>5. a.session = [x \in Sessions |->
                        CASE x = s -> [S[x] EXCEPT !.view = "hidden"]
                          [] x = t -> Destroyed(S[x])
                          [] OTHER -> S[x]]
    BY <2>1
  <2>6. a.session[s] = [S[s] EXCEPT !.view = "hidden"]
    BY <2>3, <2>5
  <2>7. t # None => t \in Sessions /\ a.session[t] = Destroyed(S[t])
    BY <2>2, <2>3, <2>5, ListedIn DEF Evictable, Loaded, Listed, TypeOK
  <2>8. \A x \in Sessions \ {s, t} : a.session[x] = S[x]
    BY <2>5
  <2>9. \A x \in Sessions : Destroyed(S[x]) \in SessionType /\ Destroyed(S[x]).name = S[x].name
                            /\ Destroyed(S[x]).view = "none"
    BY DEF Destroyed, SessionType
  <2>10. /\ [S[s] EXCEPT !.view = "hidden"] \in SessionType
         /\ [S[s] EXCEPT !.view = "hidden"].name = S[s].name
         /\ [S[s] EXCEPT !.view = "hidden"].view = "hidden"
    BY DEF SessionType
  <2>11. a.session \in [Sessions -> SessionType]
    <3>1. \A x \in Sessions : a.session[x] \in SessionType
      BY <2>6, <2>7, <2>8, <2>9, <2>10, BoundsAssumption
    <3> QED BY <2>5, <3>1
  <2>12. ASSUME NEW x \in Sessions
         PROVE  /\ a.session[x].name = S[x].name
                /\ a.session[x].view = "main" => session[x].view = "main"
                /\ a.session[x].view # "none" => session[x].view # "none" \/ x = s
                /\ a.session[x].view = "none" => session[x].view = "none" \/ x = t
    <3>1. CASE x = s
      BY <1>2, <2>6, <2>10, <3>1
    <3>2. CASE x = t
      BY <2>3, <2>7, <2>9, <3>2, BoundsAssumption
    <3>3. CASE x # s /\ x # t
      BY <2>8, <3>3
    <3> QED BY <3>1, <3>2, <3>3
  <2> QED BY <1>2, <2>2, <2>3, <2>4, <2>6, <2>7, <2>9, <2>10, <2>11, <2>12
<1> QED BY <1>1, <1>2

(* ensureActive keeps to maxSessions, on the sessions L that are listed    *)
(* after it.                                                               *)
LEMMA RoomMade ==
  ASSUME TypeOK, RoomKept, NEW S \in [Sessions -> SessionType], NEW s \in Sessions,
         \A x \in Sessions \ {s} : S[x] = session[x],
         S[s].view = session[s].view,
         NEW a \in Activations(S, s),
         NEW L \in SUBSET Sessions, L \subseteq Listed \cup {s},
         s \in L \ Listed => session[s].view = "none"
  PROVE  Cardinality({x \in L : a.session[x].view # "none"}) <= MaxSessions
<1> DEFINE N == {x \in L : a.session[x].view # "none"}
           t == a.unloaded
<1> USE LoadedFinite, BoundsAssumption
<1>1. CASE session[s].view # "none"
  <2>1. N \in SUBSET Loaded
    BY <1>1, Activated DEF Loaded
  <2>2. Cardinality(N) <= Cardinality(Loaded) /\ IsFiniteSet(N)
    BY <2>1, FS_Subset
  <2>3. Cardinality(N) \in Nat
    BY <2>2, FS_CardinalityType
  <2> QED BY <2>2, <2>3 DEF RoomKept
<1>2. CASE session[s].view = "none" /\ t = None
  <2>1. N \in SUBSET (Loaded \cup {s})
    <3>1. \A x \in Sessions : a.session[x].view # "none" => session[x].view # "none" \/ x = s
      BY Activated
    <3> QED BY <3>1 DEF Loaded
  <2>2. /\ IsFiniteSet(Loaded \cup {s})
        /\ Cardinality(Loaded \cup {s}) <= Cardinality(Loaded) + 1
    <3>1. IsFiniteSet(Loaded) /\ Cardinality(Loaded) \in Nat
      OBVIOUS
    <3>2. /\ IsFiniteSet(Loaded \cup {s})
          /\ Cardinality(Loaded \cup {s}) =
               IF s \in Loaded THEN Cardinality(Loaded) ELSE Cardinality(Loaded) + 1
      BY <3>1, FS_AddElement
    <3> QED BY <3>1, <3>2
  <2>3. Cardinality(N) <= Cardinality(Loaded \cup {s}) /\ IsFiniteSet(N)
    BY <2>1, <2>2, FS_Subset
  <2>4. Cardinality(N) \in Nat /\ Cardinality(Loaded \cup {s}) \in Nat
    BY <2>2, <2>3, FS_CardinalityType
  <2>5. Cardinality(Loaded) < MaxSessions
    BY <1>2, Activated
  <2> QED BY <2>2, <2>3, <2>4, <2>5
<1>3. CASE session[s].view = "none" /\ t # None
  <2>1. t \in Evictable /\ a.session[t].view = "none"
    BY <1>3, Activated
  <2>2. t \in Loaded
    BY <2>1 DEF Evictable
  <2>3. N \in SUBSET ((Loaded \ {t}) \cup {s})
    <3>1. \A x \in Sessions : a.session[x].view # "none" => session[x].view # "none" \/ x = s
      BY Activated
    <3> QED BY <2>1, <3>1 DEF Loaded
  <2>4. IsFiniteSet(Loaded \ {t}) /\ Cardinality(Loaded \ {t}) = Cardinality(Loaded) - 1
    BY <2>2, FS_RemoveElement
  <2>5. /\ IsFiniteSet((Loaded \ {t}) \cup {s})
        /\ Cardinality((Loaded \ {t}) \cup {s}) <= Cardinality(Loaded)
    <3> DEFINE M == Loaded \ {t}
    <3>1. Cardinality(Loaded) \in Nat /\ IsFiniteSet(M)
      BY <2>4
    <3> HIDE DEF M
    <3>2. /\ IsFiniteSet(M \cup {s})
          /\ Cardinality(M \cup {s}) = IF s \in M THEN Cardinality(M) ELSE Cardinality(M) + 1
      BY <3>1, FS_AddElement
    <3>3. Cardinality(M) = Cardinality(Loaded) - 1
      BY <2>4 DEF M
    <3>4. IsFiniteSet(M \cup {s}) /\ Cardinality(M \cup {s}) <= Cardinality(Loaded)
      BY <3>1, <3>2, <3>3
    <3> QED BY <3>4 DEF M
  <2>6. Cardinality(N) <= Cardinality((Loaded \ {t}) \cup {s}) /\ IsFiniteSet(N)
    BY <2>3, <2>5, FS_Subset
  <2>7. Cardinality(N) \in Nat /\ Cardinality((Loaded \ {t}) \cup {s}) \in Nat
    BY <2>5, <2>6, FS_CardinalityType
  <2> QED BY <2>5, <2>6, <2>7 DEF RoomKept
<1> QED BY <1>1, <1>2, <1>3

(* Where no view is made, maxSessions stays kept.                          *)
LEMMA NoViewMade ==
  ASSUME TypeOK, RoomKept, Loaded' \subseteq Loaded
  PROVE  RoomKept'
<1>1. Cardinality(Loaded') <= Cardinality(Loaded) /\ IsFiniteSet(Loaded')
  BY LoadedFinite, FS_Subset
<1>2. Cardinality(Loaded') \in Nat
  BY <1>1, FS_CardinalityType
<1> QED BY <1>1, <1>2, LoadedFinite, BoundsAssumption DEF RoomKept

(* makeRoom unloads no session that is shown.                              *)
LEMMA EvictionKeepsShown ==
  ASSUME TypeOK, Agreed, ShownIsKnown, NEW t \in Evictable \cup {None},
         NEW x \in Sessions \ strayed, session[x].view = "main"
  PROVE  /\ viewportActive /\ visibleName \in Names /\ sessions[visibleName] = x
         /\ ForgetVisible(t) = visibleName
<1>1. viewportActive /\ visibleName \in Names /\ sessions[visibleName] = x
  BY DEF ShownIsKnown, TypeOK
<1>2. CASE t = None
  BY <1>1, <1>2 DEF ForgetVisible
<1>3. CASE t # None
  <2>1. t \in Listed /\ session[t].view # "main"
    BY <1>3 DEF Evictable, Loaded
  <2>2. PICK n \in Names : sessions[n] = t
    BY <2>1, ListedIn DEF Listed, TypeOK
  <2>3. session[t].name = n
    BY <1>3, <2>2 DEF Agreed
  <2>4. n # visibleName
    BY <1>1, <2>1, <2>2
  <2> QED BY <1>1, <2>3, <2>4 DEF ForgetVisible
<1> QED BY <1>1, <1>2, <1>3

LEMMA ForgetVisibleType ==
  ASSUME TypeOK, NEW s
  PROVE  ForgetVisible(s) \in {visibleName, None} /\ ForgetVisible(s) \in Names \cup {None}
BY DEF ForgetVisible, TypeOK

--------------------------------------------------------------------------------
(* What holds of a call when its turn comes.                               *)
LEMMA StartsAtHead ==
  ASSUME TypeOK, CallsOK, NEW c \in Calls, NEW op, Starts(c, op)
  PROVE  /\ call[c].pc # "idle" /\ call[c].queue \in Names
         /\ queue[call[c].queue][1] = c
         /\ op # "ensure" => call[c].session \in Sessions /\ Held(call[c].session)
<1>1. call[c].pc # "idle" /\ call[c].op = op
  BY DEF Starts
<1>2. call[c].queue \in Names /\ queue[call[c].queue] \in Seq(Calls)
  BY <1>1 DEF CallsOK, TypeOK
<1>3. \E i \in 1..Len(queue[call[c].queue]) : queue[call[c].queue][i] = c
  BY <1>1 DEF CallsOK
<1>4. queue[call[c].queue][1] = c
  BY <1>2, <1>3 DEF Starts
<1> QED BY <1>1, <1>2, <1>4 DEF CallsOK, Held

(* The end of a call that leaves every session listed and makes no view    *)
(* but of sessions that were held.                                         *)
LEMMA KeptByAnswer ==
  ASSUME TypeOK, Kept, NEW c \in Calls, Answer(c),
         abandoned \subseteq Sessions,
         Listed \subseteq Listed',
         \A x \in Sessions : session[x].name \in Names => session'[x].name \in Names,
         \A x \in Sessions : session'[x].view # "none" => session[x].view # "none" \/ Held(x)
  PROVE  Kept' /\ abandoned' \in SUBSET Sessions
<1>1. abandoned' = {s \in abandoned : \/ session'[s].view # "none"
                                       \/ \E d \in Calls \ {c} : call[d].session = s}
  BY DEF Answer
<1>2. call'[c].session = None /\ \A d \in Calls \ {c} : call'[d] = call[d]
  BY DEF Answer, TypeOK, Idle
<1>3. ASSUME NEW x \in Sessions, Held(x)' \/ session'[x].view # "none"
      PROVE  session'[x].name \in Names /\ x \in Listed' \cup abandoned'
  <2>1. Held(x)' => \E d \in Calls \ {c} : call[d].session = x
    BY <1>2, BoundsAssumption DEF Held
  <2>2. Held(x) \/ session[x].view # "none"
    BY <1>3, <2>1 DEF Held
  <2>3. session[x].name \in Names /\ x \in Listed \cup abandoned
    BY <2>2 DEF Kept
  <2> QED BY <1>1, <1>3, <2>1, <2>3
<1> QED BY <1>1, <1>3 DEF Kept

(* ... and a step of a call that goes on, with session s.                  *)
LEMMA KeptByProceed ==
  ASSUME TypeOK, Kept, NEW c \in Calls, NEW s \in Sessions, NEW pc, Proceed(c, s, pc),
         Listed \subseteq Listed',
         session'[s].name \in Names, s \in Listed' \cup abandoned,
         \A x \in Sessions : session[x].name \in Names => session'[x].name \in Names,
         \A x \in Sessions : session'[x].view # "none" => session[x].view # "none" \/ x = s
  PROVE  Kept' /\ abandoned' \in SUBSET Sessions
<1>1. call'[c].session = s /\ \A d \in Calls \ {c} : call'[d] = call[d]
  <2>1. call[c] \in CallType
    BY DEF TypeOK
  <2> QED BY <2>1 DEF Proceed, TypeOK, CallType
<1>2. abandoned' = abandoned
  BY DEF Proceed
<1>3. ASSUME NEW x \in Sessions, Held(x)' \/ session'[x].view # "none"
      PROVE  session'[x].name \in Names /\ x \in Listed' \cup abandoned'
  <2>1. Held(x)' => Held(x) \/ x = s
    BY <1>1 DEF Held
  <2> QED BY <1>2, <1>3, <2>1 DEF Kept
<1> QED BY <1>2, <1>3 DEF Kept, TypeOK

--------------------------------------------------------------------------------
(* The steps.                                                              *)

LEMMA AskKeeps ==
  ASSUME BrowserInv, NEW c \in Calls, NEW op \in Ops, NEW n \in Names,
         NEW s \in Sessions \cup {None},
         \/ op = "ensure" /\ s = None
         \/ s \in Sessions /\ s = sessions[n],
         Enqueue(c, op, n, s)
  PROVE  BrowserInv'
<1>0. TypeOK /\ Agreed /\ Kept /\ CallsOK /\ QueuesOK /\ RoomKept /\ ShownIsKnown
  BY DEF BrowserInv
<1>1. UNCHANGED <<sessions, session, visibleName, viewportActive, abandoned, strayed>>
  BY DEF Enqueue
<1>2. /\ queue' \in [Names -> Seq(Calls)] /\ call' \in [Calls -> CallType]
      /\ CallsOK' /\ QueuesOK'
  BY <1>0, EnqueueQueues
<1>3. TypeOK'
  BY <1>0, <1>1, <1>2 DEF TypeOK
<1>4. Listed' = Listed /\ Loaded' = Loaded
  BY <1>1 DEF Listed, Loaded
<1>5. Kept'
  <2>1. \A x \in Sessions : Held(x)' => Held(x) \/ x = s
    BY <1>0 DEF Held, TypeOK, Enqueue
  <2>2. s \in Sessions => s \in Listed /\ session[s].name = n
    BY <1>0, BoundsAssumption, ListedIn DEF TypeOK, Agreed, Listed
  <2> QED BY <1>0, <1>1, <1>4, <2>1, <2>2 DEF Kept
<1> QED
  BY <1>0, <1>1, <1>2, <1>3, <1>4, <1>5 DEF BrowserInv, Agreed, RoomKept, ShownIsKnown

(* A restore that starts leaves names and views as they are.               *)
LEMMA RestoreKeepsViews ==
  ASSUME NEW S \in [Sessions -> SessionType], NEW s \in Sessions,
         NEW T \in {S, RestoreStarted(S, s)}
  PROVE  /\ T \in [Sessions -> SessionType]
         /\ \A x \in Sessions : T[x].name = S[x].name /\ T[x].view = S[x].view
<1> DEFINE r == [S[s] EXCEPT !.restore = TRUE]
<1>1. r \in SessionType /\ r.name = S[s].name /\ r.view = S[s].view
  BY DEF SessionType
<1>2. T = S \/ T = [S EXCEPT ![s] = r]
  BY DEF RestoreStarted
<1> HIDE DEF r
<1> QED BY <1>1, <1>2

LEMMA BeginEnsureKeeps ==
  ASSUME BrowserInv, NEW c \in Calls, BeginEnsure(c)
  PROVE  BrowserInv'
<1>0. TypeOK /\ Agreed /\ Kept /\ CallsOK /\ QueuesOK /\ RoomKept /\ ShownIsKnown
  BY DEF BrowserInv
<1> DEFINE n == call[c].queue
<1>1. call[c].pc # "idle" /\ n \in Names /\ queue[n][1] = c
  BY <1>0, StartsAtHead DEF BeginEnsure
<1>2. UNCHANGED <<viewportActive, strayed>>
  BY DEF BeginEnsure
<1>3. PICK s \in IF Named(n) # None THEN {Named(n)} ELSE Free :
       LET S == IF s \in Listed THEN session ELSE [session EXCEPT ![s] = Fresh(n)]
       IN /\ sessions' = [sessions EXCEPT ![n] = s]
          /\ \/ /\ NoRoom(s)
                /\ session' = S
                /\ UNCHANGED visibleName
                /\ Answer(c)
             \/ \E a \in Activations(S, s) :
                  /\ session' = IF a.new THEN RestoreStarted(a.session, s) ELSE a.session
                  /\ visibleName' = ForgetVisible(a.unloaded)
                  /\ Proceed(c, s, "working")
  BY DEF BeginEnsure
<1> DEFINE S == IF s \in Listed THEN session ELSE [session EXCEPT ![s] = Fresh(n)]
<1>4. /\ s \in Sessions
      /\ \/ s \in Listed /\ sessions[n] = s
         \/ s \notin Listed /\ sessions[n] = None /\ session[s].view = "none"
  <2>1. Named(n) = sessions[n] /\ sessions[n] \in Sessions \cup {None}
    BY <1>0, <1>1, BoundsAssumption DEF Named, TypeOK
  <2>2. CASE Named(n) # None
    <3>1. s = sessions[n] /\ s \in Sessions
      BY <1>3, <2>1, <2>2
    <3> QED BY <1>0, <1>1, <3>1, ListedIn DEF TypeOK, Listed
  <2>3. CASE Named(n) = None
    BY <1>3, <2>1, <2>3 DEF Free
  <2> QED BY <2>2, <2>3
<1>5. sessions' = [sessions EXCEPT ![n] = s] /\ sessions' \in [Names -> Sessions \cup {None}]
  BY <1>0, <1>3, <1>4 DEF TypeOK
<1>6. Listed' = Listed \cup {s}
  <2>1. \A x : x \in Listed <=> x \in Sessions /\ \E m \in Names : sessions[m] = x
    BY <1>0, ListedIn DEF TypeOK, Listed
  <2>2. \A x : x \in Listed' <=> x \in Sessions /\ \E m \in Names : sessions'[m] = x
    BY <1>5, ListedIn DEF Listed
  <2> QED BY <1>0, <1>1, <1>4, <1>5, <2>1, <2>2, BoundsAssumption DEF TypeOK
<1>7. /\ S \in [Sessions -> SessionType]
      /\ \A x \in Sessions \ {s} : S[x] = session[x]
      /\ S[s].view = session[s].view /\ S[s].name = n
  <2>1. Fresh(n) \in SessionType /\ Fresh(n).view = "none" /\ Fresh(n).name = n
    BY <1>1 DEF Fresh, SessionType
  <2>2. CASE s \in Listed
    BY <1>0, <1>1, <1>4, <2>2, BoundsAssumption DEF TypeOK, Agreed
  <2>3. CASE s \notin Listed
    BY <1>0, <1>4, <2>1, <2>3 DEF TypeOK
  <2> QED BY <2>2, <2>3
\* What the call leaves, whether it finds room or not.
<1>8. SUFFICES
        ASSUME session' \in [Sessions -> SessionType],
               \A x \in Sessions :
                 /\ session'[x].name = S[x].name
                 /\ session'[x].view = "main" => session[x].view = "main"
                 /\ session'[x].view # "none" => session[x].view # "none" \/ x = s,
               RoomKept',
               NEW t \in Evictable \cup {None}, visibleName' = ForgetVisible(t),
               Kept', abandoned' \subseteq Sessions,
               queue' \in [Names -> Seq(Calls)] /\ call' \in [Calls -> CallType],
               CallsOK' /\ QueuesOK'
        PROVE  BrowserInv'
  <2>1. \A x \in Sessions : session[x].name \in Names => S[x].name \in Names
    BY <1>1, <1>7
  <2>2. Listed \subseteq Listed'
    BY <1>6
  <2>3. CASE NoRoom(s) /\ session' = S /\ UNCHANGED visibleName /\ Answer(c)
    <3>1. \A x \in Sessions : S[x].view = session[x].view
      BY <1>7
    <3>2. Kept' /\ abandoned' \in SUBSET Sessions
      BY <1>0, <1>7, <2>1, <2>2, <2>3, <3>1, KeptByAnswer DEF TypeOK
    <3>3. Loaded' \subseteq Loaded
      BY <1>4, <1>6, <2>3, <3>1, <1>7 DEF Loaded
    <3>4. RoomKept'
      BY <1>0, <3>3, NoViewMade
    <3>5. visibleName' = ForgetVisible(None)
      BY <2>3 DEF ForgetVisible
    <3>6. /\ queue' \in [Names -> Seq(Calls)] /\ call' \in [Calls -> CallType]
          /\ CallsOK' /\ QueuesOK'
      BY <1>0, <1>1, <2>3, AnswerQueues
    <3> QED BY <1>7, <1>8, <2>3, <3>1, <3>2, <3>4, <3>5, <3>6
  <2>4. ASSUME NEW a \in Activations(S, s),
               session' = IF a.new THEN RestoreStarted(a.session, s) ELSE a.session,
               visibleName' = ForgetVisible(a.unloaded), Proceed(c, s, "working")
        PROVE  BrowserInv'
    <3>1. /\ a.session \in [Sessions -> SessionType]
          /\ a.unloaded \in Evictable \cup {None}
          /\ \A x \in Sessions :
              /\ a.session[x].name = S[x].name
              /\ a.session[x].view = "main" => session[x].view = "main"
              /\ a.session[x].view # "none" => session[x].view # "none" \/ x = s
      BY <1>0, <1>4, <1>7, Activated
    <3>2. /\ session' \in [Sessions -> SessionType]
          /\ \A x \in Sessions : session'[x].name = a.session[x].name
                                 /\ session'[x].view = a.session[x].view
      <4>1. session' \in {a.session, RestoreStarted(a.session, s)}
        BY <2>4
      <4> QED BY <1>4, <3>1, <4>1, RestoreKeepsViews
    <3>3. Kept' /\ abandoned' \in SUBSET Sessions
      BY <1>0, <1>1, <1>4, <1>6, <1>7, <2>1, <2>2, <2>4, <3>1, <3>2, KeptByProceed
    <3>4. RoomKept'
      <4>1. Listed' \in SUBSET Sessions
        BY <1>5, ListedIn DEF Listed
      <4>2. Cardinality({x \in Listed' : a.session[x].view # "none"}) <= MaxSessions
        BY <1>0, <1>4, <1>6, <1>7, <4>1, RoomMade
      <4>3. Loaded' = {x \in Listed' : a.session[x].view # "none"}
        BY <3>2, <4>1 DEF Loaded
      <4> QED BY <4>2, <4>3 DEF RoomKept
    <3>5. /\ queue' \in [Names -> Seq(Calls)] /\ call' \in [Calls -> CallType]
          /\ CallsOK' /\ QueuesOK'
      BY <1>0, <1>1, <1>4, <2>4, ProceedQueues
    <3> QED BY <1>8, <2>4, <3>1, <3>2, <3>3, <3>4, <3>5
  <2> QED BY <1>3, <2>3, <2>4
<1>9. TypeOK'
  BY <1>0, <1>2, <1>5, <1>8, ForgetVisibleType DEF TypeOK
<1>10. Agreed'
  <2> SUFFICES ASSUME NEW m \in Names, sessions'[m] # None
               PROVE  session'[sessions'[m]].name = m
    BY DEF Agreed
  <2>1. CASE m = n
    BY <1>0, <1>4, <1>5, <1>7, <1>8, <2>1 DEF TypeOK
  <2>2. CASE m # n
    <3>1. sessions'[m] = sessions[m] /\ sessions[m] \in Sessions
      BY <1>0, <1>5, <2>2 DEF TypeOK
    <3>2. sessions[m] \in Listed /\ session[sessions[m]].name = m
      BY <1>0, <3>1, ListedIn, BoundsAssumption DEF TypeOK, Agreed, Listed
    <3>3. sessions[m] # s
      BY <1>0, <1>1, <1>4, <2>2, <3>1, <3>2, BoundsAssumption DEF Agreed
    <3> QED BY <1>7, <1>8, <3>1, <3>2, <3>3
  <2> QED BY <2>1, <2>2
<1>11. ShownIsKnown'
  <2> SUFFICES ASSUME NEW x \in Sessions \ strayed, session'[x].view = "main"
               PROVE  viewportActive /\ visibleName' # None /\ sessions'[visibleName'] = x
    BY <1>2 DEF ShownIsKnown
  <2>1. /\ viewportActive /\ visibleName \in Names /\ sessions[visibleName] = x
        /\ visibleName' = visibleName
    BY <1>0, <1>8, EvictionKeepsShown
  <2> QED BY <1>0, <1>1, <1>4, <1>5, <2>1, BoundsAssumption DEF TypeOK
<1> QED BY <1>8, <1>9, <1>10, <1>11 DEF BrowserInv

LEMMA BeginActKeeps ==
  ASSUME BrowserInv, NEW c \in Calls, BeginAct(c)
  PROVE  BrowserInv'
<1>0. TypeOK /\ Agreed /\ Kept /\ CallsOK /\ QueuesOK /\ RoomKept /\ ShownIsKnown
  BY DEF BrowserInv
<1> DEFINE s == call[c].session
<1>1. /\ call[c].pc # "idle" /\ queue[call[c].queue][1] = c
      /\ s \in Sessions /\ Held(s)
  BY <1>0, StartsAtHead DEF BeginAct
<1>2. UNCHANGED <<sessions, viewportActive, strayed>> /\ Listed' = Listed
  BY DEF BeginAct, Listed
<1>3. CASE UNCHANGED <<session, visibleName>> /\ Answer(c)
  <2>1. Kept' /\ abandoned' \in SUBSET Sessions
    BY <1>0, <1>2, <1>3, KeptByAnswer DEF TypeOK
  <2>2. /\ queue' \in [Names -> Seq(Calls)] /\ call' \in [Calls -> CallType]
        /\ CallsOK' /\ QueuesOK'
    BY <1>0, <1>1, <1>3, AnswerQueues
  <2>3. Loaded' = Loaded
    BY <1>2, <1>3 DEF Loaded
  <2> QED
    BY <1>0, <1>2, <1>3, <2>1, <2>2, <2>3
       DEF BrowserInv, TypeOK, Agreed, RoomKept, ShownIsKnown
<1>4. ASSUME NEW a \in Activations(session, s),
             session' = IF a.new THEN RestoreStarted(a.session, s) ELSE a.session,
             visibleName' = ForgetVisible(a.unloaded),
             Proceed(c, s, IF session'[s].restore THEN "waiting" ELSE "working")
      PROVE  BrowserInv'
  <2>0. session \in [Sessions -> SessionType]
    BY <1>0 DEF TypeOK
  <2>1. /\ a.session \in [Sessions -> SessionType]
        /\ a.unloaded \in Evictable \cup {None}
        /\ \A x \in Sessions :
            /\ a.session[x].name = session[x].name
            /\ a.session[x].view = "main" => session[x].view = "main"
            /\ a.session[x].view # "none" => session[x].view # "none" \/ x = s
    BY <1>0, <1>1, <2>0, Activated
  <2>2. /\ session' \in [Sessions -> SessionType]
        /\ \A x \in Sessions : /\ session'[x].name = session[x].name
                               /\ session'[x].view = a.session[x].view
    <3>1. session' \in {a.session, RestoreStarted(a.session, s)}
      BY <1>4
    <3> QED BY <1>1, <2>1, <3>1, RestoreKeepsViews
  <2>3. session[s].name \in Names /\ s \in Listed \cup abandoned
    BY <1>0, <1>1 DEF Kept
  <2>4. Kept' /\ abandoned' \in SUBSET Sessions
    <3>1. s \in Listed' \cup abandoned /\ session'[s].name \in Names /\ Listed \subseteq Listed'
      BY <1>1, <1>2, <2>1, <2>2, <2>3
    <3>2. \A x \in Sessions :
            /\ session[x].name \in Names => session'[x].name \in Names
            /\ session'[x].view # "none" => session[x].view # "none" \/ x = s
      BY <2>1, <2>2
    <3> QED BY <1>0, <1>1, <1>4, <3>1, <3>2, KeptByProceed
  <2>5. RoomKept'
    <3>1. Listed \in SUBSET Sessions
      BY <1>0, ListedIn DEF Listed, TypeOK
    <3>2. Cardinality({x \in Listed : a.session[x].view # "none"}) <= MaxSessions
      BY <1>0, <1>1, <2>0, <3>1, RoomMade
    <3>3. Loaded' = {x \in Listed : a.session[x].view # "none"}
      BY <1>2, <2>2, <3>1 DEF Loaded
    <3> QED BY <3>2, <3>3 DEF RoomKept
  <2>6. /\ queue' \in [Names -> Seq(Calls)] /\ call' \in [Calls -> CallType]
        /\ CallsOK' /\ QueuesOK'
    BY <1>0, <1>1, <1>4, ProceedQueues
  <2>7. TypeOK'
    BY <1>0, <1>2, <1>4, <2>2, <2>4, <2>6, ForgetVisibleType DEF TypeOK
  <2>8. Agreed'
    BY <1>0, <1>2, <2>2 DEF Agreed, TypeOK
  <2>9. ShownIsKnown'
    <3> SUFFICES ASSUME NEW x \in Sessions \ strayed, session'[x].view = "main"
                 PROVE  viewportActive /\ visibleName' # None /\ sessions[visibleName'] = x
      BY <1>2 DEF ShownIsKnown
    <3>1. /\ viewportActive /\ visibleName \in Names /\ sessions[visibleName] = x
          /\ visibleName' = visibleName
      BY <1>0, <1>4, <2>1, <2>2, EvictionKeepsShown
    <3> QED BY <3>1, BoundsAssumption
  <2> QED BY <2>4, <2>5, <2>6, <2>7, <2>8, <2>9 DEF BrowserInv
<1> QED BY <1>3, <1>4 DEF BeginAct

LEMMA BeginShowKeeps ==
  ASSUME BrowserInv, NEW c \in Calls, BeginShow(c)
  PROVE  BrowserInv'
<1>0. TypeOK /\ Agreed /\ Kept /\ CallsOK /\ QueuesOK /\ RoomKept /\ ShownIsKnown
  BY DEF BrowserInv
<1> DEFINE s == call[c].session
<1>1. /\ call[c].pc # "idle" /\ queue[call[c].queue][1] = c
      /\ s \in Sessions /\ Held(s)
  BY <1>0, StartsAtHead DEF BeginShow
<1>2. /\ UNCHANGED <<sessions, viewportActive>> /\ Listed' = Listed /\ Answer(c)
      /\ Listed \in SUBSET Sessions /\ session \in [Sessions -> SessionType]
  BY <1>0, ListedIn DEF BeginShow, Listed, TypeOK
<1>3. /\ queue' \in [Names -> Seq(Calls)] /\ call' \in [Calls -> CallType]
      /\ CallsOK' /\ QueuesOK'
  BY <1>0, <1>1, <1>2, AnswerQueues
<1>4. CASE UNCHANGED <<session, visibleName, strayed>>
  <2>1. Kept' /\ abandoned' \in SUBSET Sessions
    BY <1>0, <1>2, <1>4, KeptByAnswer DEF TypeOK
  <2>2. Loaded' = Loaded
    BY <1>2, <1>4 DEF Loaded
  <2> QED
    BY <1>0, <1>2, <1>3, <1>4, <2>1, <2>2
       DEF BrowserInv, TypeOK, Agreed, RoomKept, ShownIsKnown
<1>5. ASSUME NEW a \in Activations(session, s),
             LET shown == Named(ForgetVisible(a.unloaded))
                 S == Hidden(a.session, shown)
             IN \/ /\ session' = S
                   /\ visibleName' = None
                   /\ strayed' = strayed \ {shown}
                \/ /\ session' = RestoreStarted([S EXCEPT ![s].view = "main"], s)
                   /\ visibleName' = session[s].name
                   /\ strayed' = IF s \in Listed /\ viewportActive
                                 THEN strayed \ {s, shown}
                                 ELSE (strayed \ {shown}) \cup {s}
      PROVE  BrowserInv'
  <2> DEFINE shown == Named(ForgetVisible(a.unloaded))
             S == Hidden(a.session, shown)
  <2>1. /\ a.session \in [Sessions -> SessionType]
        /\ a.unloaded \in Evictable \cup {None}
        /\ a.session[s].view # "none"
        /\ \A x \in Sessions :
            /\ a.session[x].name = session[x].name
            /\ a.session[x].view = "main" => session[x].view = "main"
            /\ a.session[x].view # "none" => session[x].view # "none" \/ x = s
    BY <1>0, <1>1, <1>2, Activated
  <2>2. shown \in Sessions \cup {None}
    BY <1>0, ForgetVisibleType, NamedIn
  <2>3. /\ S \in [Sessions -> SessionType]
        /\ \A x \in Sessions : /\ S[x].name = session[x].name
                               /\ S[x].view = "none" <=> a.session[x].view = "none"
                               /\ S[x].view = "main" => session[x].view = "main"
                               /\ S[x].view = "main" => x # shown
    BY <2>1, <2>2, HiddenView
  \* moveToHidden leaves none in the window that hideVisible would not find.
  <2>4. \A x \in Sessions \ strayed : S[x].view # "main"
    <3> SUFFICES ASSUME NEW x \in Sessions \ strayed, S[x].view = "main"
                 PROVE  FALSE
      OBVIOUS
    <3>1. session[x].view = "main" /\ x # shown
      BY <2>3
    <3>2. /\ visibleName \in Names /\ sessions[visibleName] = x
          /\ ForgetVisible(a.unloaded) = visibleName
      BY <1>0, <2>1, <3>1, EvictionKeepsShown
    <3>3. shown = x
      BY <3>2, BoundsAssumption DEF Named
    <3> QED BY <3>1, <3>3
  <2>5. /\ session' \in [Sessions -> SessionType]
        /\ \A x \in Sessions : /\ session'[x].name = session[x].name
                               /\ session'[x].view = "none" <=> a.session[x].view = "none"
                               /\ x # s => session'[x].view = S[x].view
        /\ visibleName' \in Names \cup {None}
        /\ strayed' \in SUBSET Sessions
    <3>1. session[s].name \in Names
      BY <1>0, <1>1 DEF Kept
    <3>2. CASE session' = S /\ visibleName' = None /\ strayed' = strayed \ {shown}
      BY <1>0, <2>3, <3>2 DEF TypeOK
    <3>3. CASE /\ session' = RestoreStarted([S EXCEPT ![s].view = "main"], s)
               /\ visibleName' = session[s].name
               /\ strayed' = IF s \in Listed /\ viewportActive
                             THEN strayed \ {s, shown}
                             ELSE (strayed \ {shown}) \cup {s}
      <4>1. session'[s] = [S[s] EXCEPT !.view = "main", !.restore = TRUE]
        BY <1>1, <2>3, <3>3 DEF RestoreStarted, SessionType
      <4>2. \A x \in Sessions \ {s} : session'[x] = S[x]
        BY <1>1, <2>3, <3>3 DEF RestoreStarted
      <4>3. session'[s] \in SessionType /\ session'[s].name = S[s].name
            /\ session'[s].view = "main"
        <5> HIDE DEF S
        <5>1. S[s] \in SessionType
          BY <1>1, <2>3
        <5>2. [S[s] EXCEPT !.view = "main", !.restore = TRUE] \in SessionType
          BY <5>1 DEF SessionType
        <5> QED BY <4>1, <5>1, <5>2 DEF SessionType
      <4>4. session' \in [Sessions -> SessionType]
        BY <1>1, <2>3, <3>3, <4>2, <4>3 DEF RestoreStarted
      <4>5. strayed' \in SUBSET Sessions
        BY <1>0, <1>1, <3>3 DEF TypeOK
      <4>6. visibleName' \in Names
        BY <3>1, <3>3
      <4> HIDE DEF S, shown
      <4>7. ASSUME NEW x \in Sessions
            PROVE  /\ session'[x].name = session[x].name
                   /\ session'[x].view = "none" <=> a.session[x].view = "none"
                   /\ x # s => session'[x].view = S[x].view
        <5>1. CASE x = s
          BY <2>1, <2>3, <4>3, <5>1
        <5>2. CASE x # s
          BY <2>3, <4>2, <5>2
        <5> QED BY <5>1, <5>2
      <4> QED BY <4>4, <4>5, <4>6, <4>7
    <3> QED BY <1>5, <3>2, <3>3
  <2>6. Kept' /\ abandoned' \in SUBSET Sessions
    BY <1>0, <1>1, <1>2, <2>1, <2>5, KeptByAnswer DEF TypeOK
  <2>7. RoomKept'
    <3>1. Cardinality({x \in Listed : a.session[x].view # "none"}) <= MaxSessions
      BY <1>0, <1>1, <1>2, RoomMade
    <3>2. Loaded' = {x \in Listed : a.session[x].view # "none"}
      BY <1>2, <2>5 DEF Loaded
    <3> QED BY <3>1, <3>2 DEF RoomKept
  <2>8. TypeOK'
    BY <1>0, <1>2, <1>3, <2>5, <2>6 DEF TypeOK
  <2>9. Agreed'
    <3>1. \A n \in Names : sessions'[n] = sessions[n] /\ sessions[n] \in Sessions \cup {None}
      BY <1>0, <1>2 DEF TypeOK
    <3> QED BY <1>0, <2>5, <3>1 DEF Agreed
  <2>10. ShownIsKnown'
    <3> SUFFICES ASSUME NEW x \in Sessions, x \notin strayed', session'[x].view = "main"
                 PROVE  viewportActive /\ visibleName' # None /\ sessions[visibleName'] = x
      BY <1>2 DEF ShownIsKnown
    <3>1. CASE session' = S /\ visibleName' = None /\ strayed' = strayed \ {shown}
      BY <2>3, <2>4, <3>1
    <3>2. CASE /\ session' = RestoreStarted([S EXCEPT ![s].view = "main"], s)
               /\ visibleName' = session[s].name
               /\ strayed' = IF s \in Listed /\ viewportActive
                             THEN strayed \ {s, shown}
                             ELSE (strayed \ {shown}) \cup {s}
      <4>1. x = s
        BY <2>3, <2>4, <2>5, <3>2
      <4>2. s \in Listed /\ viewportActive
        BY <3>2, <4>1
      <4>3. PICK n \in Names : sessions[n] = s
        BY <1>0, <4>2, ListedIn DEF TypeOK, Listed
      <4>4. visibleName' = n
        BY <1>0, <1>1, <3>2, <4>3, BoundsAssumption DEF Agreed
      <4> QED BY <4>1, <4>2, <4>3, <4>4, BoundsAssumption
    <3> QED BY <1>5, <3>1, <3>2
  <2> QED BY <1>3, <2>6, <2>7, <2>8, <2>9, <2>10 DEF BrowserInv
<1> QED BY <1>4, <1>5 DEF BeginShow

(* Where the view of s is hidden or gone, and the visible name forgotten   *)
(* if it is that of s, what is shown stays known.                          *)
LEMMA HidingKeepsKnown ==
  ASSUME BrowserInv, NEW s \in Sessions, session[s].view # "none",
         UNCHANGED <<sessions, viewportActive>>,
         \A x \in Sessions : session'[x].view = "main" => x # s /\ session[x].view = "main",
         visibleName' = ForgetVisible(s), strayed' = StrayedBy(s)
  PROVE  ShownIsKnown' /\ strayed' \in SUBSET Sessions /\ visibleName' \in Names \cup {None}
<1>0. TypeOK /\ Agreed /\ Kept /\ ShownIsKnown
  BY DEF BrowserInv
<1>1. session[s].name \in Names
  BY <1>0 DEF Kept
<1>2. strayed' \in SUBSET Sessions /\ visibleName' \in Names \cup {None}
  BY <1>0, <1>1, ForgetVisibleType DEF StrayedBy, TypeOK
<1>3. ASSUME NEW x \in Sessions, x \notin strayed', session'[x].view = "main"
      PROVE  viewportActive /\ visibleName' # None /\ sessions[visibleName'] = x
  <2>1. x # s /\ session[x].view = "main"
    BY <1>3
  <2>2. x \notin strayed
    BY <1>3, <2>1, BoundsAssumption DEF StrayedBy
  <2>3. viewportActive /\ visibleName \in Names /\ sessions[visibleName] = x
    BY <1>0, <2>1, <2>2 DEF ShownIsKnown, TypeOK
  <2>4. CASE session[s].name = visibleName
    <3>1. s \in Listed
      BY <1>3, <2>1, <2>3, <2>4, BoundsAssumption DEF StrayedBy
    <3>2. PICK n \in Names : sessions[n] = s
      BY <1>0, <3>1, ListedIn DEF TypeOK, Listed
    <3>3. n = visibleName
      BY <1>0, <2>4, <3>2, BoundsAssumption DEF Agreed
    <3> QED BY <2>1, <2>3, <3>2, <3>3
  <2>5. CASE session[s].name # visibleName
    BY <2>3, <2>5, BoundsAssumption DEF ForgetVisible
  <2> QED BY <2>4, <2>5
<1> QED BY <1>2, <1>3 DEF ShownIsKnown

LEMMA BeginHideKeeps ==
  ASSUME BrowserInv, NEW c \in Calls, BeginHide(c)
  PROVE  BrowserInv'
<1>0. TypeOK /\ Agreed /\ Kept /\ CallsOK /\ QueuesOK /\ RoomKept /\ ShownIsKnown
  BY DEF BrowserInv
<1> DEFINE s == call[c].session
<1>1. /\ call[c].pc # "idle" /\ queue[call[c].queue][1] = c
      /\ s \in Sessions /\ Held(s)
  BY <1>0, StartsAtHead DEF BeginHide
<1>2. /\ UNCHANGED <<sessions, viewportActive>> /\ Listed' = Listed /\ Answer(c)
      /\ Listed \in SUBSET Sessions /\ session \in [Sessions -> SessionType]
  BY <1>0, ListedIn DEF BeginHide, Listed, TypeOK
<1>3. /\ queue' \in [Names -> Seq(Calls)] /\ call' \in [Calls -> CallType]
      /\ CallsOK' /\ QueuesOK'
  BY <1>0, <1>1, <1>2, AnswerQueues
<1>4. /\ session' \in [Sessions -> SessionType]
      /\ \A x \in Sessions : /\ session'[x].name = session[x].name
                             /\ session'[x].view = "none" <=> session[x].view = "none"
                             /\ session'[x].view = "main" => session[x].view = "main" /\ x # s
  BY <1>1, <1>2, HiddenView DEF BeginHide
<1>5. ShownIsKnown' /\ strayed' \in SUBSET Sessions /\ visibleName' \in Names \cup {None}
  <2>1. CASE session[s].view # "none"
    <3>1. visibleName' = ForgetVisible(s) /\ strayed' = StrayedBy(s)
      BY <2>1 DEF BeginHide
    <3> QED BY <1>1, <1>2, <1>4, <2>1, <3>1, HidingKeepsKnown
  <2>2. CASE session[s].view = "none"
    BY <1>0, <1>2, <1>4, <2>2 DEF BeginHide, ShownIsKnown, TypeOK
  <2> QED BY <2>1, <2>2
<1>6. Kept' /\ abandoned' \in SUBSET Sessions
  BY <1>0, <1>2, <1>4, KeptByAnswer DEF TypeOK
<1>7. RoomKept'
  <2>1. Loaded' = Loaded
    BY <1>2, <1>4 DEF Loaded
  <2> QED BY <1>0, <2>1 DEF RoomKept
<1>8. TypeOK'
  BY <1>0, <1>2, <1>3, <1>4, <1>5, <1>6 DEF TypeOK
<1>9. Agreed'
  BY <1>0, <1>2, <1>4 DEF Agreed, TypeOK
<1> QED BY <1>3, <1>5, <1>6, <1>7, <1>8, <1>9 DEF BrowserInv

(* Touching a session, going on after a restore and finishing change only  *)
(* the call and its queue.                                                 *)
LEMMA CallStepKeeps ==
  ASSUME BrowserInv, NEW c \in Calls, BeginTouch(c) \/ GoOn(c) \/ Finish(c)
  PROVE  BrowserInv'
<1>0. TypeOK /\ Agreed /\ Kept /\ CallsOK /\ QueuesOK /\ RoomKept /\ ShownIsKnown
  BY DEF BrowserInv
<1> DEFINE s == call[c].session
<1>1. UNCHANGED <<sessions, session, visibleName, viewportActive, strayed>>
  BY DEF BeginTouch, GoOn, Finish
<1>2. /\ call[c].pc # "idle" /\ queue[call[c].queue][1] = c
      /\ s \in Sessions /\ Held(s)
  <2>1. CASE BeginTouch(c)
    BY <1>0, <2>1, StartsAtHead DEF BeginTouch
  <2>2. CASE GoOn(c) \/ Finish(c)
    BY <1>0, <2>2 DEF GoOn, Finish, CallsOK, Held
  <2> QED BY <2>1, <2>2
<1>3. Answer(c) \/ Proceed(c, s, "working")
  BY DEF BeginTouch, GoOn, Finish
<1>4. /\ queue' \in [Names -> Seq(Calls)] /\ call' \in [Calls -> CallType]
      /\ CallsOK' /\ QueuesOK'
  BY <1>0, <1>2, <1>3, AnswerQueues, ProceedQueues
<1>5. Listed' = Listed /\ Loaded' = Loaded
  BY <1>1 DEF Listed, Loaded
<1>6. Kept' /\ abandoned' \in SUBSET Sessions
  <2>1. session[s].name \in Names /\ s \in Listed \cup abandoned
    BY <1>0, <1>2 DEF Kept
  <2>2. CASE Answer(c)
    BY <1>0, <1>1, <1>5, <2>2, KeptByAnswer DEF TypeOK
  <2>3. CASE Proceed(c, s, "working")
    BY <1>0, <1>1, <1>2, <1>5, <2>1, <2>3, KeptByProceed
  <2> QED BY <1>3, <2>2, <2>3
<1> QED
  BY <1>0, <1>1, <1>4, <1>5, <1>6
     DEF BrowserInv, TypeOK, Agreed, RoomKept, ShownIsKnown

(* What does not touch the calls keeps their queues in order.              *)
LEMMA UntouchedQueues ==
  ASSUME CallsOK, QueuesOK, UNCHANGED <<queue, call>>
  PROVE  CallsOK' /\ QueuesOK'
BY DEF CallsOK, QueuesOK

(* The end of a restore.                                                   *)
LEMMA RestoreEndsKeeps ==
  ASSUME BrowserInv, NEW s \in Sessions, RestoreEnds(s)
  PROVE  BrowserInv'
<1>0. TypeOK /\ Agreed /\ Kept /\ CallsOK /\ QueuesOK /\ RoomKept /\ ShownIsKnown
  BY DEF BrowserInv
<1>1. /\ UNCHANGED <<sessions, queue, call, visibleName, viewportActive, abandoned, strayed>>
      /\ Listed' = Listed
  BY DEF RestoreEnds, Listed
<1>2. /\ session' \in [Sessions -> SessionType]
      /\ \A x \in Sessions : session'[x].name = session[x].name
                             /\ session'[x].view = session[x].view
  BY <1>0 DEF RestoreEnds, TypeOK, SessionType
<1>3. Loaded' = Loaded
  BY <1>0, <1>1, <1>2, ListedIn DEF Loaded, Listed, TypeOK
<1>4. TypeOK' /\ CallsOK' /\ QueuesOK' /\ RoomKept'
  <2>1. CallsOK' /\ QueuesOK' /\ RoomKept'
    BY <1>0, <1>1, <1>3, UntouchedQueues DEF RoomKept
  <2>2. TypeOK'
    BY <1>0, <1>1, <1>2 DEF TypeOK
  <2> QED BY <2>1, <2>2
<1>5. Agreed' /\ ShownIsKnown'
  BY <1>0, <1>1, <1>2 DEF TypeOK, Agreed, ShownIsKnown
<1>6. Kept'
  BY <1>0, <1>1, <1>2 DEF Kept, Held
<1> QED BY <1>4, <1>5, <1>6 DEF BrowserInv

(* What destroy leaves of the session objects.                             *)
LEMMA DestroyedView ==
  ASSUME TypeOK, NEW s \in Sessions, session' = [session EXCEPT ![s] = Destroyed(@)]
  PROVE  /\ session' \in [Sessions -> SessionType]
         /\ session'[s].view = "none"
         /\ \A x \in Sessions : /\ session'[x].name = session[x].name
                                /\ x # s => session'[x] = session[x]
<1>1. /\ Destroyed(session[s]) \in SessionType /\ Destroyed(session[s]).view = "none"
      /\ Destroyed(session[s]).name = session[s].name
  BY DEF TypeOK, Destroyed, SessionType
<1> QED BY <1>1 DEF TypeOK

LEMMA PageGoneKeeps ==
  ASSUME BrowserInv, NEW s \in Sessions, PageGone(s)
  PROVE  BrowserInv'
<1>0. TypeOK /\ Agreed /\ Kept /\ CallsOK /\ QueuesOK /\ RoomKept /\ ShownIsKnown
  BY DEF BrowserInv
<1>1. UNCHANGED <<sessions, queue, call, viewportActive>> /\ Listed' = Listed
  BY DEF PageGone, Listed
<1>2. /\ session' \in [Sessions -> SessionType]
      /\ session'[s].view = "none"
      /\ \A x \in Sessions : /\ session'[x].name = session[x].name
                             /\ x # s => session'[x] = session[x]
  BY <1>0, DestroyedView DEF PageGone
<1>3. ShownIsKnown' /\ strayed' \in SUBSET Sessions /\ visibleName' \in Names \cup {None}
  <2>1. \A x \in Sessions : session'[x].view = "main" => x # s /\ session[x].view = "main"
    BY <1>2
  <2> QED BY <1>1, <2>1, HidingKeepsKnown DEF PageGone
<1>4. abandoned' = IF Held(s) THEN abandoned ELSE abandoned \ {s}
  BY DEF PageGone
<1>5. Kept'
  <2> SUFFICES ASSUME NEW x \in Sessions, Held(x)' \/ session'[x].view # "none"
               PROVE  session'[x].name \in Names /\ x \in Listed' \cup abandoned'
    BY DEF Kept
  <2>1. Held(x)' <=> Held(x)
    BY <1>1 DEF Held
  <2>2. Held(x) \/ (x # s /\ session[x].view # "none")
    BY <1>2, <2>1
  <2> QED BY <1>0, <1>1, <1>2, <1>4, <2>2 DEF Kept
<1>6. RoomKept'
  <2>1. Loaded' \subseteq Loaded
    BY <1>0, <1>1, <1>2, ListedIn DEF Loaded, Listed, TypeOK
  <2> QED BY <1>0, <2>1, NoViewMade
<1>7. TypeOK' /\ CallsOK' /\ QueuesOK'
  <2>1. CallsOK' /\ QueuesOK'
    BY <1>0, <1>1, UntouchedQueues
  <2>2. TypeOK'
    BY <1>0, <1>1, <1>2, <1>3, <1>4 DEF TypeOK
  <2> QED BY <2>1, <2>2
<1>8. Agreed'
  BY <1>0, <1>1, <1>2 DEF Agreed, TypeOK
<1> QED BY <1>3, <1>5, <1>6, <1>7, <1>8 DEF BrowserInv

LEMMA CloseKeeps ==
  ASSUME BrowserInv, NEW n \in Names, Close(n)
  PROVE  BrowserInv'
<1>0. TypeOK /\ Agreed /\ Kept /\ CallsOK /\ QueuesOK /\ RoomKept /\ ShownIsKnown
  BY DEF BrowserInv
<1> DEFINE s == sessions[n]
<1>1. s \in Sessions /\ session[s].name = n
  BY <1>0, BoundsAssumption DEF Close, TypeOK, Agreed
<1>2. /\ UNCHANGED <<queue, call, viewportActive>>
      /\ sessions' = [sessions EXCEPT ![n] = None]
      /\ sessions' \in [Names -> Sessions \cup {None}]
      /\ session' = [session EXCEPT ![s] = Destroyed(@)]
      /\ visibleName' = IF session[s].view # "none" THEN ForgetVisible(s) ELSE visibleName
      /\ abandoned' = IF Held(s) THEN abandoned \cup {s} ELSE abandoned
      /\ strayed' = strayed \ {s}
  BY <1>0 DEF Close, TypeOK
<1>3. /\ session' \in [Sessions -> SessionType]
      /\ session'[s].view = "none"
      /\ \A x \in Sessions : /\ session'[x].name = session[x].name
                             /\ x # s => session'[x] = session[x]
  BY <1>0, <1>1, <1>2, DestroyedView
<1>4. Listed' = Listed \ {s}
  <2>1. \A x : x \in Listed <=> x \in Sessions /\ \E m \in Names : sessions[m] = x
    BY <1>0, ListedIn DEF TypeOK, Listed
  <2>2. \A x : x \in Listed' <=> x \in Sessions /\ \E m \in Names : sessions'[m] = x
    BY <1>2, ListedIn DEF Listed
  <2>3. \A m \in Names : sessions[m] = s => m = n
    BY <1>0, <1>1, BoundsAssumption DEF Agreed
  <2>4. \A m \in Names \ {n} : sessions'[m] = sessions[m]
    BY <1>0, <1>2 DEF TypeOK
  <2>5. sessions'[n] = None
    BY <1>0, <1>2 DEF TypeOK
  <2> QED BY <1>1, <2>1, <2>2, <2>3, <2>4, <2>5, BoundsAssumption
<1>5. Kept'
  <2> SUFFICES ASSUME NEW x \in Sessions, Held(x)' \/ session'[x].view # "none"
               PROVE  session'[x].name \in Names /\ x \in Listed' \cup abandoned'
    BY DEF Kept
  <2>1. Held(x)' <=> Held(x)
    BY <1>2 DEF Held
  <2>2. Held(x) \/ (x # s /\ session[x].view # "none")
    BY <1>3, <2>1
  <2> QED BY <1>0, <1>2, <1>3, <1>4, <2>2 DEF Kept
<1>6. RoomKept'
  <2>1. Loaded' \subseteq Loaded
    BY <1>0, <1>3, <1>4, ListedIn DEF Loaded, Listed, TypeOK
  <2> QED BY <1>0, <2>1, NoViewMade
<1>7. TypeOK' /\ CallsOK' /\ QueuesOK'
  <2>1. CallsOK' /\ QueuesOK'
    BY <1>0, <1>2, UntouchedQueues
  <2>2. visibleName' \in Names \cup {None}
    BY <1>0, <1>2, ForgetVisibleType DEF TypeOK
  <2>3. TypeOK'
    BY <1>0, <1>1, <1>2, <1>3, <2>2 DEF TypeOK
  <2> QED BY <2>1, <2>3
<1>8. Agreed'
  BY <1>0, <1>2, <1>3 DEF Agreed, TypeOK
<1>9. ShownIsKnown'
  <2> SUFFICES ASSUME NEW x \in Sessions, x \notin strayed', session'[x].view = "main"
               PROVE  viewportActive /\ visibleName' # None /\ sessions'[visibleName'] = x
    BY <1>2 DEF ShownIsKnown
  <2>1. x # s /\ session[x].view = "main" /\ x \notin strayed
    BY <1>2, <1>3
  <2>2. viewportActive /\ visibleName \in Names /\ sessions[visibleName] = x
    BY <1>0, <2>1 DEF ShownIsKnown, TypeOK
  <2>3. visibleName # n
    BY <2>1, <2>2
  <2>4. visibleName' = visibleName
    BY <1>1, <1>2, <2>3 DEF ForgetVisible
  <2> QED BY <1>0, <1>2, <2>2, <2>3, <2>4, BoundsAssumption DEF TypeOK
<1> QED BY <1>5, <1>6, <1>7, <1>8, <1>9 DEF BrowserInv

LEMMA RenameKeeps ==
  ASSUME BrowserInv, NEW n \in Names, NEW m \in Names, Rename(n, m)
  PROVE  BrowserInv'
<1>0. TypeOK /\ Agreed /\ Kept /\ CallsOK /\ QueuesOK /\ RoomKept /\ ShownIsKnown
  BY DEF BrowserInv
<1> DEFINE s == sessions[n]
<1>1. s \in Sessions /\ sessions[m] = None /\ m # n
  BY <1>0, BoundsAssumption DEF Rename, TypeOK
<1>2. /\ UNCHANGED <<queue, call, visibleName, viewportActive, abandoned>>
      /\ sessions' = [sessions EXCEPT ![n] = None, ![m] = s]
      /\ sessions' \in [Names -> Sessions \cup {None}]
      /\ session' = [session EXCEPT ![s].name = m]
      /\ strayed' = IF session[s].view = "main" THEN strayed \cup {s} ELSE strayed
  BY <1>0, <1>1 DEF Rename, TypeOK
<1>3. /\ session' \in [Sessions -> SessionType]
      /\ session'[s].name = m
      /\ \A x \in Sessions : /\ session'[x].view = session[x].view
                             /\ x # s => session'[x] = session[x]
  <2>1. /\ [session[s] EXCEPT !.name = m] \in SessionType
        /\ [session[s] EXCEPT !.name = m].name = m
        /\ [session[s] EXCEPT !.name = m].view = session[s].view
    BY <1>0, <1>1 DEF TypeOK, SessionType
  <2> QED BY <1>0, <1>1, <1>2, <2>1 DEF TypeOK
<1>4. /\ sessions'[m] = s /\ sessions'[n] = None
      /\ \A k \in Names \ {m, n} : sessions'[k] = sessions[k]
      /\ \A k \in Names : sessions[k] = s => k = n
  BY <1>0, <1>1, <1>2, BoundsAssumption DEF TypeOK, Agreed
<1>5. Listed' = Listed
  <2>1. \A x : x \in Listed <=> x \in Sessions /\ \E k \in Names : sessions[k] = x
    BY <1>0, ListedIn DEF TypeOK, Listed
  <2>2. \A x : x \in Listed' <=> x \in Sessions /\ \E k \in Names : sessions'[k] = x
    BY <1>2, ListedIn DEF Listed
  <2>3. ASSUME NEW x \in Sessions
        PROVE  (\E k \in Names : sessions[k] = x) <=> (\E k \in Names : sessions'[k] = x)
    BY <1>1, <1>4, BoundsAssumption
  <2> QED BY <2>1, <2>2, <2>3
<1>6. Kept'
  <2> SUFFICES ASSUME NEW x \in Sessions, Held(x)' \/ session'[x].view # "none"
               PROVE  session'[x].name \in Names /\ x \in Listed' \cup abandoned'
    BY DEF Kept
  <2>1. Held(x)' <=> Held(x)
    BY <1>2 DEF Held
  <2> QED BY <1>0, <1>2, <1>3, <1>5, <2>1 DEF Kept
<1>7. RoomKept'
  <2>1. Loaded' = Loaded
    BY <1>0, <1>3, <1>5, ListedIn DEF Loaded, Listed, TypeOK
  <2> QED BY <1>0, <2>1 DEF RoomKept
<1>8. TypeOK' /\ CallsOK' /\ QueuesOK'
  <2>1. CallsOK' /\ QueuesOK'
    BY <1>0, <1>2, UntouchedQueues
  <2>2. TypeOK'
    BY <1>0, <1>1, <1>2, <1>3 DEF TypeOK
  <2> QED BY <2>1, <2>2
<1>9. Agreed'
  <2> SUFFICES ASSUME NEW k \in Names, sessions'[k] # None
               PROVE  session'[sessions'[k]].name = k
    BY DEF Agreed
  <2>1. CASE k = m
    BY <1>3, <1>4, <2>1
  <2>2. CASE k # m
    <3>1. k # n /\ sessions'[k] = sessions[k] /\ sessions[k] \in Sessions \ {s}
      BY <1>0, <1>4, <2>2 DEF TypeOK
    <3> QED BY <1>0, <1>3, <3>1 DEF Agreed
  <2> QED BY <2>1, <2>2
<1>10. ShownIsKnown'
  <2> SUFFICES ASSUME NEW x \in Sessions, x \notin strayed', session'[x].view = "main"
               PROVE  viewportActive /\ visibleName # None /\ sessions'[visibleName] = x
    BY <1>2 DEF ShownIsKnown
  <2>1. x # s /\ session[x].view = "main" /\ x \notin strayed
    BY <1>2, <1>3
  <2>2. viewportActive /\ visibleName \in Names /\ sessions[visibleName] = x
    BY <1>0, <2>1 DEF ShownIsKnown, TypeOK
  <2>3. visibleName # n /\ visibleName # m
    BY <1>1, <2>1, <2>2, BoundsAssumption
  <2> QED BY <1>4, <2>2, <2>3, BoundsAssumption
<1> QED BY <1>6, <1>7, <1>8, <1>9, <1>10 DEF BrowserInv

LEMMA ViewportKeeps ==
  ASSUME BrowserInv, ActivateViewport \/ DeactivateViewport
  PROVE  BrowserInv'
<1>0. TypeOK /\ Agreed /\ Kept /\ CallsOK /\ QueuesOK /\ RoomKept /\ ShownIsKnown
  BY DEF BrowserInv
<1>1. UNCHANGED <<sessions, queue, call, abandoned>> /\ Listed' = Listed
  BY DEF ActivateViewport, DeactivateViewport, Listed
<1>2. /\ session' \in [Sessions -> SessionType]
      /\ \A x \in Sessions : /\ session'[x].name = session[x].name
                             /\ session'[x].view = "none" <=> session[x].view = "none"
                             /\ session'[x].view = "main" => session[x].view = "main"
                             /\ DeactivateViewport /\ session'[x].view = "main"
                                  => x # Named(visibleName)
  <2>1. session \in [Sessions -> SessionType] /\ Named(visibleName) \in Sessions \cup {None}
    BY <1>0, NamedIn DEF TypeOK
  <2>2. CASE DeactivateViewport
    BY <2>1, <2>2, HiddenView DEF DeactivateViewport
  <2>3. CASE ActivateViewport
    BY <2>1, <2>3 DEF ActivateViewport, DeactivateViewport
  <2> QED BY <2>2, <2>3
<1>3. Loaded' = Loaded
  BY <1>0, <1>1, <1>2, ListedIn DEF Loaded, Listed, TypeOK
<1>4. TypeOK' /\ CallsOK' /\ QueuesOK' /\ RoomKept'
  <2>1. CallsOK' /\ QueuesOK' /\ RoomKept'
    BY <1>0, <1>1, <1>3, UntouchedQueues DEF RoomKept
  <2>2. /\ visibleName' \in Names \cup {None} /\ viewportActive' \in BOOLEAN
        /\ strayed' \in SUBSET Sessions
    BY <1>0 DEF TypeOK, ActivateViewport, DeactivateViewport
  <2>3. TypeOK'
    BY <1>0, <1>1, <1>2, <2>2 DEF TypeOK
  <2> QED BY <2>1, <2>3
<1>5. Agreed'
  BY <1>0, <1>1, <1>2 DEF TypeOK, Agreed
<1>6. Kept'
  BY <1>0, <1>1, <1>2 DEF Kept, Held
<1>7. ShownIsKnown'
  <2>1. CASE ActivateViewport
    BY <1>0, <2>1 DEF ActivateViewport, ShownIsKnown
  <2>2. ASSUME DeactivateViewport, NEW x \in Sessions, x \notin strayed',
               session'[x].view = "main"
        PROVE  FALSE
    <3>1. x # Named(visibleName) /\ session[x].view = "main"
      BY <1>2, <2>2
    <3>2. x \notin strayed
      BY <2>2, <3>1 DEF DeactivateViewport
    <3> QED BY <1>0, <3>1, <3>2 DEF ShownIsKnown, Named
  <2> QED BY <2>1, <2>2 DEF ShownIsKnown
<1> QED BY <1>4, <1>5, <1>6, <1>7 DEF BrowserInv

LEMMA NextKeeps ==
  ASSUME BrowserInv, [Next]_vars
  PROVE  BrowserInv'
<1>1. CASE UNCHANGED vars
  BY <1>1 DEF vars, BrowserInv, TypeOK, Agreed, Kept, Held, Listed, Loaded, CallsOK,
              QueuesOK, RoomKept, ShownIsKnown
<1>2. ASSUME NEW c \in Calls, NEW n \in Names, AskEnsure(c, n) PROVE BrowserInv'
  BY <1>2, AskKeeps DEF AskEnsure, Ops
<1>3. ASSUME NEW c \in Calls, NEW n \in Names, NEW op \in Ops \ {"ensure"}, Ask(c, op, n)
      PROVE  BrowserInv'
  BY <1>3, AskKeeps, BoundsAssumption DEF Ask, BrowserInv, TypeOK
<1>4. ASSUME NEW c \in Calls, Step(c) PROVE BrowserInv'
  BY <1>4, BeginEnsureKeeps, BeginActKeeps, BeginShowKeeps, BeginHideKeeps, CallStepKeeps
     DEF Step
<1> QED
  BY <1>1, <1>2, <1>3, <1>4, RestoreEndsKeeps, PageGoneKeeps, CloseKeeps, RenameKeeps,
     ViewportKeeps DEF Next

--------------------------------------------------------------------------------
(* The inductive invariant.                                                *)
THEOREM BrowserInvariance == Spec => []BrowserInv
BY InitInv, NextKeeps, PTL DEF Spec

(* Every variable of the session manager stays in its type.                *)
THEOREM BrowserTypeCorrect == Spec => []TypeOK
<1>1. BrowserInv => TypeOK
  BY DEF BrowserInv
<1> QED BY <1>1, BrowserInvariance, PTL

(* For any number of sessions and calls, maxSessions is kept, and a view   *)
(* nobody can find belongs to a session closed under a call.               *)
THEOREM ViewsAreAccounted == Spec => []ViewsAccounted
<1>1. BrowserInv => ViewsAccounted
  BY DEF BrowserInv, RoomKept, Kept, ViewsAccounted
<1> QED BY <1>1, BrowserInvariance, PTL

(* What the main window shows is what hideVisible would hide, however many *)
(* sessions there are and whatever order the calls take.                   *)
THEOREM WhatIsShownIsKnown == Spec => []ShownIsKnown
<1>1. BrowserInv => ShownIsKnown
  BY DEF BrowserInv
<1> QED BY <1>1, BrowserInvariance, PTL

--------------------------------------------------------------------------------
(* Which views a step takes.                                               *)

Lost(x) == session[x].view # "none" /\ session'[x].view = "none"

(* makeRoom takes no view of a session that has a call in its queue.       *)
LEMMA EvictedIsIdle ==
  ASSUME BrowserInv, NEW c \in Calls, call[c].pc # "idle", NEW t \in Evictable
  PROVE  session[t].name # call[c].queue
<1>1. CallsOK
  BY DEF BrowserInv
<1>2. /\ call[c].queue \in Names
      /\ \E i \in 1..Len(queue[call[c].queue]) : queue[call[c].queue][i] = c
  BY <1>1 DEF CallsOK
<1>3. queue[call[c].queue] # <<>>
  BY <1>2
<1> QED BY <1>3 DEF Evictable

(* The operations in the queues take no other view than makeRoom's.        *)
LEMMA StepTakes ==
  ASSUME BrowserInv, NEW c \in Calls, Step(c), NEW x \in Sessions, Lost(x)
  PROVE  x \in Evictable
<1>0. TypeOK /\ CallsOK
  BY DEF BrowserInv
<1>a. session \in [Sessions -> SessionType]
  BY <1>0 DEF TypeOK
<1>1. CASE BeginEnsure(c)
  <2> DEFINE n == call[c].queue
  <2>0. n \in Names
    BY <1>0, <1>1, StartsAtHead DEF BeginEnsure
  <2>1. PICK s \in IF Named(n) # None THEN {Named(n)} ELSE Free :
         LET S == IF s \in Listed THEN session ELSE [session EXCEPT ![s] = Fresh(n)]
         IN /\ sessions' = [sessions EXCEPT ![n] = s]
            /\ \/ /\ NoRoom(s)
                  /\ session' = S
                  /\ UNCHANGED visibleName
                  /\ Answer(c)
               \/ \E a \in Activations(S, s) :
                    /\ session' = IF a.new THEN RestoreStarted(a.session, s) ELSE a.session
                    /\ visibleName' = ForgetVisible(a.unloaded)
                    /\ Proceed(c, s, "working")
    BY <1>1 DEF BeginEnsure
  <2> DEFINE S == IF s \in Listed THEN session ELSE [session EXCEPT ![s] = Fresh(n)]
  <2>2. /\ s \in Sessions
        /\ s \in Listed \/ session[s].view = "none"
    <3>1. Named(n) \in Sessions \cup {None} /\ Named(n) = sessions[n]
      BY <1>0, <2>0, BoundsAssumption DEF Named, TypeOK
    <3>2. CASE Named(n) # None
      BY <1>0, <2>0, <2>1, <3>1, <3>2, ListedIn DEF TypeOK, Listed
    <3>3. CASE Named(n) = None
      BY <2>1, <3>3 DEF Free
    <3> QED BY <3>2, <3>3
  <2>3. /\ S \in [Sessions -> SessionType]
        /\ \A y \in Sessions \ {s} : S[y] = session[y]
        /\ S[s].view = session[s].view
    <3>1. Fresh(n) \in SessionType /\ Fresh(n).view = "none"
      BY <2>0 DEF Fresh, SessionType
    <3> QED BY <1>a, <2>2, <3>1
  <2>4. CASE session' = S
    BY <2>3, <2>4 DEF Lost
  <2>5. ASSUME NEW a \in Activations(S, s),
               session' = IF a.new THEN RestoreStarted(a.session, s) ELSE a.session
        PROVE  x \in Evictable
    <3> HIDE DEF S
    <3>1. /\ a.session \in [Sessions -> SessionType]
          /\ a.unloaded \in Evictable \cup {None}
          /\ a.session[x].view = "none" => session[x].view = "none" \/ x = a.unloaded
      BY <1>0, <2>2, <2>3, Activated
    <3>2. session'[x].view = a.session[x].view
      BY <2>2, <2>5, <3>1 DEF RestoreStarted, SessionType
    <3> QED BY <3>1, <3>2, BoundsAssumption DEF Lost
  <2> QED BY <2>1, <2>4, <2>5
<1>2. CASE BeginAct(c)
  <2> DEFINE s == call[c].session
  <2>1. s \in Sessions
    BY <1>0, <1>2, StartsAtHead DEF BeginAct
  <2>2. ASSUME NEW a \in Activations(session, s),
               session' = IF a.new THEN RestoreStarted(a.session, s) ELSE a.session
        PROVE  x \in Evictable
    <3>1. /\ a.session \in [Sessions -> SessionType]
          /\ a.unloaded \in Evictable \cup {None}
          /\ a.session[x].view = "none" => session[x].view = "none" \/ x = a.unloaded
      BY <1>0, <1>a, <2>1, Activated
    <3>2. session'[x].view = a.session[x].view
      BY <2>1, <2>2, <3>1 DEF RestoreStarted, SessionType
    <3> QED BY <3>1, <3>2, BoundsAssumption DEF Lost
  <2> QED BY <1>2, <2>2 DEF BeginAct, Lost
<1>3. CASE BeginShow(c)
  <2> DEFINE s == call[c].session
  <2>1. s \in Sessions
    BY <1>0, <1>3, StartsAtHead DEF BeginShow
  <2>2. ASSUME NEW a \in Activations(session, s),
               LET S == Hidden(a.session, Named(ForgetVisible(a.unloaded)))
               IN session' = S \/ session' = RestoreStarted([S EXCEPT ![s].view = "main"], s)
        PROVE  x \in Evictable
    <3> DEFINE shown == Named(ForgetVisible(a.unloaded))
               S == Hidden(a.session, shown)
    <3>1. /\ a.session \in [Sessions -> SessionType]
          /\ a.unloaded \in Evictable \cup {None}
          /\ a.session[x].view = "none" => session[x].view = "none" \/ x = a.unloaded
      BY <1>0, <1>a, <2>1, Activated
    <3>2. shown \in Sessions \cup {None}
      BY <1>0, ForgetVisibleType, NamedIn
    <3>3. S \in [Sessions -> SessionType] /\ (S[x].view = "none" <=> a.session[x].view = "none")
      BY <3>1, <3>2, HiddenView
    <3>4. session' = S \/ session' = RestoreStarted([S EXCEPT ![s].view = "main"], s)
      BY <2>2
    <3> HIDE DEF S
    <3>5. session'[x].view = "none" => S[x].view = "none"
      BY <2>1, <3>3, <3>4 DEF RestoreStarted, SessionType
    <3> QED BY <3>1, <3>3, <3>5, BoundsAssumption DEF Lost
  <2> QED BY <1>3, <2>2 DEF BeginShow, Lost
<1>4. CASE BeginHide(c)
  <2>1. call[c].session \in Sessions
    BY <1>0, <1>4, StartsAtHead DEF BeginHide
  <2> QED BY <1>a, <1>4, <2>1, HiddenView DEF BeginHide, Lost
<1>5. CASE BeginTouch(c) \/ GoOn(c) \/ Finish(c)
  BY <1>5 DEF BeginTouch, GoOn, Finish, Lost
<1> QED BY <1>1, <1>2, <1>3, <1>4, <1>5 DEF Step

(* No view is taken from an operation that is using it, but by closing its *)
(* session, with its page, or after the session was renamed.               *)
THEOREM ViewsStayUnderOperations == Spec => ViewStaysUnderOperation
<1> DEFINE Stays ==
      \A c \in Calls :
        LET s == call[c].session
        IN /\ call[c].pc \in {"waiting", "working"}
           /\ session[s].view # "none" /\ session'[s].view = "none"
           => \/ session[s].name # call[c].queue
              \/ s \in Listed /\ s \notin Listed'
              \/ PageGone(s)
<1>1. ASSUME BrowserInv, [Next]_vars PROVE [Stays]_vars
  <2> SUFFICES ASSUME Next, NEW c \in Calls, call[c].pc \in {"waiting", "working"},
                      NEW s, s = call[c].session, Lost(s)
               PROVE  \/ session[s].name # call[c].queue
                      \/ s \in Listed /\ s \notin Listed'
                      \/ PageGone(s)
    BY <1>1 DEF Lost
  <2>0. TypeOK /\ Agreed /\ CallsOK
    BY <1>1 DEF BrowserInv
  <2>1. s \in Sessions /\ call[c].pc # "idle"
    BY <2>0 DEF CallsOK
  <2>2. ASSUME NEW d \in Calls, Step(d) PROVE session[s].name # call[c].queue
    BY <1>1, <2>1, <2>2, StepTakes, EvictedIsIdle
  <2>3. ASSUME NEW d \in Calls, NEW n \in Names, NEW op \in Ops,
               AskEnsure(d, n) \/ Ask(d, op, n)
        PROVE  FALSE
    BY <2>3 DEF AskEnsure, Ask, Enqueue, Lost
  <2>4. ASSUME NEW x \in Sessions, RestoreEnds(x) PROVE FALSE
    BY <2>0, <2>1, <2>4 DEF RestoreEnds, Lost, TypeOK, SessionType
  <2>5. ASSUME NEW x \in Sessions, PageGone(x) PROVE PageGone(s)
    <3>1. x = s
      BY <2>0, <2>1, <2>5 DEF PageGone, Lost, TypeOK
    <3> QED BY <2>5, <3>1
  <2>6. ASSUME NEW n \in Names, Close(n) PROVE s \in Listed /\ s \notin Listed'
    <3>1. sessions[n] \in Sessions /\ sessions[n] = s
      BY <2>0, <2>1, <2>6, BoundsAssumption DEF Close, Lost, TypeOK
    <3>2. sessions' = [sessions EXCEPT ![n] = None]
      BY <2>6 DEF Close
    <3>3. \A m \in Names : sessions[m] = s => m = n
      BY <2>0, <3>1, BoundsAssumption DEF Agreed
    <3>4. sessions' \in [Names -> Sessions \cup {None}]
      BY <2>0, <3>2 DEF TypeOK
    <3>5. \A m \in Names : sessions'[m] # s
      BY <2>0, <3>1, <3>2, <3>3, BoundsAssumption DEF TypeOK
    <3>6. s \in Listed <=> s \in Sessions /\ \E m \in Names : sessions[m] = s
      BY <2>0, ListedIn DEF Listed, TypeOK
    <3>7. s \in Listed' <=> s \in Sessions /\ \E m \in Names : sessions'[m] = s
      BY <3>4, ListedIn DEF Listed
    <3> QED BY <3>1, <3>5, <3>6, <3>7
  <2>7. ASSUME NEW m \in Names, NEW n \in Names, Rename(n, m) PROVE FALSE
    BY <2>0, <2>1, <2>7, BoundsAssumption DEF Rename, Lost, TypeOK, SessionType
  <2>8. CASE ActivateViewport \/ DeactivateViewport
    <3>1. session \in [Sessions -> SessionType] /\ Named(visibleName) \in Sessions \cup {None}
      BY <2>0, NamedIn DEF TypeOK
    <3> QED BY <2>1, <2>8, <3>1, HiddenView DEF ActivateViewport, DeactivateViewport, Lost
  <2> QED BY <2>2, <2>3, <2>4, <2>5, <2>6, <2>7, <2>8 DEF Next, Ops
<1> QED BY <1>1, BrowserInvariance, PTL DEF Spec, ViewStaysUnderOperation

--------------------------------------------------------------------------------
(* The desktop's connection.                                                *)

(* While an attempt is under way there is no connection for it to double.  *)
AttemptAlone == connecting # Unasked => \A s \in Socket : client[s] \notin Live

ConnectionInv == ConnectionTypeOK /\ OneConnection /\ KeepsReconnecting /\ AttemptAlone

--------------------------------------------------------------------------------

LEMMA ConnectionInitInv == ConnectionInit => ConnectionInv
BY DesktopAssumption
   DEF ConnectionInit, ConnectionInv, ConnectionTypeOK, OneConnection, KeepsReconnecting, AttemptAlone, Live

(* stopDeviceConnection leaves no connection of the desktop.               *)
LEMMA StopLeavesNone ==
  ASSUME ConnectionInv, StopConnection
  PROVE  /\ deviceAuthState' = NoUser /\ reconnectTimer' = FALSE
         /\ deviceSocket' = NoSocket
         /\ client' \in [Socket -> {"closed", "connecting", "open", "closing"}]
         /\ \A s \in Socket : client'[s] \notin Live
BY DEF ConnectionInv, ConnectionTypeOK, OneConnection, StopConnection, Live

LEMMA ConnectionNextInv ==
  ASSUME ConnectionInv, [ConnectionNext]_connectionVars
  PROVE  ConnectionInv'
<1> USE DesktopAssumption DEF ConnectionInv, ConnectionTypeOK, OneConnection, KeepsReconnecting, AttemptAlone, Live
<1>1. CASE UNCHANGED connectionVars
  BY <1>1 DEF connectionVars
<1>2. CASE \E u \in User : StoreSession(u)
  BY <1>2 DEF StoreSession
<1>3. CASE SignOut
  BY <1>3, StopLeavesNone DEF SignOut
<1>4. CASE CheckAuth \/ CheckFails
  BY <1>4 DEF CheckAuth, CheckFails
<1>5. CASE SyncConnection
  <2>1. CASE checking = NoUser
    BY <1>5, <2>1, StopLeavesNone DEF SyncConnection
  <2>2. CASE checking # NoUser
    BY <1>5, <2>2 DEF SyncConnection
  <2> QED BY <2>1, <2>2
<1>6. CASE StartConnecting
  BY <1>6 DEF StartConnecting, NoAttempt
<1>7. CASE NoSession
  BY <1>7 DEF NoSession, ScheduleReconnect
<1>8. ASSUME NEW s \in Socket, OpenSocket(s) PROVE ConnectionInv'
  BY <1>8 DEF OpenSocket
<1>9. ASSUME NEW s \in Socket, Opened(s) PROVE ConnectionInv'
  BY <1>9 DEF Opened
<1>10. ASSUME NEW s \in Socket, PeerCloses(s) PROVE ConnectionInv'
  BY <1>10 DEF PeerCloses
<1>11. ASSUME NEW s \in Socket, Closed(s) PROVE ConnectionInv'
  BY <1>11 DEF Closed, ScheduleReconnect
<1> QED
  BY <1>1, <1>2, <1>3, <1>4, <1>5, <1>6, <1>7, <1>8, <1>9, <1>10, <1>11 DEF ConnectionNext

(* The inductive invariant.                                                *)
THEOREM ConnectionInvariance == ConnectionSpec => []ConnectionInv
BY ConnectionInitInv, ConnectionNextInv, PTL DEF ConnectionSpec

(* Every variable of the loop stays in its type.                           *)
THEOREM ConnectionTypeCorrect == ConnectionSpec => []ConnectionTypeOK
<1>1. ConnectionInv => ConnectionTypeOK
  BY DEF ConnectionInv
<1> QED BY <1>1, ConnectionInvariance, PTL

(* The desktop never has two connections with one deviceId.                *)
THEOREM NeverTwoConnections == ConnectionSpec => []OneConnection
<1>1. ConnectionInv => OneConnection
  BY DEF ConnectionInv
<1> QED BY <1>1, ConnectionInvariance, PTL

(* A signed-in desktop always has something that will connect it.          *)
THEOREM NeverGivesUp == ConnectionSpec => []KeepsReconnecting
<1>1. ConnectionInv => KeepsReconnecting
  BY DEF ConnectionInv
<1> QED BY <1>1, ConnectionInvariance, PTL

--------------------------------------------------------------------------------
(* The daemon.                                                              *)

(* Scopes where something went wrong that OneDaemon excepts.               *)
Trouble == robbed \cup excused

(* A daemon that a command has spawned: up, and on its way to its port.    *)
AutoUp(d) == proc[d].auto /\ IsDaemon(d)
OnItsWay(q) ==
  proc[q].auto /\ proc[q].pc \in {"resolve", "check", "clean", "cleanRecord", "target"}

(* A command has read the pointer it is about to check or to clean up.     *)
PtrRead ==
  \A p \in Pids : proc[p].pc \in {"check", "clean", "cleanRecord"} => proc[p].ptr \in Pointers

(* Only a process with the start lock waits for a daemon and releases it.  *)
WaitersStart == \A p \in Pids : proc[p].pc \in {"awaitUp", "release"} => proc[p].starter

(* Only a daemon that has not begun to stop listens on a port, its own.    *)
BoundOK ==
  \A port \in Ports : bound[port] \in Pids =>
    /\ proc[bound[port]].port = port
    /\ proc[bound[port]].pc \in {"writeRecord", "writePointer", "serving"}

(* The start lock has the pid of the process that thinks it holds it.      *)
LockHeld == \A p \in Pids : proc[p].starter /\ Scope(p) \notin robbed => lock[Scope(p)] = p

(* A daemon on its way is waited for by the process that has spawned it.   *)
Awaited ==
  \A q \in Pids : OnItsWay(q) /\ Scope(q) \notin Trouble =>
    \E p \in Pids : proc[p].starter /\ Scope(p) = Scope(q) /\ At(p, "awaitUp")

(* Of the spawned daemons of a scope one is up or on its way.              *)
Alone ==
  \A q, r \in Pids :
    /\ OnItsWay(q) \/ AutoUp(q)
    /\ OnItsWay(r) \/ AutoUp(r)
    /\ Scope(q) = Scope(r)
    => q = r \/ Scope(q) \in Trouble

(* The pointer names the spawned daemon that serves.                       *)
Announced ==
  \A d \in Pids : AutoUp(d) /\ At(d, "serving") /\ Scope(d) \notin Trouble =>
    pointer[Scope(d)] = [pid |-> d, port |-> proc[d].port]

(* A process with the start lock that has looked for a daemon has found    *)
(* the one that is up.                                                     *)
Knows(p, d) ==
  /\ At(p, "check") => proc[p].ptr = [pid |-> d, port |-> proc[d].port]
  /\ ~At(p, "clean") /\ ~At(p, "cleanRecord")
  /\ At(p, "target") => proc[p].port = proc[d].port

Resolved ==
  \A p, d \in Pids :
    /\ proc[p].starter /\ Scope(p) \notin Trouble
    /\ AutoUp(d) /\ Scope(d) = Scope(p)
    => Knows(p, d)

(* A spawned daemon runs, and only ensure uses the start lock.             *)
LockPcs == {"tryLock", "readLock", "checkOwner", "steal", "relock", "awaitUp", "release"}
EnsureLocks ==
  \A p \in Pids : /\ proc[p].auto => proc[p].cmd = "run"
                  /\ proc[p].pc \in LockPcs => proc[p].cmd = "ensure"

DaemonBasics == DaemonTypeOK /\ PtrRead /\ WaitersStart /\ BoundOK /\ EnsureLocks

DaemonInv == DaemonBasics /\ LockHeld /\ Awaited /\ Alone /\ Announced /\ Resolved

--------------------------------------------------------------------------------
(* How a step changes a process.                                           *)

Others(p) == \A q \in Pids \ {p} : proc'[q] = proc[q]

LEMMA DeadProc ==
  Dead \in ProcType /\ Dead.pc = "dead" /\ ~Dead.starter /\ ~Dead.auto
<1>1. (CHOOSE s \in Scopes : TRUE) \in Scopes
  BY ShapeAssumption
<1> QED BY <1>1, ShapeAssumption DEF Dead, New, ProcType, Commands, Steps

LEMMA NewProc ==
  ASSUME NEW cmd \in Commands, NEW s \in Scopes, NEW port \in Ports, NEW auto \in BOOLEAN
  PROVE  /\ New(cmd, s, port, auto) \in ProcType
         /\ New(cmd, s, port, auto).pc = "resolve" /\ ~New(cmd, s, port, auto).starter
         /\ New(cmd, s, port, auto).scope = s /\ New(cmd, s, port, auto).port = port
         /\ New(cmd, s, port, auto).auto = auto /\ New(cmd, s, port, auto).cmd = cmd
BY DEF New, ProcType, Steps

LEMMA GotoProc ==
  ASSUME DaemonTypeOK, NEW p \in Pids, NEW pc \in Steps, Goto(p, pc)
  PROVE  /\ proc' \in [Pids -> ProcType] /\ Others(p)
         /\ proc'[p].pc = pc /\ proc'[p].scope = proc[p].scope
         /\ proc'[p].port = proc[p].port /\ proc'[p].ptr = proc[p].ptr
         /\ proc'[p].starter = proc[p].starter /\ proc'[p].auto = proc[p].auto
         /\ proc'[p].cmd = proc[p].cmd
<1>1. proc[p] \in ProcType
  BY DEF DaemonTypeOK
<1>2. [proc[p] EXCEPT !.pc = pc] \in ProcType
  BY <1>1 DEF ProcType
<1>3. proc' = [proc EXCEPT ![p] = [proc[p] EXCEPT !.pc = pc]]
  BY DEF Goto, DaemonTypeOK
<1>4. proc' \in [Pids -> ProcType] /\ Others(p) /\ proc'[p] = [proc[p] EXCEPT !.pc = pc]
  BY <1>2, <1>3 DEF DaemonTypeOK, Others
<1> QED BY <1>1, <1>4 DEF ProcType

LEMMA ExitProc ==
  ASSUME DaemonTypeOK, NEW p \in Pids, Exit(p)
  PROVE  proc' \in [Pids -> ProcType] /\ Others(p) /\ proc'[p] = Dead
BY DeadProc DEF DaemonTypeOK, Exit, Others

LEMMA TakeLockProc ==
  ASSUME DaemonTypeOK, NEW p \in Pids, TakeLock(p)
  PROVE  /\ proc' \in [Pids -> ProcType] /\ Others(p)
         /\ proc'[p].pc = "resolve" /\ proc'[p].scope = proc[p].scope
         /\ proc'[p].starter /\ proc'[p].auto = proc[p].auto
<1>1. proc[p] \in ProcType
  BY DEF DaemonTypeOK
<1> DEFINE new == [proc[p] EXCEPT !.pc = "resolve", !.starter = TRUE, !.port = Preferred]
<1>2. new \in ProcType
  BY <1>1, ShapeAssumption DEF ProcType, Steps
<1>3. proc' = [proc EXCEPT ![p] = new]
  BY DEF TakeLock, DaemonTypeOK
<1>4. proc' \in [Pids -> ProcType] /\ Others(p) /\ proc'[p] = new
  BY <1>2, <1>3 DEF DaemonTypeOK, Others
<1> QED BY <1>1, <1>4 DEF ProcType

(* What a process that a step changes must obey for the invariant to stay. *)
DaemonPcs == {"writeRecord", "writePointer", "serving"}

Same(p) == /\ proc'[p].scope = proc[p].scope /\ proc'[p].auto = proc[p].auto
           /\ proc'[p].port = proc[p].port

Fits(p) ==
  /\ proc'[p].auto => proc'[p].cmd = "run"
  /\ proc'[p].pc \in LockPcs => proc'[p].cmd = "ensure"
  /\ proc'[p].pc \in {"check", "clean", "cleanRecord"} => proc'[p].ptr \in Pointers
  /\ proc'[p].pc \in {"awaitUp", "release"} => proc'[p].starter
  /\ IsDaemon(p)' => Same(p) /\ proc'[p].pc \in DaemonPcs
  /\ AutoUp(p)' /\ proc'[p].pc = "serving" /\ Scope(p) \notin Trouble' =>
       pointer'[Scope(p)] = [pid |-> p, port |-> proc[p].port]
  /\ OnItsWay(p)' => OnItsWay(p) /\ proc'[p].scope = proc[p].scope
  /\ proc[p].starter /\ At(p, "awaitUp") /\ Coming(Scope(p)) =>
       \/ proc'[p].starter /\ proc'[p].pc = "awaitUp" /\ proc'[p].scope = proc[p].scope
       \/ Scope(p) \in Trouble'
  /\ \A d \in Pids :
       /\ proc'[p].starter /\ proc'[p].scope \notin Trouble'
       /\ AutoUp(d) /\ Scope(d) = proc'[p].scope
       => /\ proc'[p].pc = "check" => proc'[p].ptr = [pid |-> d, port |-> proc[d].port]
          /\ proc'[p].pc # "clean" /\ proc'[p].pc # "cleanRecord"
          /\ proc'[p].pc = "target" => proc'[p].port = proc[d].port

(* A step in which no daemon starts to listen.                             *)
LEMMA QuietStep ==
  ASSUME DaemonInv, DaemonTypeOK', LockHeld',
         robbed \subseteq robbed', excused \subseteq excused',
         \A port \in Ports : bound'[port] \in Pids => bound'[port] = bound[port],
         \A d \in Pids : AutoUp(d) /\ At(d, "serving") /\ Scope(d) \notin Trouble'
                           /\ proc'[d] = proc[d]
                           => pointer'[Scope(d)] = pointer[Scope(d)],
         \A p \in Pids : proc'[p] = proc[p] \/ Fits(p)
  PROVE  DaemonInv'
<1>0. /\ DaemonTypeOK /\ PtrRead /\ WaitersStart /\ BoundOK /\ EnsureLocks
      /\ Awaited /\ Alone /\ Announced /\ Resolved
  BY DEF DaemonInv, DaemonBasics
<1>1. Trouble \subseteq Trouble'
  BY DEF Trouble
<1>2. \A p \in Pids : IsDaemon(p)' => IsDaemon(p)
  BY DEF IsDaemon
<1>3. \A p \in Pids : IsDaemon(p)' => Same(p) /\ proc'[p].pc \in DaemonPcs
  <2> SUFFICES ASSUME NEW p \in Pids, IsDaemon(p)'
               PROVE  Same(p) /\ proc'[p].pc \in DaemonPcs
    OBVIOUS
  <2>1. CASE Fits(p)
    BY <2>1 DEF Fits
  <2>2. CASE proc'[p] = proc[p]
    BY <1>0, <1>2, <2>2 DEF BoundOK, IsDaemon, Same, DaemonPcs
  <2> QED BY <2>1, <2>2
<1>4. \A p \in Pids : AutoUp(p)' => AutoUp(p) /\ Scope(p)' = Scope(p)
                                    /\ proc'[p].port = proc[p].port
  BY <1>2, <1>3 DEF AutoUp, Same, Scope
<1>5. \A p \in Pids : OnItsWay(p)' => OnItsWay(p) /\ Scope(p)' = Scope(p)
  BY DEF Fits, OnItsWay, Scope
<1>6. PtrRead'
  BY <1>0 DEF PtrRead, Fits
<1>7. WaitersStart'
  BY <1>0 DEF WaitersStart, Fits
<1>13. EnsureLocks'
  BY <1>0 DEF EnsureLocks, Fits
<1>8. BoundOK'
  <2> SUFFICES ASSUME NEW port \in Ports, NEW q \in Pids, bound'[port] = q
               PROVE  /\ proc'[q].port = port
                      /\ proc'[q].pc \in {"writeRecord", "writePointer", "serving"}
    BY DEF BoundOK
  <2>1. bound[port] = q
    OBVIOUS
  <2>2. proc[q].port = port
    BY <1>0, <2>1 DEF BoundOK
  <2>3. IsDaemon(q)'
    BY DEF IsDaemon
  <2> QED BY <1>3, <2>2, <2>3 DEF Same, DaemonPcs
<1>9. Awaited'
  <2> SUFFICES ASSUME NEW q \in Pids, OnItsWay(q)', Scope(q)' \notin Trouble'
               PROVE  \E p \in Pids : /\ proc'[p].starter /\ Scope(p)' = Scope(q)'
                                      /\ proc'[p].pc = "awaitUp"
    BY DEF Awaited, At
  <2>1. OnItsWay(q) /\ Scope(q)' = Scope(q) /\ Scope(q) \notin Trouble
    BY <1>1, <1>5
  <2>2. PICK p \in Pids : proc[p].starter /\ Scope(p) = Scope(q) /\ At(p, "awaitUp")
    BY <1>0, <2>1 DEF Awaited
  <2>3. Coming(Scope(p))
    BY <2>1, <2>2 DEF Coming, OnItsWay
  <2>4. proc'[p].starter /\ proc'[p].pc = "awaitUp" /\ proc'[p].scope = proc[p].scope
    <3>1. Scope(p) \notin Trouble'
      BY <2>1, <2>2
    <3>2. CASE Fits(p)
      BY <2>2, <2>3, <3>1, <3>2 DEF Fits
    <3>3. CASE proc'[p] = proc[p]
      BY <2>2, <3>3 DEF At
    <3> QED BY <3>2, <3>3
  <2> QED BY <2>1, <2>2, <2>4 DEF Scope
<1>10. Alone'
  BY <1>0, <1>1, <1>4, <1>5 DEF Alone
<1>11. Announced'
  <2> SUFFICES ASSUME NEW d \in Pids, AutoUp(d)', proc'[d].pc = "serving",
                      Scope(d)' \notin Trouble'
               PROVE  pointer'[Scope(d)'] = [pid |-> d, port |-> proc'[d].port]
    BY DEF Announced, At
  <2>1. AutoUp(d) /\ Scope(d)' = Scope(d) /\ proc'[d].port = proc[d].port
    BY <1>4
  <2>2. CASE Fits(d)
    BY <2>1, <2>2 DEF Fits
  <2>3. CASE proc'[d] = proc[d]
    BY <1>0, <1>1, <2>1, <2>3 DEF Announced, At
  <2> QED BY <2>2, <2>3
<1>12. Resolved'
  <2> SUFFICES ASSUME NEW p \in Pids, NEW d \in Pids, proc'[p].starter,
                      Scope(p)' \notin Trouble', AutoUp(d)', Scope(d)' = Scope(p)'
               PROVE  Knows(p, d)'
    BY DEF Resolved
  <2>1. AutoUp(d) /\ Scope(d)' = Scope(d) /\ proc'[d].port = proc[d].port
    BY <1>4
  <2>2. CASE Fits(p)
    BY <2>1, <2>2 DEF Fits, Knows, At, Scope
  <2>3. CASE proc'[p] = proc[p]
    <3>1. Scope(p)' = Scope(p) /\ proc[p].starter /\ Scope(p) \notin Trouble
      BY <1>1, <2>3 DEF Scope
    <3>2. Knows(p, d)
      BY <1>0, <2>1, <3>1 DEF Resolved
    <3> QED BY <2>1, <2>3, <3>2 DEF Knows, At
  <2> QED BY <2>2, <2>3
<1> QED
  BY <1>6, <1>7, <1>8, <1>9, <1>10, <1>11, <1>12, <1>13 DEF DaemonInv, DaemonBasics


LEMMA NoDaemon ==
  ASSUME DaemonBasics, NEW p \in Pids, proc[p].pc \notin DaemonPcs
  PROVE  \A port \in Ports : bound[port] # p
BY DEF DaemonBasics, BoundOK, DaemonPcs

(* A process ends.                                                         *)
LEMMA ExitFits ==
  ASSUME NEW p \in Pids, proc'[p] = Dead, \A port \in Ports : bound'[port] # p,
         At(p, "awaitUp") /\ Coming(Scope(p)) => Scope(p) \in Trouble'
  PROVE  Fits(p)
BY DeadProc DEF Fits, AutoUp, IsDaemon, OnItsWay, LockPcs

(* A process goes on to a step where nothing is asked of it.               *)
LEMMA GoesOnFits ==
  ASSUME DaemonBasics, NEW p \in Pids,
         proc'[p].pc \in Steps \ {"resolve", "check", "clean", "cleanRecord", "target", "awaitUp"},
         proc'[p].pc \in LockPcs => proc'[p].cmd = "ensure",
         proc'[p].pc = "release" => proc'[p].starter,
         proc'[p].auto = proc[p].auto, proc'[p].cmd = proc[p].cmd,
         \A port \in Ports : bound'[port] # p,
         At(p, "awaitUp") /\ Coming(Scope(p)) => Scope(p) \in Trouble'
  PROVE  Fits(p)
BY DEF Fits, AutoUp, IsDaemon, OnItsWay, DaemonBasics, EnsureLocks, Steps

(* A process takes the start lock.                                         *)
LEMMA TakesLockFits ==
  ASSUME DaemonBasics, NEW p \in Pids, proc[p].pc \in LockPcs \ {"awaitUp", "release"},
         TakeLock(p), bound' = bound
  PROVE  Fits(p)
<1>1. proc[p].cmd = "ensure" /\ ~proc[p].auto /\ \A port \in Ports : bound[port] # p
  BY NoDaemon DEF DaemonBasics, EnsureLocks, LockPcs, DaemonPcs
<1>2. proc'[p].pc = "resolve" /\ ~proc'[p].auto
  BY <1>1, TakeLockProc DEF DaemonBasics
<1> QED BY <1>1, <1>2 DEF Fits, AutoUp, IsDaemon, OnItsWay, LockPcs, At

(* The start lock stays with its holder, or has one if it had none.        *)
LEMMA LockStays ==
  ASSUME LockHeld, lock' = lock, robbed' = robbed,
         \A q \in Pids : proc'[q].starter => proc[q].starter /\ proc'[q].scope = proc[q].scope
  PROVE  LockHeld'
BY DEF LockHeld, Scope

LEMMA LockTaken ==
  ASSUME DaemonTypeOK, LockHeld, NEW p \in Pids, TakeLock(p), lock[Scope(p)] = Absent,
         robbed' = robbed
  PROVE  LockHeld'
<1>1. /\ Others(p) /\ proc'[p].scope = proc[p].scope /\ Scope(p) \in Scopes
      /\ lock' = [lock EXCEPT ![Scope(p)] = p]
  BY TakeLockProc DEF TakeLock, DaemonTypeOK, Scope, ProcType
<1> SUFFICES ASSUME NEW q \in Pids, proc'[q].starter, Scope(q)' \notin robbed
             PROVE  lock'[Scope(q)'] = q
  BY DEF LockHeld
<1>2. CASE q = p
  BY <1>1, <1>2 DEF Scope, DaemonTypeOK
<1>3. CASE q # p
  <2>1. proc'[q] = proc[q] /\ lock[Scope(q)] = q
    BY <1>1, <1>3 DEF Others, Scope, LockHeld
  <2>2. Scope(q) # Scope(p)
    BY <2>1, ShapeAssumption
  <2> QED BY <1>1, <2>1, <2>2 DEF Scope, DaemonTypeOK
<1> QED BY <1>2, <1>3

(* The pointer of a daemon that serves is replaced by another process: that *)
(* is excused.                                                             *)
LEMMA PointerLost ==
  ASSUME DaemonInv, NEW p \in Pids, NEW d \in Pids, d # p, AutoUp(d), At(d, "serving"),
         Scope(d) = Scope(p), Scope(d) \notin Trouble
  PROVE  PointsToAnother(Scope(p), p)
<1>1. pointer[Scope(d)] = [pid |-> d, port |-> proc[d].port]
  BY DEF DaemonInv, Announced
<1>2. bound[proc[d].port] = d
  BY DEF DaemonInv, DaemonBasics, BoundOK, AutoUp, IsDaemon
<1>3. [pid |-> d, port |-> proc[d].port] # Absent
  <2>1. proc[d].port \in Ports
    BY DEF DaemonInv, DaemonBasics, DaemonTypeOK, ProcType
  <2> QED BY <2>1, ShapeAssumption
<1> QED BY <1>1, <1>2, <1>3 DEF PointsToAnother

--------------------------------------------------------------------------------
(* The steps.                                                              *)

(* A process takes a step on its own, and no port changes.                 *)
LEMMA OwnStep ==
  ASSUME DaemonInv, DaemonTypeOK', LockHeld', NEW p \in Pids, Others(p), Fits(p),
         robbed \subseteq robbed', excused \subseteq excused', bound' = bound,
         \A d \in Pids \ {p} : AutoUp(d) /\ At(d, "serving") /\ Scope(d) \notin Trouble'
                           => pointer'[Scope(d)] = pointer[Scope(d)],
         AutoUp(p) /\ At(p, "serving") => pointer' = pointer
  PROVE  DaemonInv'
<1>1. \A q \in Pids : proc'[q] = proc[q] \/ Fits(q)
  BY DEF Others
<1> HIDE DEF Fits, Others, DaemonInv, LockHeld, DaemonTypeOK, AutoUp, At, Trouble
<1> QED BY <1>1, QuietStep

LEMMA StartKeeps ==
  ASSUME DaemonInv, NEW p \in Pids, NEW cmd \in Commands, NEW s \in Scopes, NEW port \in Ports,
         Start(p, cmd, s, port)
  PROVE  DaemonInv'
<1>1. DaemonTypeOK /\ DaemonBasics /\ LockHeld
  BY DEF DaemonInv, DaemonBasics
<1>2. /\ pointer' = pointer /\ lock' = lock /\ record' = record /\ bound' = bound
      /\ robbed' = robbed /\ excused' = excused /\ commands' \in 0..MaxCommands
  BY <1>1, ShapeAssumption DEF Start, Files, DaemonTypeOK
<1>3. /\ proc' \in [Pids -> ProcType] /\ Others(p)
      /\ proc'[p].pc = "resolve" /\ ~proc'[p].starter /\ ~proc'[p].auto
  <2>1. New(cmd, s, port, FALSE) \in ProcType
    BY NewProc
  <2>2. proc' \in [Pids -> ProcType] /\ Others(p) /\ proc'[p] = New(cmd, s, port, FALSE)
    BY <1>1, <2>1 DEF Start, DaemonTypeOK, Others
  <2> QED BY <2>2 DEF New
<1>4. proc[p].pc = "dead" /\ \A q \in Ports : bound[q] # p
  BY <1>1, NoDaemon DEF Start, Alive, DaemonPcs
<1>5. DaemonTypeOK'
  BY <1>1, <1>2, <1>3 DEF DaemonTypeOK
<1>6. Fits(p)
  BY <1>2, <1>3, <1>4 DEF Fits, AutoUp, IsDaemon, OnItsWay, LockPcs, At
<1>7. LockHeld'
  <2>1. \A q \in Pids : proc'[q].starter => proc[q].starter /\ proc'[q].scope = proc[q].scope
    BY <1>3 DEF Others
  <2> QED BY <1>1, <1>2, <2>1, LockStays
<1> QED BY <1>2, <1>3, <1>5, <1>6, <1>7, OwnStep

(* A step that reads files only, or none.                                  *)
LEMMA ReadingStep ==
  ASSUME DaemonInv, NEW p \in Pids, UNCHANGED <<Files, bound, commands, robbed>>,
         excused' \in {excused, excused \cup {Scope(p)}},
         proc' \in [Pids -> ProcType], Others(p), Fits(p),
         proc'[p].starter => proc[p].starter /\ proc'[p].scope = proc[p].scope
  PROVE  DaemonInv'
<1>1. DaemonTypeOK /\ DaemonBasics /\ LockHeld
  BY DEF DaemonInv, DaemonBasics
<1>2. /\ pointer' = pointer /\ lock' = lock /\ record' = record /\ bound' = bound
      /\ robbed' = robbed /\ excused \subseteq excused' /\ commands' = commands
  BY DEF Files
<1>3. Scope(p) \in Scopes
  BY <1>1 DEF DaemonTypeOK, ProcType, Scope
<1>4. DaemonTypeOK'
  BY <1>1, <1>2, <1>3 DEF DaemonTypeOK
<1>5. LockHeld'
  <2>1. \A q \in Pids : proc'[q].starter => proc[q].starter /\ proc'[q].scope = proc[q].scope
    BY DEF Others
  <2> QED BY <1>1, <1>2, <2>1, LockStays
<1> QED BY <1>2, <1>4, <1>5, OwnStep

(* ... and ends the process.                                               *)
LEMMA ExitStep ==
  ASSUME DaemonInv, NEW p \in Pids, UNCHANGED <<Files, bound, commands, robbed>>,
         excused' \in {excused, excused \cup {Scope(p)}},
         Exit(p), proc[p].pc \notin DaemonPcs,
         At(p, "awaitUp") /\ Coming(Scope(p)) => Scope(p) \in excused'
  PROVE  DaemonInv'
<1>1. DaemonTypeOK /\ DaemonBasics /\ bound' = bound
  BY DEF DaemonInv, DaemonBasics
<1>2. proc' \in [Pids -> ProcType] /\ Others(p) /\ proc'[p] = Dead /\ ~proc'[p].starter
  BY <1>1, ExitProc, DeadProc
<1>3. Fits(p)
  <2>1. \A port \in Ports : bound'[port] # p
    BY <1>1, NoDaemon
  <2> QED BY <1>2, <2>1, ExitFits DEF Trouble
<1> QED BY <1>2, <1>3, ReadingStep

(* ... and takes it to a step where nothing is asked of it.                *)
LEMMA GotoStep ==
  ASSUME DaemonInv, NEW p \in Pids, UNCHANGED <<Files, bound, commands, robbed>>,
         excused' \in {excused, excused \cup {Scope(p)}},
         NEW pc \in Steps \ {"resolve", "check", "clean", "cleanRecord", "target", "awaitUp"},
         Goto(p, pc), proc[p].pc \notin DaemonPcs,
         pc \in LockPcs => proc[p].cmd = "ensure", pc = "release" => proc[p].starter,
         At(p, "awaitUp") /\ Coming(Scope(p)) => Scope(p) \in excused'
  PROVE  DaemonInv'
<1>1. DaemonTypeOK /\ DaemonBasics /\ bound' = bound
  BY DEF DaemonInv, DaemonBasics
<1>2. /\ proc' \in [Pids -> ProcType] /\ Others(p) /\ proc'[p].pc = pc
      /\ proc'[p].scope = proc[p].scope /\ proc'[p].starter = proc[p].starter
      /\ proc'[p].auto = proc[p].auto /\ proc'[p].cmd = proc[p].cmd
  BY <1>1, GotoProc
<1>3. Fits(p)
  <2>1. \A port \in Ports : bound'[port] # p
    BY <1>1, NoDaemon
  <2> QED BY <1>1, <1>2, <2>1, GoesOnFits DEF Trouble
<1> QED BY <1>2, <1>3, ReadingStep

LEMMA ProbeKeeps ==
  ASSUME DaemonInv, NEW p \in Pids, Probe(p)
  PROVE  DaemonInv'
<1>1. /\ UNCHANGED <<Files, bound, commands, robbed>> /\ excused' = excused
      /\ proc[p].cmd = "ensure" /\ proc[p].pc = "target"
  BY DEF Probe, History, At
<1>2. CASE Exit(p)
  BY <1>1, <1>2, ExitStep DEF At, DaemonPcs
<1>3. CASE Goto(p, "tryLock")
  BY <1>1, <1>3, GotoStep DEF At, DaemonPcs, Steps
<1> QED BY <1>2, <1>3 DEF Probe

LEMMA FoundKeeps ==
  ASSUME DaemonInv, NEW p \in Pids, Found(p)
  PROVE  DaemonInv'
<1>1. /\ UNCHANGED <<Files, bound, commands, robbed>> /\ excused' = excused
      /\ proc[p].cmd = "ensure" /\ proc[p].pc = "target" /\ proc[p].starter
      /\ Goto(p, "release")
  BY DEF Found, History, At
<1> QED BY <1>1, GotoStep DEF At, DaemonPcs, Steps

LEMMA UpKeeps ==
  ASSUME DaemonInv, NEW p \in Pids, Up(p)
  PROVE  DaemonInv'
<1>1. /\ UNCHANGED <<Files, bound, commands, robbed>> /\ proc[p].pc = "awaitUp"
      /\ Goto(p, "release")
  BY DEF Up, At
<1>2. proc[p].cmd = "ensure" /\ proc[p].starter
  BY <1>1 DEF DaemonInv, DaemonBasics, WaitersStart, EnsureLocks, LockPcs
<1>3. /\ excused' \in {excused, excused \cup {Scope(p)}}
      /\ Coming(Scope(p)) => Scope(p) \in excused'
  BY DEF Up
<1> QED BY <1>1, <1>2, <1>3, GotoStep DEF DaemonPcs, Steps

LEMMA ReadLockKeeps ==
  ASSUME DaemonInv, NEW p \in Pids, ReadLock(p)
  PROVE  DaemonInv'
<1>1. /\ UNCHANGED <<Files, bound, commands, robbed>> /\ excused' = excused
      /\ proc[p].pc = "readLock"
  BY DEF ReadLock, History, At
<1>2. CASE Exit(p)
  BY <1>1, <1>2, ExitStep DEF At, DaemonPcs
<1>3. CASE /\ proc' = [proc EXCEPT ![p].pc = "checkOwner", ![p].owner = lock[Scope(p)]]
           /\ lock[Scope(p)] # Absent
  <2>1. DaemonBasics /\ DaemonTypeOK /\ proc[p] \in ProcType /\ proc[p].cmd = "ensure"
    BY <1>1 DEF DaemonInv, DaemonBasics, DaemonTypeOK, EnsureLocks, LockPcs
  <2> DEFINE new == [proc[p] EXCEPT !.pc = "checkOwner", !.owner = lock[Scope(p)]]
  <2>2. new \in ProcType
    BY <2>1 DEF DaemonTypeOK, ProcType, Steps, Scope
  <2>3. proc' \in [Pids -> ProcType] /\ Others(p) /\ proc'[p] = new
    BY <1>3, <2>1, <2>2 DEF DaemonTypeOK, Others
  <2>4. /\ proc'[p].pc = "checkOwner" /\ proc'[p].starter = proc[p].starter
        /\ proc'[p].scope = proc[p].scope /\ proc'[p].auto = proc[p].auto
        /\ proc'[p].cmd = proc[p].cmd
    BY <2>1, <2>3 DEF ProcType
  <2>5. \A port \in Ports : bound'[port] # p
    BY <1>1, <2>1, NoDaemon DEF DaemonPcs
  <2>6. Fits(p)
    BY <1>1, <2>1, <2>4, <2>5, GoesOnFits DEF Steps, At
  <2> QED BY <1>1, <2>3, <2>4, <2>6, ReadingStep
<1> QED BY <1>2, <1>3 DEF ReadLock

LEMMA CheckOwnerKeeps ==
  ASSUME DaemonInv, NEW p \in Pids, CheckOwner(p)
  PROVE  DaemonInv'
<1>1. /\ UNCHANGED <<Files, bound, commands, robbed>> /\ excused' = excused
      /\ proc[p].pc = "checkOwner"
  BY DEF CheckOwner, History, At
<1>2. CASE Exit(p)
  BY <1>1, <1>2, ExitStep DEF At, DaemonPcs
<1>3. CASE proc' = [proc EXCEPT ![p].pc = "steal", ![p].owner = Absent]
  <2>1. DaemonBasics /\ DaemonTypeOK /\ proc[p] \in ProcType /\ proc[p].cmd = "ensure"
    BY <1>1 DEF DaemonInv, DaemonBasics, DaemonTypeOK, EnsureLocks, LockPcs
  <2> DEFINE new == [proc[p] EXCEPT !.pc = "steal", !.owner = Absent]
  <2>2. new \in ProcType
    BY <2>1 DEF ProcType, Steps
  <2>3. proc' \in [Pids -> ProcType] /\ Others(p) /\ proc'[p] = new
    BY <1>3, <2>1, <2>2 DEF DaemonTypeOK, Others
  <2>4. /\ proc'[p].pc = "steal" /\ proc'[p].starter = proc[p].starter
        /\ proc'[p].scope = proc[p].scope /\ proc'[p].auto = proc[p].auto
        /\ proc'[p].cmd = proc[p].cmd
    BY <2>1, <2>3 DEF ProcType
  <2>5. \A port \in Ports : bound'[port] # p
    BY <1>1, <2>1, NoDaemon DEF DaemonPcs
  <2>6. Fits(p)
    BY <1>1, <2>1, <2>4, <2>5, GoesOnFits DEF Steps, At
  <2> QED BY <1>1, <2>3, <2>4, <2>6, ReadingStep
<1> QED BY <1>2, <1>3 DEF CheckOwner

LEMMA NothingToDoKeeps ==
  ASSUME DaemonInv, NEW p \in Pids, NothingToDo(p)
  PROVE  DaemonInv'
<1>1. /\ UNCHANGED <<Files, bound, commands, robbed>> /\ excused' = excused
      /\ proc[p].pc = "target" /\ Exit(p)
  BY DEF NothingToDo, History, At, Asks
<1> QED BY <1>1, ExitStep DEF At, DaemonPcs

LEMMA StaleRecordKeeps ==
  ASSUME DaemonInv, NEW p \in Pids, StaleRecord(p)
  PROVE  DaemonInv'
<1>1. /\ UNCHANGED <<Files, bound, commands, robbed>> /\ excused' = excused
      /\ proc[p].pc = "target" /\ Goto(p, "dropRecord")
  BY DEF StaleRecord, History, At, Asks
<1> QED BY <1>1, GotoStep DEF At, DaemonPcs, Steps, LockPcs

LEMMA DownKeeps ==
  ASSUME DaemonInv, NEW p \in Pids, Down(p)
  PROVE  DaemonInv'
<1>1. /\ UNCHANGED <<Files, bound, commands, robbed>> /\ excused' = excused
      /\ proc[p].pc = "awaitDown" /\ Goto(p, "dropRecord")
  BY DEF Down, History, At
<1> QED BY <1>1, GotoStep DEF At, DaemonPcs, Steps, LockPcs

LEMMA TimeOutKeeps ==
  ASSUME DaemonInv, NEW p \in Pids, TimeOut(p)
  PROVE  DaemonInv'
<1>1. /\ UNCHANGED <<Files, bound, commands, robbed>>
      /\ proc[p].pc \in {"awaitUp", "awaitDown"} /\ Exit(p)
  BY DEF TimeOut, At
<1>2. /\ excused' \in {excused, excused \cup {Scope(p)}}
      /\ At(p, "awaitUp") /\ Coming(Scope(p)) => Scope(p) \in excused'
  BY DEF TimeOut
<1> QED BY <1>1, <1>2, ExitStep DEF DaemonPcs

(* A process that looks for the daemon finds the pointer of the one that   *)
(* is up, if one is and has announced itself.                              *)
LEMMA FindsPointer ==
  ASSUME DaemonInv, NEW d \in Pids, AutoUp(d), Scope(d) \notin Trouble, ~Unannounced(Scope(d))
  PROVE  pointer[Scope(d)] = [pid |-> d, port |-> proc[d].port] /\ Alive(d)
<1>1. proc[d].pc \in {"writeRecord", "writePointer", "serving"}
  BY DEF DaemonInv, DaemonBasics, BoundOK, AutoUp, IsDaemon
<1>2. At(d, "serving")
  BY <1>1 DEF Unannounced, At, AutoUp
<1> QED BY <1>1, <1>2 DEF DaemonInv, Announced, Alive

LEMMA ReadPointerKeeps ==
  ASSUME DaemonInv, NEW p \in Pids, ReadPointer(p)
  PROVE  DaemonInv'
<1> DEFINE ptr == pointer[Scope(p)]
           pc == IF ptr = Absent THEN "target" ELSE IF Alive(ptr.pid) THEN "check" ELSE "clean"
           new == [proc[p] EXCEPT !.ptr = ptr, !.pc = pc]
<1>1. /\ DaemonBasics /\ DaemonTypeOK /\ proc[p] \in ProcType /\ proc[p].pc = "resolve"
      /\ ptr \in Pointers \cup {Absent}
  BY DEF DaemonInv, DaemonBasics, DaemonTypeOK, ReadPointer, At, Scope, ProcType
<1>2. /\ UNCHANGED <<Files, bound, commands, robbed>>
      /\ excused' = IF Unannounced(Scope(p)) THEN excused \cup {Scope(p)} ELSE excused
      /\ proc' = [proc EXCEPT ![p] = new]
  BY <1>1 DEF ReadPointer, DaemonTypeOK
<1>3. pc \in {"target", "check", "clean"} /\ (pc # "target" => ptr \in Pointers)
  BY <1>1
<1> HIDE DEF ptr, pc
<1>4. new \in ProcType
  BY <1>1, <1>3 DEF ProcType, Steps
<1>5. /\ proc' \in [Pids -> ProcType] /\ Others(p) /\ proc'[p] = new
      /\ proc'[p].pc = pc /\ proc'[p].ptr = ptr /\ proc'[p].starter = proc[p].starter
      /\ proc'[p].scope = proc[p].scope /\ proc'[p].auto = proc[p].auto
      /\ proc'[p].cmd = proc[p].cmd /\ proc'[p].port = proc[p].port
  BY <1>1, <1>2, <1>4 DEF DaemonTypeOK, ProcType, Others
<1>6. Fits(p)
  <2>1. \A port \in Ports : bound'[port] # p
    BY <1>1, <1>2, NoDaemon DEF DaemonPcs
  <2>2. ASSUME NEW d \in Pids, proc'[p].starter, proc'[p].scope \notin Trouble',
               AutoUp(d), Scope(d) = proc'[p].scope
        PROVE  pc = "check" /\ ptr = [pid |-> d, port |-> proc[d].port]
    <3>1. Scope(d) = Scope(p) /\ Scope(d) \notin Trouble /\ ~Unannounced(Scope(d))
      BY <1>2, <1>5, <2>2 DEF Trouble, Scope
    <3>2. ptr = [pid |-> d, port |-> proc[d].port] /\ Alive(d)
      BY <2>2, <3>1, FindsPointer DEF ptr
    <3>3. proc[d].port \in Ports
      BY <1>1 DEF DaemonTypeOK, ProcType
    <3>4. ptr \in Pointers /\ ptr.pid = d
      BY <3>2, <3>3 DEF Pointers
    <3>5. ptr # Absent
      BY <3>4, ShapeAssumption DEF Pointers
    <3> QED BY <3>2, <3>4, <3>5 DEF pc
  <2>3. proc[p].auto => OnItsWay(p) /\ proc[p].cmd = "run"
    BY <1>1 DEF OnItsWay, DaemonBasics, EnsureLocks
  <2> QED BY <1>1, <1>3, <1>5, <2>1, <2>2, <2>3 DEF Fits, AutoUp, IsDaemon, LockPcs, At, OnItsWay
<1>7. excused' \in {excused, excused \cup {Scope(p)}}
  BY <1>2
<1> QED BY <1>2, <1>5, <1>6, <1>7, ReadingStep

LEMMA CheckPointerKeeps ==
  ASSUME DaemonInv, NEW p \in Pids, CheckPointer(p)
  PROVE  DaemonInv'
<1>1. /\ DaemonBasics /\ DaemonTypeOK /\ proc[p] \in ProcType /\ proc[p].pc = "check"
      /\ proc[p].ptr \in Pointers
  BY DEF DaemonInv, DaemonBasics, DaemonTypeOK, CheckPointer, At, PtrRead
<1>2. UNCHANGED <<Files, bound, commands, robbed>> /\ excused' = excused
  BY DEF CheckPointer, History
<1>3. \A port \in Ports : bound'[port] # p
  BY <1>1, <1>2, NoDaemon DEF DaemonPcs
<1>4. proc[p].auto => OnItsWay(p) /\ proc[p].cmd = "run"
  BY <1>1 DEF OnItsWay, DaemonBasics, EnsureLocks
<1>5. ASSUME NEW d \in Pids, proc[p].starter, Scope(p) \notin Trouble,
             AutoUp(d), Scope(d) = Scope(p)
      PROVE  proc[p].ptr.port = proc[d].port /\ Reachable(proc[p].ptr.port)
  <2>1. proc[p].ptr = [pid |-> d, port |-> proc[d].port]
    BY <1>1, <1>5 DEF DaemonInv, Resolved, Knows, At
  <2>2. bound[proc[d].port] = d
    BY <1>1, <1>5 DEF DaemonBasics, BoundOK, AutoUp, IsDaemon
  <2> QED BY <2>1, <2>2 DEF Reachable
<1>6. CASE Exit(p)
  BY <1>1, <1>2, <1>6, ExitStep DEF At, DaemonPcs
<1>7. CASE ~Reachable(proc[p].ptr.port) /\ Goto(p, "clean")
  <2>1. /\ proc' \in [Pids -> ProcType] /\ Others(p) /\ proc'[p].pc = "clean"
        /\ proc'[p].scope = proc[p].scope /\ proc'[p].starter = proc[p].starter
        /\ proc'[p].auto = proc[p].auto /\ proc'[p].cmd = proc[p].cmd
        /\ proc'[p].ptr = proc[p].ptr
    BY <1>1, <1>7, GotoProc DEF Steps
  <2>2. \A d \in Pids : ~(proc'[p].starter /\ proc'[p].scope \notin Trouble'
                          /\ AutoUp(d) /\ Scope(d) = proc'[p].scope)
    BY <1>2, <1>5, <1>7, <2>1 DEF Scope, Trouble
  <2>3. Fits(p)
    BY <1>1, <1>3, <1>4, <2>1, <2>2 DEF Fits, AutoUp, IsDaemon, LockPcs, At, OnItsWay
  <2> QED BY <1>2, <2>1, <2>3, ReadingStep
<1>8. CASE proc' = [proc EXCEPT ![p].pc = "target", ![p].port = proc[p].ptr.port,
                                ![p].ptr = Absent]
  <2> DEFINE new == [proc[p] EXCEPT !.pc = "target", !.port = proc[p].ptr.port, !.ptr = Absent]
  <2>1. new \in ProcType
    BY <1>1 DEF ProcType, Steps, Pointers
  <2>2. proc' \in [Pids -> ProcType] /\ Others(p) /\ proc'[p] = new
    BY <1>1, <1>8, <2>1 DEF DaemonTypeOK, Others
  <2>3. /\ proc'[p].pc = "target" /\ proc'[p].starter = proc[p].starter
        /\ proc'[p].scope = proc[p].scope /\ proc'[p].auto = proc[p].auto
        /\ proc'[p].cmd = proc[p].cmd /\ proc'[p].port = proc[p].ptr.port
    BY <1>1, <2>2 DEF ProcType
  <2>4. \A d \in Pids : proc'[p].starter /\ proc'[p].scope \notin Trouble'
                        /\ AutoUp(d) /\ Scope(d) = proc'[p].scope
                        => proc'[p].port = proc[d].port
    BY <1>2, <1>5, <2>3 DEF Scope, Trouble
  <2>5. Fits(p)
    BY <1>1, <1>3, <1>4, <2>3, <2>4 DEF Fits, AutoUp, IsDaemon, LockPcs, At, OnItsWay
  <2> QED BY <1>2, <2>2, <2>3, <2>5, ReadingStep
<1> QED BY <1>6, <1>7, <1>8 DEF CheckPointer

(* The pointer of another daemon is not touched without an excuse.         *)
LEMMA PointerGone ==
  ASSUME DaemonInv, NEW p \in Pids, NEW new \in Pointers \cup {Absent},
         pointer' = [pointer EXCEPT ![Scope(p)] = new],
         excused' = IF PointsToAnother(Scope(p), p) THEN excused \cup {Scope(p)} ELSE excused
  PROVE  /\ pointer' \in [Scopes -> Pointers \cup {Absent}] /\ excused' \subseteq Scopes
         /\ pointer'[Scope(p)] = new /\ excused \subseteq excused'
         /\ \A d \in Pids \ {p} : AutoUp(d) /\ At(d, "serving") /\ Scope(d) \notin robbed \cup excused'
                                  => pointer'[Scope(d)] = pointer[Scope(d)]
<1>1. DaemonTypeOK /\ \A d \in Pids : Scope(d) \in Scopes
  BY DEF DaemonInv, DaemonBasics, DaemonTypeOK, Scope, ProcType
<1>2. /\ pointer' \in [Scopes -> Pointers \cup {Absent}] /\ excused' \subseteq Scopes
      /\ pointer'[Scope(p)] = new /\ excused \subseteq excused'
  BY <1>1 DEF DaemonTypeOK
<1>3. ASSUME NEW d \in Pids \ {p}, AutoUp(d), At(d, "serving"), Scope(d) \notin robbed \cup excused'
      PROVE  pointer'[Scope(d)] = pointer[Scope(d)]
  <2>1. CASE Scope(d) = Scope(p)
    <3>1. Scope(d) \notin Trouble
      BY <1>2, <1>3 DEF Trouble
    <3>2. PointsToAnother(Scope(p), p)
      BY <1>3, <2>1, <3>1, PointerLost
    <3> QED BY <1>3, <2>1, <3>2
  <2>2. CASE Scope(d) # Scope(p)
    BY <1>1, <2>2 DEF DaemonTypeOK
  <2> QED BY <2>1, <2>2
<1> QED BY <1>2, <1>3

LEMMA CleanPointerKeeps ==
  ASSUME DaemonInv, NEW p \in Pids, CleanPointer(p)
  PROVE  DaemonInv'
<1>1. DaemonBasics /\ DaemonTypeOK /\ LockHeld /\ proc[p].pc = "clean" /\ proc[p].ptr \in Pointers
  BY DEF DaemonInv, DaemonBasics, DaemonTypeOK, CleanPointer, At, PtrRead
<1>2. /\ lock' = lock /\ record' = record /\ bound' = bound /\ commands' = commands
      /\ robbed' = robbed
  BY DEF CleanPointer
<1>3. /\ pointer' \in [Scopes -> Pointers \cup {Absent}] /\ excused' \subseteq Scopes
      /\ excused \subseteq excused'
      /\ \A d \in Pids \ {p} : AutoUp(d) /\ At(d, "serving") /\ Scope(d) \notin Trouble'
                               => pointer'[Scope(d)] = pointer[Scope(d)]
  BY <1>2, PointerGone DEF CleanPointer, PointerRemoved, Trouble
<1>4. /\ proc' \in [Pids -> ProcType] /\ Others(p) /\ proc'[p].pc = "cleanRecord"
      /\ proc'[p].scope = proc[p].scope /\ proc'[p].starter = proc[p].starter
      /\ proc'[p].auto = proc[p].auto /\ proc'[p].cmd = proc[p].cmd
      /\ proc'[p].ptr = proc[p].ptr
  BY <1>1, GotoProc DEF Steps, CleanPointer
<1>5. DaemonTypeOK'
  BY <1>1, <1>2, <1>3, <1>4 DEF DaemonTypeOK
<1>6. Fits(p)
  <2>1. \A port \in Ports : bound'[port] # p
    BY <1>1, <1>2, NoDaemon DEF DaemonPcs
  <2>2. proc[p].auto => OnItsWay(p) /\ proc[p].cmd = "run"
    BY <1>1 DEF OnItsWay, DaemonBasics, EnsureLocks
  <2>3. \A d \in Pids : ~(proc'[p].starter /\ proc'[p].scope \notin Trouble'
                          /\ AutoUp(d) /\ Scope(d) = proc'[p].scope)
    <3> SUFFICES ASSUME NEW d \in Pids, proc'[p].starter, proc'[p].scope \notin Trouble',
                        AutoUp(d), Scope(d) = proc'[p].scope
                 PROVE  FALSE
      OBVIOUS
    <3>1. proc[p].starter /\ Scope(p) \notin Trouble /\ Scope(d) = Scope(p)
      BY <1>2, <1>3, <1>4 DEF Trouble, Scope
    <3>2. Knows(p, d)
      BY <3>1 DEF DaemonInv, Resolved
    <3> QED BY <1>1, <3>2 DEF Knows, At
  <2> QED BY <1>1, <1>4, <2>1, <2>2, <2>3 DEF Fits, AutoUp, IsDaemon, LockPcs, At, OnItsWay
<1>7. LockHeld'
  <2>1. \A q \in Pids : proc'[q].starter => proc[q].starter /\ proc'[q].scope = proc[q].scope
    BY <1>4 DEF Others
  <2> QED BY <1>1, <1>2, <2>1, LockStays
<1> QED BY <1>1, <1>2, <1>3, <1>4, <1>5, <1>6, <1>7, OwnStep DEF At

LEMMA CleanRecordKeeps ==
  ASSUME DaemonInv, NEW p \in Pids, CleanRecord(p)
  PROVE  DaemonInv'
<1> DEFINE new == [proc[p] EXCEPT !.pc = "target", !.ptr = Absent]
<1>1. /\ DaemonBasics /\ DaemonTypeOK /\ LockHeld /\ proc[p].pc = "cleanRecord"
      /\ proc[p] \in ProcType /\ proc[p].ptr \in Pointers
  BY DEF DaemonInv, DaemonBasics, DaemonTypeOK, CleanRecord, At, PtrRead
<1>2. /\ pointer' = pointer /\ lock' = lock /\ bound' = bound /\ commands' = commands
      /\ robbed' = robbed /\ excused' = excused
      /\ record' = [record EXCEPT ![proc[p].ptr.port] = Absent]
  BY DEF CleanRecord, History
<1>3. new \in ProcType
  BY <1>1 DEF ProcType, Steps
<1>4. proc' \in [Pids -> ProcType] /\ Others(p) /\ proc'[p] = new
  BY <1>1, <1>3 DEF CleanRecord, DaemonTypeOK, Others
<1>5. /\ proc'[p].pc = "target" /\ proc'[p].starter = proc[p].starter
      /\ proc'[p].scope = proc[p].scope /\ proc'[p].auto = proc[p].auto
      /\ proc'[p].cmd = proc[p].cmd
  BY <1>1, <1>4 DEF ProcType
<1>6. DaemonTypeOK'
  BY <1>1, <1>2, <1>4 DEF DaemonTypeOK
<1>7. Fits(p)
  <2>1. \A port \in Ports : bound'[port] # p
    BY <1>1, <1>2, NoDaemon DEF DaemonPcs
  <2>2. proc[p].auto => OnItsWay(p) /\ proc[p].cmd = "run"
    BY <1>1 DEF OnItsWay, DaemonBasics, EnsureLocks
  <2>3. \A d \in Pids : ~(proc'[p].starter /\ proc'[p].scope \notin Trouble'
                          /\ AutoUp(d) /\ Scope(d) = proc'[p].scope)
    <3> SUFFICES ASSUME NEW d \in Pids, proc'[p].starter, proc'[p].scope \notin Trouble',
                        AutoUp(d), Scope(d) = proc'[p].scope
                 PROVE  FALSE
      OBVIOUS
    <3>1. proc[p].starter /\ Scope(p) \notin Trouble /\ Scope(d) = Scope(p)
      BY <1>2, <1>5 DEF Trouble, Scope
    <3>2. Knows(p, d)
      BY <3>1 DEF DaemonInv, Resolved
    <3> QED BY <1>1, <3>2 DEF Knows, At
  <2> QED BY <1>1, <1>5, <2>1, <2>2, <2>3 DEF Fits, AutoUp, IsDaemon, LockPcs, At, OnItsWay
<1>8. LockHeld'
  <2>1. \A q \in Pids : proc'[q].starter => proc[q].starter /\ proc'[q].scope = proc[q].scope
    BY <1>4, <1>5 DEF Others
  <2> QED BY <1>1, <1>2, <2>1, LockStays
<1> QED BY <1>2, <1>4, <1>6, <1>7, <1>8, OwnStep

(* A step that takes the start lock, or ends the process.                  *)
LEMMA LockTakenKeeps ==
  ASSUME DaemonInv, NEW p \in Pids, TakeLock(p), lock[Scope(p)] = Absent,
         proc[p].pc \in {"tryLock", "relock"}, UNCHANGED <<pointer, record, bound, History>>
  PROVE  DaemonInv'
<1>1. /\ DaemonBasics /\ DaemonTypeOK /\ LockHeld /\ Scope(p) \in Scopes
      /\ pointer' = pointer /\ record' = record /\ bound' = bound /\ commands' = commands
      /\ robbed' = robbed /\ excused' = excused /\ lock' = [lock EXCEPT ![Scope(p)] = p]
  BY DEF DaemonInv, DaemonBasics, DaemonTypeOK, History, Scope, ProcType, TakeLock
<1>2. proc' \in [Pids -> ProcType] /\ Others(p)
  BY <1>1, TakeLockProc
<1>3. DaemonTypeOK'
  BY <1>1, <1>2 DEF DaemonTypeOK
<1>4. Fits(p)
  BY <1>1, TakesLockFits DEF LockPcs
<1>5. LockHeld'
  BY <1>1, LockTaken
<1> QED BY <1>1, <1>2, <1>3, <1>4, <1>5, OwnStep

LEMMA TryLockKeeps ==
  ASSUME DaemonInv, NEW p \in Pids, TryLock(p)
  PROVE  DaemonInv'
<1>1. /\ proc[p].pc = "tryLock" /\ UNCHANGED <<pointer, record, bound, History>>
      /\ proc[p].cmd = "ensure"
  BY DEF TryLock, At, DaemonInv, DaemonBasics, EnsureLocks, LockPcs
<1>2. CASE TakeLock(p) /\ lock[Scope(p)] = Absent
  BY <1>1, <1>2, LockTakenKeeps
<1>3. CASE Goto(p, "readLock") /\ UNCHANGED lock
  BY <1>1, <1>3, GotoStep DEF At, DaemonPcs, Steps, Files, History
<1> QED BY <1>2, <1>3 DEF TryLock

LEMMA RelockKeeps ==
  ASSUME DaemonInv, NEW p \in Pids, Relock(p)
  PROVE  DaemonInv'
<1>1. proc[p].pc = "relock" /\ UNCHANGED <<pointer, record, bound, History>>
  BY DEF Relock, At
<1>2. CASE TakeLock(p) /\ lock[Scope(p)] = Absent
  BY <1>1, <1>2, LockTakenKeeps
<1>3. CASE Exit(p) /\ UNCHANGED lock
  BY <1>1, <1>3, ExitStep DEF At, DaemonPcs, Files, History
<1> QED BY <1>2, <1>3 DEF Relock

LEMMA StealKeeps ==
  ASSUME DaemonInv, NEW p \in Pids, Steal(p)
  PROVE  DaemonInv'
<1>1. /\ DaemonBasics /\ DaemonTypeOK /\ LockHeld /\ Scope(p) \in Scopes
      /\ proc[p].pc = "steal" /\ proc[p].cmd = "ensure"
  BY DEF DaemonInv, DaemonBasics, DaemonTypeOK, Steal, At, Scope, ProcType, EnsureLocks, LockPcs
<1>2. /\ pointer' = pointer /\ record' = record /\ bound' = bound /\ commands' = commands
      /\ excused' = excused /\ lock' = [lock EXCEPT ![Scope(p)] = Absent]
  BY DEF Steal
<1>3. /\ robbed \subseteq robbed' /\ robbed' \subseteq Scopes
      /\ \A q \in Pids : lock[Scope(p)] = q /\ proc[q].starter /\ Scope(q) = Scope(p)
                         => Scope(p) \in robbed'
  BY <1>1 DEF Steal, DaemonTypeOK
<1>4. /\ proc' \in [Pids -> ProcType] /\ Others(p) /\ proc'[p].pc = "relock"
      /\ proc'[p].scope = proc[p].scope /\ proc'[p].starter = proc[p].starter
      /\ proc'[p].auto = proc[p].auto /\ proc'[p].cmd = proc[p].cmd
  BY <1>1, GotoProc DEF Steps, Steal
<1>5. DaemonTypeOK'
  BY <1>1, <1>2, <1>3, <1>4 DEF DaemonTypeOK
<1>6. Fits(p)
  <2>1. \A port \in Ports : bound'[port] # p
    BY <1>1, <1>2, NoDaemon DEF DaemonPcs
  <2> QED BY <1>1, <1>4, <2>1, GoesOnFits DEF Steps, At
<1>7. LockHeld'
  <2> SUFFICES ASSUME NEW q \in Pids, proc'[q].starter, Scope(q)' \notin robbed'
               PROVE  lock'[Scope(q)'] = q
    BY DEF LockHeld
  <2>1. proc[q].starter /\ Scope(q)' = Scope(q) /\ Scope(q) \notin robbed'
    BY <1>4 DEF Others, Scope
  <2>2. lock[Scope(q)] = q
    BY <1>1, <1>3, <2>1 DEF LockHeld
  <2>3. Scope(q) # Scope(p)
    BY <1>3, <2>1, <2>2
  <2> QED BY <1>1, <1>2, <2>1, <2>2, <2>3 DEF DaemonTypeOK
<1> QED BY <1>2, <1>3, <1>4, <1>5, <1>6, <1>7, OwnStep

LEMMA ReleaseKeeps ==
  ASSUME DaemonInv, NEW p \in Pids, Release(p)
  PROVE  DaemonInv'
<1>1. /\ DaemonBasics /\ DaemonTypeOK /\ LockHeld /\ Scope(p) \in Scopes
      /\ proc[p].pc = "release" /\ proc[p].starter
  BY DEF DaemonInv, DaemonBasics, DaemonTypeOK, Release, At, Scope, ProcType, WaitersStart
<1>2. /\ pointer' = pointer /\ record' = record /\ bound' = bound /\ commands' = commands
      /\ excused' = excused /\ robbed' = robbed /\ lock' = [lock EXCEPT ![Scope(p)] = Absent]
  BY DEF Release, History
<1>3. proc' \in [Pids -> ProcType] /\ Others(p) /\ proc'[p] = Dead /\ ~proc'[p].starter
  BY <1>1, ExitProc, DeadProc DEF Release
<1>4. DaemonTypeOK'
  BY <1>1, <1>2, <1>3 DEF DaemonTypeOK
<1>5. Fits(p)
  <2>1. \A port \in Ports : bound'[port] # p
    BY <1>1, <1>2, NoDaemon DEF DaemonPcs
  <2> QED BY <1>1, <1>3, <2>1, ExitFits DEF At
<1>6. LockHeld'
  <2> SUFFICES ASSUME NEW q \in Pids, proc'[q].starter, Scope(q)' \notin robbed
               PROVE  lock'[Scope(q)'] = q
    BY <1>2 DEF LockHeld
  <2>1. q # p /\ proc[q].starter /\ Scope(q)' = Scope(q)
    BY <1>3 DEF Others, Scope
  <2>2. lock[Scope(q)] = q
    BY <1>1, <2>1 DEF LockHeld
  <2>3. Scope(q) # Scope(p)
    BY <1>1, <2>1, <2>2 DEF LockHeld
  <2> QED BY <1>1, <1>2, <2>1, <2>2, <2>3 DEF DaemonTypeOK
<1> QED BY <1>2, <1>3, <1>4, <1>5, <1>6, OwnStep

LEMMA WriteRecordKeeps ==
  ASSUME DaemonInv, NEW p \in Pids, WriteRecord(p)
  PROVE  DaemonInv'
<1>1. /\ DaemonBasics /\ DaemonTypeOK /\ LockHeld /\ proc[p].port \in Ports
      /\ proc[p].pc = "writeRecord"
  BY DEF DaemonInv, DaemonBasics, DaemonTypeOK, WriteRecord, At, ProcType
<1>2. /\ pointer' = pointer /\ lock' = lock /\ bound' = bound /\ commands' = commands
      /\ robbed' = robbed /\ excused' = excused
      /\ record' = [record EXCEPT ![proc[p].port] = p]
  BY DEF WriteRecord, History
<1>3. /\ proc' \in [Pids -> ProcType] /\ Others(p) /\ proc'[p].pc = "writePointer"
      /\ proc'[p].scope = proc[p].scope /\ proc'[p].starter = proc[p].starter
      /\ proc'[p].auto = proc[p].auto /\ proc'[p].cmd = proc[p].cmd
      /\ proc'[p].port = proc[p].port
  BY <1>1, GotoProc DEF Steps, WriteRecord
<1>4. DaemonTypeOK'
  BY <1>1, <1>2, <1>3 DEF DaemonTypeOK
<1>5. Fits(p)
  BY <1>1, <1>3 DEF Fits, OnItsWay, LockPcs, At, Same, DaemonPcs, DaemonBasics, EnsureLocks
<1>6. LockHeld'
  <2>1. \A q \in Pids : proc'[q].starter => proc[q].starter /\ proc'[q].scope = proc[q].scope
    BY <1>3 DEF Others
  <2> QED BY <1>1, <1>2, <2>1, LockStays
<1> QED BY <1>2, <1>3, <1>4, <1>5, <1>6, OwnStep

LEMMA WritePointerKeeps ==
  ASSUME DaemonInv, NEW p \in Pids, WritePointer(p)
  PROVE  DaemonInv'
<1> DEFINE new == [pid |-> p, port |-> proc[p].port]
<1>1. /\ DaemonBasics /\ DaemonTypeOK /\ LockHeld /\ new \in Pointers
      /\ proc[p].pc = "writePointer"
  BY DEF DaemonInv, DaemonBasics, DaemonTypeOK, WritePointer, At, ProcType, Pointers
<1>2. /\ lock' = lock /\ record' = record /\ bound' = bound /\ commands' = commands
      /\ robbed' = robbed
  BY DEF WritePointer
<1>3. /\ pointer' \in [Scopes -> Pointers \cup {Absent}] /\ excused' \subseteq Scopes
      /\ pointer'[Scope(p)] = new /\ excused \subseteq excused'
      /\ \A d \in Pids \ {p} : AutoUp(d) /\ At(d, "serving") /\ Scope(d) \notin Trouble'
                               => pointer'[Scope(d)] = pointer[Scope(d)]
  BY <1>1, <1>2, PointerGone DEF WritePointer, Trouble
<1>4. /\ proc' \in [Pids -> ProcType] /\ Others(p) /\ proc'[p].pc = "serving"
      /\ proc'[p].scope = proc[p].scope /\ proc'[p].starter = proc[p].starter
      /\ proc'[p].auto = proc[p].auto /\ proc'[p].cmd = proc[p].cmd
      /\ proc'[p].port = proc[p].port
  BY <1>1, GotoProc DEF Steps, WritePointer
<1>5. DaemonTypeOK'
  BY <1>1, <1>2, <1>3, <1>4 DEF DaemonTypeOK
<1>6. Fits(p)
  BY <1>1, <1>3, <1>4 DEF Fits, OnItsWay, LockPcs, At, Same, DaemonPcs, DaemonBasics, EnsureLocks
<1>7. LockHeld'
  <2>1. \A q \in Pids : proc'[q].starter => proc[q].starter /\ proc'[q].scope = proc[q].scope
    BY <1>4 DEF Others
  <2> QED BY <1>1, <1>2, <2>1, LockStays
<1> QED BY <1>1, <1>2, <1>3, <1>4, <1>5, <1>6, <1>7, OwnStep DEF At

LEMMA DropRecordKeeps ==
  ASSUME DaemonInv, NEW p \in Pids, DropRecord(p)
  PROVE  DaemonInv'
<1>1. /\ DaemonBasics /\ DaemonTypeOK /\ LockHeld /\ proc[p].port \in Ports
      /\ proc[p].pc = "dropRecord"
  BY DEF DaemonInv, DaemonBasics, DaemonTypeOK, DropRecord, At, ProcType
<1>2. /\ pointer' = pointer /\ lock' = lock /\ bound' = bound /\ commands' = commands
      /\ robbed' = robbed /\ excused' = excused
      /\ record' = [record EXCEPT ![proc[p].port] = Absent]
  BY DEF DropRecord, History
<1>3. /\ proc' \in [Pids -> ProcType] /\ Others(p) /\ proc'[p].pc = "dropPointer"
      /\ proc'[p].scope = proc[p].scope /\ proc'[p].starter = proc[p].starter
      /\ proc'[p].auto = proc[p].auto /\ proc'[p].cmd = proc[p].cmd
  BY <1>1, GotoProc DEF Steps, DropRecord
<1>4. DaemonTypeOK'
  BY <1>1, <1>2, <1>3 DEF DaemonTypeOK
<1>5. Fits(p)
  <2>1. \A port \in Ports : bound'[port] # p
    BY <1>1, <1>2, NoDaemon DEF DaemonPcs
  <2> QED BY <1>1, <1>3, <2>1, GoesOnFits DEF Steps, At, LockPcs
<1>6. LockHeld'
  <2>1. \A q \in Pids : proc'[q].starter => proc[q].starter /\ proc'[q].scope = proc[q].scope
    BY <1>3 DEF Others
  <2> QED BY <1>1, <1>2, <2>1, LockStays
<1> QED BY <1>2, <1>3, <1>4, <1>5, <1>6, OwnStep

LEMMA DropPointerKeeps ==
  ASSUME DaemonInv, NEW p \in Pids, DropPointer(p)
  PROVE  DaemonInv'
<1>1. DaemonBasics /\ DaemonTypeOK /\ LockHeld /\ proc[p].pc = "dropPointer"
  BY DEF DaemonInv, DaemonBasics, DropPointer, At
<1>2. /\ lock' = lock /\ record' = record /\ bound' = bound /\ commands' = commands
      /\ robbed' = robbed
  BY DEF DropPointer
<1>3. /\ pointer' \in [Scopes -> Pointers \cup {Absent}] /\ excused' \subseteq Scopes
      /\ excused \subseteq excused'
      /\ \A d \in Pids \ {p} : AutoUp(d) /\ At(d, "serving") /\ Scope(d) \notin Trouble'
                               => pointer'[Scope(d)] = pointer[Scope(d)]
  BY <1>2, PointerGone DEF DropPointer, PointerRemoved, Trouble
<1>4. proc' \in [Pids -> ProcType] /\ Others(p) /\ proc'[p] = Dead /\ ~proc'[p].starter
  BY <1>1, ExitProc, DeadProc DEF DropPointer
<1>5. DaemonTypeOK'
  BY <1>1, <1>2, <1>3, <1>4 DEF DaemonTypeOK
<1>6. Fits(p)
  <2>1. \A port \in Ports : bound'[port] # p
    BY <1>1, <1>2, NoDaemon DEF DaemonPcs
  <2> QED BY <1>1, <1>4, <2>1, ExitFits DEF At
<1>7. LockHeld'
  <2>1. \A q \in Pids : proc'[q].starter => proc[q].starter /\ proc'[q].scope = proc[q].scope
    BY <1>4 DEF Others
  <2> QED BY <1>1, <1>2, <2>1, LockStays
<1> QED BY <1>1, <1>2, <1>3, <1>4, <1>5, <1>6, <1>7, OwnStep DEF At

(* A process gets a signal, from another command or from the user.         *)
LEMMA StruckKeeps ==
  ASSUME DaemonInv, NEW p \in Pids, NEW procs \in [Pids -> ProcType],
         \A q \in Pids : \/ procs[q] = proc[q]
                         \/ /\ procs[q] = [proc[q] EXCEPT !.pc = "awaitDown"]
                            /\ proc[q].pc = "target",
         Struck(p, procs), UNCHANGED <<Files, commands, robbed>>
  PROVE  DaemonInv'
<1>1. /\ DaemonBasics /\ DaemonTypeOK /\ LockHeld /\ Scope(p) \in Scopes
      /\ \A q \in Pids : proc[q] \in ProcType
  BY DEF DaemonInv, DaemonBasics, DaemonTypeOK, Scope, ProcType
<1>2. /\ pointer' = pointer /\ lock' = lock /\ record' = record /\ commands' = commands
      /\ robbed' = robbed
      /\ bound' = [port \in Ports |-> IF bound[port] = p THEN Absent ELSE bound[port]]
      /\ excused' = IF At(p, "awaitUp") /\ Coming(Scope(p)) THEN excused \cup {Scope(p)}
                    ELSE excused
  BY DEF Struck, Files
<1>3. \A q \in Pids : /\ procs[q].starter = proc[q].starter /\ procs[q].scope = proc[q].scope
                      /\ procs[q].auto = proc[q].auto /\ procs[q].cmd = proc[q].cmd
                      /\ procs[q].pc # proc[q].pc
                         => procs[q].pc = "awaitDown" /\ proc[q].pc = "target"
  BY <1>1 DEF ProcType
<1>4. \A port \in Ports : bound'[port] # p /\ (bound'[port] \in Pids => bound'[port] = bound[port])
  BY <1>2, ShapeAssumption
<1>5. /\ proc' \in [Pids -> ProcType] /\ \A q \in Pids \ {p} : proc'[q] = procs[q]
      /\ \/ /\ proc'[p].pc = "dropRecord" /\ proc'[p].starter = proc[p].starter
            /\ proc'[p].scope = proc[p].scope /\ proc'[p].auto = proc[p].auto
            /\ proc'[p].cmd = proc[p].cmd
         \/ proc'[p] = Dead
  <2>1. CASE proc' = [procs EXCEPT ![p].pc = "dropRecord"]
    <3>1. procs[p] \in ProcType
      OBVIOUS
    <3>2. [procs[p] EXCEPT !.pc = "dropRecord"] \in ProcType
      BY <3>1 DEF ProcType, Steps
    <3>3. proc' = [procs EXCEPT ![p] = [procs[p] EXCEPT !.pc = "dropRecord"]]
      BY <2>1
    <3>4. /\ proc' \in [Pids -> ProcType] /\ \A q \in Pids \ {p} : proc'[q] = procs[q]
          /\ proc'[p] = [procs[p] EXCEPT !.pc = "dropRecord"]
      BY <3>2, <3>3
    <3> QED BY <1>3, <3>1, <3>4 DEF ProcType
  <2>2. CASE proc' = [procs EXCEPT ![p] = Dead]
    BY <2>2, DeadProc
  <2> QED BY <2>1, <2>2 DEF Struck
<1>6. DaemonTypeOK'
  <2>1. bound' \in [Ports -> Pids \cup {Absent, Other}]
    BY <1>1, <1>2 DEF DaemonTypeOK
  <2> QED BY <1>1, <1>2, <1>5, <2>1 DEF DaemonTypeOK
<1>7. Fits(p)
  <2>1. At(p, "awaitUp") /\ Coming(Scope(p)) => Scope(p) \in Trouble'
    BY <1>2 DEF Trouble
  <2>2. CASE proc'[p] = Dead
    BY <1>4, <2>1, <2>2, ExitFits
  <2>3. CASE /\ proc'[p].pc = "dropRecord" /\ proc'[p].auto = proc[p].auto
             /\ proc'[p].cmd = proc[p].cmd
    BY <1>1, <1>4, <2>1, <2>3, GoesOnFits DEF Steps, LockPcs
  <2> QED BY <1>5, <2>2, <2>3
<1>8. ASSUME NEW q \in Pids
      PROVE  proc'[q] = proc[q] \/ Fits(q)
  <2>1. CASE q = p
    BY <1>7, <2>1
  <2>2. CASE q # p /\ procs[q].pc = "awaitDown" /\ proc[q].pc = "target"
    <3>1. \A port \in Ports : bound'[port] # q
      BY <1>1, <1>4, <2>2, NoDaemon DEF DaemonPcs
    <3>2. /\ proc'[q].pc = "awaitDown" /\ proc'[q].auto = proc[q].auto
          /\ proc'[q].cmd = proc[q].cmd
      BY <1>3, <1>5, <2>2
    <3> QED BY <1>1, <2>2, <3>1, <3>2, GoesOnFits DEF Steps, LockPcs, At
  <2>3. CASE q # p /\ procs[q] = proc[q]
    BY <1>5, <2>3
  <2> QED BY <1>1, <2>1, <2>2, <2>3 DEF ProcType
<1>9. LockHeld'
  <2>1. \A q \in Pids : proc'[q].starter => proc[q].starter /\ proc'[q].scope = proc[q].scope
    BY <1>3, <1>5, DeadProc
  <2> QED BY <1>1, <1>2, <2>1, LockStays
<1>10. excused \subseteq excused'
  BY <1>2
<1> HIDE DEF Fits, DaemonInv, LockHeld, DaemonTypeOK, AutoUp, At, Trouble
<1> QED BY <1>2, <1>4, <1>6, <1>8, <1>9, <1>10, QuietStep

LEMMA ShutdownKeeps ==
  ASSUME DaemonInv, NEW p \in Pids, Shutdown(p)
  PROVE  DaemonInv'
<1>1. proc \in [Pids -> ProcType]
  BY DEF DaemonInv, DaemonBasics, DaemonTypeOK
<1> QED BY <1>1, StruckKeeps DEF Shutdown

LEMMA TerminateKeeps ==
  ASSUME DaemonInv, NEW p \in Pids, NEW q \in Pids, Terminate(p, q)
  PROVE  DaemonInv'
<1> DEFINE procs == [proc EXCEPT ![p].pc = "awaitDown"]
<1>1. /\ proc \in [Pids -> ProcType] /\ proc[p] \in ProcType /\ proc[p].pc = "target"
      /\ Struck(q, procs) /\ UNCHANGED <<Files, commands, robbed>>
  BY DEF DaemonInv, DaemonBasics, DaemonTypeOK, Terminate, Asks, At
<1>2. [proc[p] EXCEPT !.pc = "awaitDown"] \in ProcType
  BY <1>1 DEF ProcType, Steps
<1>3. procs = [proc EXCEPT ![p] = [proc[p] EXCEPT !.pc = "awaitDown"]]
  BY <1>1
<1>4. /\ procs \in [Pids -> ProcType]
      /\ \A r \in Pids : \/ procs[r] = proc[r]
                         \/ /\ procs[r] = [proc[r] EXCEPT !.pc = "awaitDown"]
                            /\ proc[r].pc = "target"
  BY <1>1, <1>2, <1>3
<1> HIDE DEF procs
<1> QED BY <1>1, <1>4, StruckKeeps

(* The holder of the start lock is the only starter of a scope.            *)
LEMMA OneStarter ==
  ASSUME LockHeld, NEW p \in Pids, NEW q \in Pids, proc[p].starter, proc[q].starter,
         Scope(p) = Scope(q), Scope(p) \notin robbed
  PROVE  p = q
BY DEF LockHeld

LEMMA Listens ==
  ASSUME DaemonInv, NEW p \in Pids, At(p, "target"), bound[proc[p].port] = Absent,
         proc[p].cmd = "run",
         bound' = [bound EXCEPT ![proc[p].port] = p], Goto(p, "writeRecord"),
         UNCHANGED <<Files, History>>
  PROVE  DaemonInv'
<1>1. /\ DaemonBasics /\ DaemonTypeOK /\ LockHeld /\ PtrRead /\ WaitersStart /\ BoundOK
      /\ EnsureLocks /\ Awaited /\ Alone /\ Announced /\ Resolved
      /\ proc[p].port \in Ports /\ proc[p].pc = "target"
  BY DEF DaemonInv, DaemonBasics, DaemonTypeOK, ProcType, At
<1>2. /\ pointer' = pointer /\ lock' = lock /\ record' = record /\ commands' = commands
      /\ robbed' = robbed /\ excused' = excused /\ Trouble' = Trouble
  BY DEF Files, History, Trouble
<1>3. /\ proc' \in [Pids -> ProcType] /\ Others(p) /\ proc'[p].pc = "writeRecord"
      /\ proc'[p].scope = proc[p].scope /\ proc'[p].starter = proc[p].starter
      /\ proc'[p].auto = proc[p].auto /\ proc'[p].cmd = proc[p].cmd
      /\ proc'[p].port = proc[p].port
  BY <1>1, GotoProc DEF Steps
<1>4. DaemonTypeOK'
  BY <1>1, <1>2, <1>3 DEF DaemonTypeOK
<1>5. \A q \in Pids : Scope(q)' = Scope(q) /\ proc'[q].starter = proc[q].starter
                      /\ proc'[q].port = proc[q].port
  BY <1>3 DEF Others, Scope
<1>6. \A q \in Pids : IsDaemon(q)' => IsDaemon(q) \/ q = p
  BY <1>1 DEF IsDaemon, DaemonTypeOK
<1>7. \A q \in Pids : AutoUp(q)' => AutoUp(q) \/ (q = p /\ OnItsWay(p))
  BY <1>1, <1>3, <1>6 DEF AutoUp, OnItsWay, Others
<1>8. \A q \in Pids : OnItsWay(q)' => OnItsWay(q)
  BY <1>3 DEF OnItsWay, Others
<1>9. PtrRead' /\ WaitersStart' /\ EnsureLocks'
  BY <1>1, <1>3 DEF PtrRead, WaitersStart, EnsureLocks, Others, LockPcs
<1>10. BoundOK'
  <2> SUFFICES ASSUME NEW port \in Ports, NEW q \in Pids, bound'[port] = q
               PROVE  /\ proc'[q].port = port
                      /\ proc'[q].pc \in {"writeRecord", "writePointer", "serving"}
    BY DEF BoundOK
  <2>1. CASE port = proc[p].port
    BY <1>1, <1>3, <2>1 DEF DaemonTypeOK
  <2>2. CASE port # proc[p].port
    <3>1. bound[port] = q
      BY <1>1, <2>2 DEF DaemonTypeOK
    <3>2. proc[q].port = port /\ proc[q].pc \in {"writeRecord", "writePointer", "serving"}
      BY <1>1, <3>1 DEF BoundOK
    <3> QED BY <1>1, <1>3, <3>2 DEF Others
  <2> QED BY <2>1, <2>2
<1>11. LockHeld'
  BY <1>1, <1>2, <1>5, LockStays DEF Scope
<1>12. Awaited'
  <2> SUFFICES ASSUME NEW q \in Pids, OnItsWay(q)', Scope(q)' \notin Trouble'
               PROVE  \E r \in Pids : /\ proc'[r].starter /\ Scope(r)' = Scope(q)'
                                      /\ proc'[r].pc = "awaitUp"
    BY DEF Awaited, At
  <2>1. PICK r \in Pids : proc[r].starter /\ Scope(r) = Scope(q) /\ proc[r].pc = "awaitUp"
    BY <1>1, <1>2, <1>5, <1>8 DEF Awaited, At
  <2> QED BY <1>1, <1>3, <1>5, <2>1 DEF Others
<1>13. Alone'
  BY <1>1, <1>2, <1>5, <1>7, <1>8 DEF Alone
<1>14. Announced'
  <2> SUFFICES ASSUME NEW d \in Pids, AutoUp(d)', proc'[d].pc = "serving",
                      Scope(d)' \notin Trouble'
               PROVE  pointer'[Scope(d)'] = [pid |-> d, port |-> proc'[d].port]
    BY DEF Announced, At
  <2>1. d # p /\ AutoUp(d) /\ proc[d].pc = "serving"
    BY <1>3, <1>7 DEF Others
  <2> QED BY <1>1, <1>2, <1>5, <2>1 DEF Announced, At
<1>15. Resolved'
  <2> SUFFICES ASSUME NEW q \in Pids, NEW d \in Pids, proc'[q].starter,
                      Scope(q)' \notin Trouble', AutoUp(d)', Scope(d)' = Scope(q)'
               PROVE  Knows(q, d)'
    BY DEF Resolved
  <2>1. proc[q].starter /\ Scope(q) \notin Trouble /\ Scope(d) = Scope(q)
    BY <1>2, <1>5
  <2>2. CASE q = p
    BY <1>3, <2>2 DEF Knows, At
  <2>3. CASE q # p /\ AutoUp(d)
    <3>1. Knows(q, d)
      BY <1>1, <2>1, <2>3 DEF Resolved
    <3> QED BY <1>3, <1>5, <2>3, <3>1 DEF Knows, At, Others
  <2>4. CASE q # p /\ d = p /\ OnItsWay(p)
    <3>1. PICK r \in Pids : proc[r].starter /\ Scope(r) = Scope(p) /\ proc[r].pc = "awaitUp"
      BY <1>1, <2>1, <2>4 DEF Awaited, At
    <3>2. r = q
      BY <1>1, <2>1, <2>4, <3>1, OneStarter DEF Trouble
    <3> QED BY <1>3, <2>4, <3>1, <3>2 DEF Knows, At, Others
  <2> QED BY <1>7, <2>2, <2>3, <2>4
<1> QED
  BY <1>4, <1>9, <1>10, <1>11, <1>12, <1>13, <1>14, <1>15 DEF DaemonInv, DaemonBasics

LEMMA BindKeeps ==
  ASSUME DaemonInv, NEW p \in Pids, Bind(p)
  PROVE  DaemonInv'
<1>1. proc[p].cmd = "run" /\ proc[p].pc = "target" /\ UNCHANGED <<Files, History>>
  BY DEF Bind, At
<1>2. CASE /\ bound[proc[p].port] = Absent /\ Goto(p, "writeRecord")
           /\ bound' = [bound EXCEPT ![proc[p].port] = p]
  BY <1>1, <1>2, Listens DEF At
<1>3. CASE Exit(p) /\ UNCHANGED bound
  BY <1>1, <1>3, ExitStep DEF At, DaemonPcs, History
<1> QED BY <1>2, <1>3 DEF Bind

LEMMA SpawnKeeps ==
  ASSUME DaemonInv, NEW p \in Pids, NEW q \in Pids, NEW port \in Ports, Spawn(p, q, port)
  PROVE  DaemonInv'
<1> DEFINE waits == [proc[p] EXCEPT !.pc = "awaitUp", !.port = port]
           daemon == New("run", Scope(p), port, TRUE)
<1>1. /\ DaemonBasics /\ DaemonTypeOK /\ LockHeld /\ PtrRead /\ WaitersStart /\ BoundOK
      /\ EnsureLocks /\ Awaited /\ Alone /\ Announced /\ Resolved
      /\ proc[p] \in ProcType /\ proc[p].pc = "target" /\ proc[p].starter
      /\ proc[p].cmd = "ensure" /\ proc[q].pc = "dead" /\ Scope(p) \in Scopes
      /\ ~Reachable(proc[p].port)
  BY DEF DaemonInv, DaemonBasics, DaemonTypeOK, ProcType, At, Spawn, Alive, Scope
<1>2. /\ pointer' = pointer /\ lock' = lock /\ record' = record /\ commands' = commands
      /\ robbed' = robbed /\ excused' = excused /\ bound' = bound /\ Trouble' = Trouble
  BY DEF Files, History, Trouble, Spawn
<1>3. p # q /\ ~proc[p].auto
  BY <1>1 DEF EnsureLocks
<1>4. waits \in ProcType /\ daemon \in ProcType
  <2>1. waits \in ProcType
    BY <1>1 DEF ProcType, Steps
  <2>2. "run" \in Commands /\ TRUE \in BOOLEAN
    BY DEF Commands
  <2>3. daemon \in ProcType
    BY <1>1, <2>2, NewProc
  <2> QED BY <2>1, <2>3
<1>5. /\ proc' \in [Pids -> ProcType] /\ proc'[p] = waits /\ proc'[q] = daemon
      /\ \A r \in Pids \ {p, q} : proc'[r] = proc[r]
  <2>1. proc' = [proc EXCEPT ![p] = waits, ![q] = daemon]
    BY <1>1, <1>3 DEF Spawn, DaemonTypeOK
  <2> HIDE DEF waits, daemon
  <2> QED BY <1>1, <1>3, <1>4, <2>1 DEF DaemonTypeOK
<1>6. /\ proc'[p].pc = "awaitUp" /\ proc'[p].scope = proc[p].scope /\ proc'[p].starter
      /\ ~proc'[p].auto /\ proc'[p].cmd = "ensure"
  BY <1>1, <1>3, <1>5 DEF ProcType
<1>7. /\ proc'[q].pc = "resolve" /\ proc'[q].scope = Scope(p) /\ ~proc'[q].starter
      /\ proc'[q].auto /\ proc'[q].cmd = "run"
  BY <1>5 DEF New
<1> HIDE DEF waits, daemon
<1>8. DaemonTypeOK'
  BY <1>1, <1>2, <1>5 DEF DaemonTypeOK
<1>9. \A r \in Pids : IsDaemon(r)' => /\ IsDaemon(r) /\ r # p /\ r # q /\ proc'[r] = proc[r]
  <2>1. \A x \in Ports : bound[x] # p /\ bound[x] # q
    BY <1>1, NoDaemon DEF DaemonPcs
  <2> QED BY <1>2, <1>5, <2>1 DEF IsDaemon
<1>10. \A r \in Pids : AutoUp(r)' => AutoUp(r) /\ proc'[r] = proc[r] /\ Scope(r)' = Scope(r)
  BY <1>9 DEF AutoUp, Scope
<1>11. \A r \in Pids : OnItsWay(r)' => r = q \/ /\ OnItsWay(r) /\ r # p /\ proc'[r] = proc[r]
                                                /\ Scope(r)' = Scope(r)
  BY <1>5, <1>6 DEF OnItsWay, Scope
<1>12. PtrRead' /\ WaitersStart' /\ EnsureLocks'
  BY <1>1, <1>5, <1>6, <1>7 DEF PtrRead, WaitersStart, EnsureLocks, LockPcs
<1>13. BoundOK'
  <2> SUFFICES ASSUME NEW x \in Ports, NEW r \in Pids, bound'[x] = r
               PROVE  /\ proc'[r].port = x
                      /\ proc'[r].pc \in {"writeRecord", "writePointer", "serving"}
    BY DEF BoundOK
  <2>1. proc'[r] = proc[r]
    BY <1>9 DEF IsDaemon
  <2>2. bound[x] = r
    BY <1>2
  <2> QED BY <1>1, <2>1, <2>2 DEF BoundOK
<1>14. LockHeld'
  <2>1. \A r \in Pids : proc'[r].starter => proc[r].starter /\ proc'[r].scope = proc[r].scope
    BY <1>1, <1>5, <1>6, <1>7
  <2> QED BY <1>1, <1>2, <2>1, LockStays
<1>15. ASSUME Scope(p) \notin Trouble, NEW r \in Pids, Scope(r) = Scope(p)
       PROVE  ~AutoUp(r) /\ ~OnItsWay(r)
  <2>1. ASSUME AutoUp(r)
        PROVE  FALSE
    <3>1. proc[p].port = proc[r].port
      BY <1>1, <1>15, <2>1 DEF Resolved, Knows, At
    <3>2. bound[proc[r].port] = r
      BY <1>1, <2>1 DEF AutoUp, IsDaemon, BoundOK
    <3> QED BY <1>1, <3>1, <3>2 DEF Reachable
  <2>2. ASSUME OnItsWay(r)
        PROVE  FALSE
    <3>1. PICK w \in Pids : proc[w].starter /\ Scope(w) = Scope(r) /\ proc[w].pc = "awaitUp"
      BY <1>1, <1>15, <2>2 DEF Awaited, At
    <3>2. w = p
      BY <1>1, <1>15, <3>1, OneStarter DEF Trouble
    <3> QED BY <1>1, <3>1, <3>2
  <2> QED BY <2>1, <2>2
<1>16. Awaited'
  <2> SUFFICES ASSUME NEW r \in Pids, OnItsWay(r)', Scope(r)' \notin Trouble'
               PROVE  \E w \in Pids : /\ proc'[w].starter /\ Scope(w)' = Scope(r)'
                                      /\ proc'[w].pc = "awaitUp"
    BY DEF Awaited, At
  <2>1. CASE r = q
    BY <1>6, <1>7, <2>1 DEF Scope
  <2>2. CASE r # q
    <3>1. OnItsWay(r) /\ Scope(r)' = Scope(r)
      BY <1>11, <2>2
    <3>2. PICK w \in Pids : proc[w].starter /\ Scope(w) = Scope(r) /\ proc[w].pc = "awaitUp"
      BY <1>1, <1>2, <3>1 DEF Awaited, At
    <3>3. proc'[w] = proc[w]
      BY <1>1, <1>5, <3>2
    <3> QED BY <3>1, <3>2, <3>3 DEF Scope
  <2> QED BY <2>1, <2>2
<1>17. Alone'
  <2> SUFFICES ASSUME NEW r \in Pids, NEW t \in Pids, OnItsWay(r)' \/ AutoUp(r)',
                      OnItsWay(t)' \/ AutoUp(t)', Scope(r)' = Scope(t)',
                      Scope(r)' \notin Trouble'
               PROVE  r = t
    BY DEF Alone
  <2>1. Scope(q)' = Scope(p)
    BY <1>7 DEF Scope
  <2>2. \A x \in Pids : OnItsWay(x)' \/ AutoUp(x)' =>
          x = q \/ /\ OnItsWay(x) \/ AutoUp(x)
                   /\ Scope(x)' = Scope(x)
    BY <1>10, <1>11
  <2>3. CASE r = q \/ t = q
    BY <1>2, <1>15, <2>1, <2>2, <2>3
  <2>4. CASE r # q /\ t # q
    BY <1>1, <1>2, <2>2, <2>4 DEF Alone
  <2> QED BY <2>3, <2>4
<1>18. Announced'
  <2> SUFFICES ASSUME NEW d \in Pids, AutoUp(d)', proc'[d].pc = "serving",
                      Scope(d)' \notin Trouble'
               PROVE  pointer'[Scope(d)'] = [pid |-> d, port |-> proc'[d].port]
    BY DEF Announced, At
  <2> QED BY <1>1, <1>2, <1>10 DEF Announced, At
<1>19. Resolved'
  <2> SUFFICES ASSUME NEW r \in Pids, NEW d \in Pids, proc'[r].starter,
                      Scope(r)' \notin Trouble', AutoUp(d)', Scope(d)' = Scope(r)'
               PROVE  Knows(r, d)'
    BY DEF Resolved
  <2>1. CASE r = p
    BY <1>6, <2>1 DEF Knows, At
  <2>2. CASE r # p
    <3>1. proc'[r] = proc[r] /\ Scope(r)' = Scope(r)
      BY <1>5, <1>7, <2>2 DEF Scope
    <3>2. AutoUp(d) /\ Scope(d) = Scope(r) /\ proc'[d] = proc[d]
      BY <1>10, <3>1
    <3>3. Knows(r, d)
      BY <1>1, <1>2, <3>1, <3>2 DEF Resolved
    <3> QED BY <3>1, <3>2, <3>3 DEF Knows, At
  <2> QED BY <2>1, <2>2
<1> QED
  BY <1>8, <1>12, <1>13, <1>14, <1>16, <1>17, <1>18, <1>19 DEF DaemonInv, DaemonBasics

--------------------------------------------------------------------------------
(* The invariant.                                                          *)

LEMMA DaemonInitInv == DaemonInit => DaemonInv
<1> SUFFICES ASSUME DaemonInit
             PROVE  DaemonInv
  OBVIOUS
<1>1. \A p \in Pids : /\ proc[p] \in ProcType /\ proc[p].pc = "dead" /\ ~proc[p].starter
                      /\ ~proc[p].auto
  BY DeadProc DEF DaemonInit
<1>2. DaemonTypeOK
  BY <1>1, ShapeAssumption DEF DaemonInit, DaemonTypeOK
<1>3. \A port \in Ports : bound[port] \notin Pids
  BY ShapeAssumption DEF DaemonInit
<1> QED
  BY <1>1, <1>2, <1>3
  DEF DaemonInv, DaemonBasics, PtrRead, WaitersStart, BoundOK, EnsureLocks, LockPcs, LockHeld,
      Awaited, Alone, Announced, Resolved, OnItsWay, AutoUp

LEMMA DaemonNextInv == DaemonInv /\ [DaemonNext]_daemonVars => DaemonInv'
<1> SUFFICES ASSUME DaemonInv, [DaemonNext]_daemonVars
             PROVE  DaemonInv'
  OBVIOUS
<1>1. ASSUME NEW p \in Pids, NEW cmd \in Commands, NEW s \in Scopes, NEW port \in Ports,
             Start(p, cmd, s, port)
      PROVE  DaemonInv'
  BY <1>1, StartKeeps
<1>2. ASSUME NEW p \in Pids, DaemonStep(p)
      PROVE  DaemonInv'
  BY <1>2, ReadPointerKeeps, CheckPointerKeeps, CleanPointerKeeps, CleanRecordKeeps, ProbeKeeps,
     TryLockKeeps, ReadLockKeeps, CheckOwnerKeeps, StealKeeps, RelockKeeps, FoundKeeps, UpKeeps,
     ReleaseKeeps, SpawnKeeps, BindKeeps, WriteRecordKeeps, WritePointerKeeps, ShutdownKeeps,
     NothingToDoKeeps, StaleRecordKeeps, TerminateKeeps, DownKeeps, TimeOutKeeps,
     DropRecordKeeps, DropPointerKeeps
  DEF DaemonStep
<1>3. CASE UNCHANGED daemonVars
  BY <1>3
  DEF daemonVars, DaemonInv, DaemonBasics, DaemonTypeOK, PtrRead, WaitersStart, BoundOK,
      EnsureLocks, LockHeld, Awaited, Alone, Announced, Resolved, Knows, OnItsWay, AutoUp,
      IsDaemon, Trouble, Scope, At
<1> QED BY <1>1, <1>2, <1>3 DEF DaemonNext

(* The inductive invariant: the start lock of a scope is with the one       *)
(* process that starts a daemon, which waits for it; of the daemons started *)
(* one is up or on its way; it has its pointer, and who starts finds it.    *)
THEOREM DaemonInvariance == DaemonSpec => []DaemonInv
<1>1. DaemonInit => DaemonInv
  BY DaemonInitInv
<1>2. DaemonInv /\ [DaemonNext]_daemonVars => DaemonInv'
  BY DaemonNextInv
<1> QED BY <1>1, <1>2, PTL DEF DaemonSpec

(* Every variable of the commands and of their files keeps its type.       *)
THEOREM DaemonTypeCorrect == DaemonSpec => []DaemonTypeOK
<1>1. DaemonInv => DaemonTypeOK
  BY DEF DaemonInv, DaemonBasics
<1> QED BY <1>1, DaemonInvariance, PTL

(* Of any number of commands, one at a time starts a daemon for a scope,    *)
(* unless its start lock was removed by another one (acquireDaemonStartLock).*)
THEOREM StartersAreAlone == DaemonSpec => []StartsAlone
<1>1. DaemonInv => StartsAlone
  <2> SUFFICES ASSUME DaemonInv, NEW p \in Pids, NEW q \in Pids, proc[p].starter,
                      proc[q].starter, Scope(p) = Scope(q), Scope(p) \notin robbed
               PROVE  p = q
    BY DEF StartsAlone
  <2> QED BY OneStarter DEF DaemonInv
<1> QED BY <1>1, DaemonInvariance, PTL

(* The commands never have two daemons of a scope up, but after one of the  *)
(* events that OneDaemon names.                                            *)
THEOREM AtMostOneDaemon == DaemonSpec => []OneDaemon
<1>1. DaemonInv => OneDaemon
  <2> SUFFICES ASSUME DaemonInv, NEW p \in Pids, NEW q \in Pids, AutoUp(p), AutoUp(q),
                      Scope(p) = Scope(q), Scope(p) \notin Trouble
               PROVE  p = q
    BY DEF OneDaemon, AutoUp, Trouble
  <2> QED BY DEF DaemonInv, Alone
<1> QED BY <1>1, DaemonInvariance, PTL
================================================================================
