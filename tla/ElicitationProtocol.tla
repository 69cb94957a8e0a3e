-------------------------- MODULE ElicitationProtocol --------------------------
(***************************************************************************)
(* What the execution engine promises the user of a client that cannot     *)
(* answer an elicitation inline, with no engine in sight.  A tool call     *)
(* asks one question at a time; a client is told of a question once, and a *)
(* question is answered once, by a client that was told of it or by one    *)
(* that names its number.  A call is performed when no question of its is  *)
(* open, a call to a tool that requires approval only when the first       *)
(* question it asked, which is the approval, was accepted.                 *)
(* ExecutionEngine implements this module (ImplementsProtocol).            *)
(***************************************************************************)
EXTENDS Naturals

CONSTANTS
  Call,       \* tool calls
  Gated,      \* the calls to tools annotated requiresApproval
  PauseId,    \* the numbers questions are known by
  Action,     \* the answers a user can give, "accept" among them
  NoCall      \* not a call

VARIABLES
  asked,      \* the call that asked each question, or NoCall
  told,       \* the questions some client was told of
  answer,     \* the answer to each question, or "none"
  performed   \* the calls whose tool ran to its end

vars == <<asked, told, answer, performed>>

Questions(c) == {q \in PauseId : asked[q] = c}

Answered(c) == \A q \in Questions(c) : answer[q] # "none"

(* The first question a call asked was accepted.                           *)
Approved(c) == \E q \in Questions(c) :
                 /\ answer[q] = "accept"
                 /\ \A p \in Questions(c) : q <= p

Init == /\ asked = [q \in PauseId |-> NoCall]
        /\ told = {}
        /\ answer = [q \in PauseId |-> "none"]
        /\ performed = {}

(* Questions are numbered as they are asked.                               *)
Ask(c, q) == /\ c \notin performed
             /\ Answered(c)
             /\ c \in Gated => Questions(c) = {} \/ Approved(c)
             /\ \A p \in PauseId : asked[p] # NoCall => p < q
             /\ asked' = [asked EXCEPT ![q] = c]
             /\ UNCHANGED <<told, answer, performed>>

Tell(q) == /\ asked[q] # NoCall
           /\ q \notin told
           /\ told' = told \cup {q}
           /\ UNCHANGED <<asked, answer, performed>>

Answer(q, a) == /\ asked[q] # NoCall
                /\ answer[q] = "none"
                /\ answer' = [answer EXCEPT ![q] = a]
                /\ UNCHANGED <<asked, told, performed>>

Perform(c) == /\ Answered(c)
              /\ c \in Gated => Approved(c)
              /\ performed' = performed \cup {c}
              /\ UNCHANGED <<asked, told, answer>>

Next == \/ \E c \in Call, q \in PauseId : Ask(c, q)
        \/ \E q \in PauseId : Tell(q)
        \/ \E q \in PauseId, a \in Action : Answer(q, a)
        \/ \E c \in Call : Perform(c)

Spec == Init /\ [][Next]_vars
================================================================================
