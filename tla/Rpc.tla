--------------------------------- MODULE Rpc ---------------------------------
(***************************************************************************)
(* What a client may expect of a chain of servers that nobody numbers its  *)
(* commands for: a command runs at most once, commands run in the order    *)
(* they were asked, and each ask ends in one of                            *)
(*   <<"answer", n>>    the answer to the n-th command, which has run,     *)
(*   <<"fallback", n>>  the n-th command has not run and never will, nor   *)
(*                      will any later command of this client,             *)
(*   <<"none", n>>      no answer; the command may have run, or run later. *)
(***************************************************************************)
EXTENDS Naturals, Sequences

CONSTANT Clients
VARIABLES
    asked,      \* number of commands each client has asked
    outcome,    \* what became of them, as far as the client knows
    ran         \* commands that have run, by number

Init ==
    /\ asked = [c \in Clients |-> 0]
    /\ outcome = [c \in Clients |-> <<>>]
    /\ ran = [c \in Clients |-> <<>>]

Ask(c) ==
    /\ asked[c] = Len(outcome[c])
    /\ asked' = [asked EXCEPT ![c] = @ + 1]
    /\ UNCHANGED <<outcome, ran>>

GivenUp(c, n) == \E m \in 1..Len(outcome[c]) : m <= n /\ outcome[c][m] = <<"fallback", m>>

Run(c, n) ==
    /\ n \in 1..asked[c]
    /\ \A i \in 1..Len(ran[c]) : ran[c][i] < n
    /\ ~GivenUp(c, n)
    /\ ran' = [ran EXCEPT ![c] = Append(@, n)]
    /\ UNCHANGED <<asked, outcome>>

HasRun(c, n) == \E i \in 1..Len(ran[c]) : ran[c][i] = n

Resolve(c, how) ==
    LET n == Len(outcome[c]) + 1 IN
    /\ asked[c] = n
    /\ how = "answer" => HasRun(c, n)
    /\ how = "fallback" => ~HasRun(c, n)
    /\ outcome' = [outcome EXCEPT ![c] = Append(@, <<how, n>>)]
    /\ UNCHANGED <<asked, ran>>

Next == \E c \in Clients :
    \/ Ask(c)
    \/ \E n \in 1..asked[c] : Run(c, n)
    \/ \E how \in {"answer", "fallback", "none"} : Resolve(c, how)

Spec == Init /\ [][Next]_<<asked, outcome, ran>>

=============================================================================
