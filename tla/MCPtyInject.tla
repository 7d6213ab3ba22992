---------------------------- MODULE MCPtyInject ----------------------------
(***************************************************************************)
(* The runs of PtyInject for TLC: one case for each way of running, with   *)
(* the secrets right and wrong, and the prompts in the orders in which a   *)
(* server, a route of two hops or a privileged command puts them.          *)
(***************************************************************************)
EXTENDS PtyInject

Run(kind, asks) ==
  [kind |-> kind, asks |-> asks, ssh |-> TRUE, tty |-> TRUE, fields |-> <<"password">>,
   hint |-> TRUE, preBanner |-> FALSE, banner |-> TRUE, su |-> FALSE, good |-> TRUE,
   ascii |-> TRUE, held |-> FALSE, keys |-> 0]

Saved  == Run("saved", <<"login">>)
Sudo   == Run("saved", <<"login", "sudo">>)
Route  == Run("dual", <<"login", "inner", "sudo">>)
Both   == <<"key_passphrase", "password">>

MCRuns ==
  {[Saved EXCEPT !.keys = 1], Sudo,
   [Saved EXCEPT !.good = FALSE],
   [Saved EXCEPT !.tty = FALSE, !.keys = 1],
   [Saved EXCEPT !.ssh = FALSE],
   [Saved EXCEPT !.preBanner = TRUE],
   [Saved EXCEPT !.fields = <<>>],
   [Run("saved", <<"yesno", "login">>) EXCEPT !.fields = Both, !.keys = 1],
   Run("saved", <<"yesno", "login">>),
   [Run("saved", <<"key", "login">>) EXCEPT !.fields = Both],
   [Run("saved", <<"key", "login">>) EXCEPT !.fields = Both, !.good = FALSE],
   [Sudo EXCEPT !.good = FALSE],
   [Run("saved", <<"login", "su">>) EXCEPT !.su = TRUE],
   Run("defer", <<"login", "sudo">>), [Run("defer", <<"sudo">>) EXCEPT !.keys = 1],
   Run("outer", <<"login", "inner", "sudo">>),
   Run("passive", <<"login", "sudo">>),
   Route, [Route EXCEPT !.hint = FALSE], [Route EXCEPT !.preBanner = TRUE],
   [Run("dual", <<"key", "inner", "sudo">>) EXCEPT !.fields = Both],
   [Run("fresh", <<"yesno", "login", "sudo">>) EXCEPT !.keys = 5],
   [Run("fresh", <<"login">>) EXCEPT !.ascii = FALSE, !.held = TRUE],
   [Run("fresh", <<"login">>) EXCEPT !.tty = FALSE, !.held = TRUE]}

\* What the theorem about the secrets asks of the runs.
ASSUME MCInOrder == \A r \in MCRuns : InOrder(r)

\* And the one about what is saved.
ASSUME MCLoginLast == \A r \in MCRuns : LoginLast(r)

\* And the one about the prompts that are served.
ASSUME MCOneEach == \A r \in MCRuns : OneEach(r)

=============================================================================
