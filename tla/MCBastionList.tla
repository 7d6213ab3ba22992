---------------------------- MODULE MCBastionList ----------------------------
EXTENDS BastionList, TLC

Rec(name, profile, host) == [name |-> name, profile |-> profile, host |-> host]
Far(profile, name, kind, up) ==
    [profile |-> profile, name |-> name, kind |-> kind, up |-> up]
List(mcp, include, probe, only) ==
    [mcp |-> mcp, include |-> include, probe |-> probe, only |-> only]
Edit(op, alias) == [op |-> op, alias |-> alias]
Req(op, token, alias, good) == [op |-> op, token |-> token, alias |-> alias, good |-> good]

MCRemote == ("b1" :> <<Far("ssh", "web", "local", FALSE), Far("ssh", "b2", "bastion", TRUE)>>)
            @@ ("b2" :> <<Far("mysql", "db", "local", None), Far("ssh", "db", "local", TRUE)>>)
            @@ ("b3" :> <<>>)

Base == [key |-> TRUE, locked |-> FALSE, registry |-> <<"b1">>,
         records |-> <<Rec("b1", "ssh", TRUE), Rec("b2", "ssh", TRUE)>>,
         nets |-> {<<"ssh">>}, remote |-> MCRemote,
         lists |-> [l \in Lists |-> None], exec |-> None,
         requests |-> [c \in Clients |-> None], edits |-> [e \in Editors |-> None],
         expires |-> FALSE]

\* An MCP list of four records, one without a host and
\* with the name of another, that probes and asks both bastions.
Probing == [Base EXCEPT
    !.registry = <<"b1", "b2">>,
    !.records = <<Rec("b1", "ssh", TRUE), Rec("b1", "mysql", FALSE), Rec("b2", "ssh", TRUE),
                  Rec("y", "mysql", TRUE)>>,
    !.nets = {<<>>, <<"refused", "mute">>, <<"refused", "ssh", "mute">>},
    !.lists = [Base.lists EXCEPT !["l1"] = List(TRUE, TRUE, TRUE, TRUE)],
    !.requests = [Base.requests EXCEPT !["r1"] = Req("show", "query", None, FALSE)]]

\* Two lists and an exec of one MCP server.
Serving == [Base EXCEPT !.exec = "b1",
                        !.lists = [l \in Lists |-> List(TRUE, TRUE, FALSE, FALSE)]]

\* Two editors at terminals and two edits on the page; no bastion key.
Editing == [Base EXCEPT
    !.key = FALSE,
    !.records = Append(@, Rec("b3", "ssh", TRUE)),
    !.edits = [e \in Editors |-> IF e = "e1" THEN Edit("enable", "b2") ELSE Edit("disable", "b2")],
    !.requests = [Base.requests EXCEPT !["r1"] = Req("enable", "header", "b3", FALSE),
                                       !["r2"] = Req("enable", "header", "b1", FALSE)]]

\* A list at a terminal reads the registry while two editors rewrite it.
Reading == [Base EXCEPT
    !.lists = [Base.lists EXCEPT !["l1"] = List(FALSE, TRUE, FALSE, FALSE)],
    !.edits = [e \in Editors |-> IF e = "e1" THEN Edit("enable", "b2") ELSE Edit("disable", "b1")]]

\* The page synchronises and unlocks while a list runs.
Syncing == [Base EXCEPT
    !.lists = [Base.lists EXCEPT !["l1"] = List(TRUE, TRUE, FALSE, FALSE)],
    !.requests = [Base.requests EXCEPT !["r1"] = Req("sync", "query", "b1", FALSE),
                                       !["r2"] = Req("unlock", "query", None, TRUE)]]

\* The page synchronises and locks while an MCP exec runs; its session expires.
Paging == [Base EXCEPT
    !.exec = "b1", !.expires = TRUE,
    !.requests = [Base.requests EXCEPT !["r1"] = Req("sync", "query", "b1", FALSE),
                                       !["r2"] = Req("lock", "header", None, FALSE)]]

MCCases == {Probing, Serving, Editing, Reading, Syncing, Paging}
==============================================================================
