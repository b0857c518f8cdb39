---------------------------- MODULE MCSshSession ----------------------------
(* Instances of SshSession: four rules of which two match the same command, *)
(* so that priority and id decide, and one that is for another protocol.    *)
EXTENDS SshSession

Rule(id, priority, protocol, hits, action) ==
    [id |-> id, priority |-> priority, protocol |-> protocol, hits |-> hits,
     action |-> action, inScope |-> TRUE]

MCRules == {Rule(1, 5, "any", {"rm"}, "deny"),
            Rule(2, 5, "ssh", {"rm", "sudo"}, "review"),
            Rule(3, 9, "ssh", {"sudo"}, "allow"),
            Rule(4, 1, "mysql", {"ls"}, "deny")}

Keys(text, nl) == [text |-> text, nl |-> nl, pty |-> FALSE]

\* "y" comes with the Enter key, as from a client that batches them.
TypedChunks == {Keys("bad", FALSE), Keys("y", TRUE), Keys("ctrl-c", FALSE)}

\* A terminal, a command, file transfer, forwarding, and the rarer requests.
MCScripts == {
    <<"OpenShell", "Pty", "Shell", "bad", "y">>,
    <<"OpenShell", "Shell", "ctrl-c">>,
    <<"OpenShell", "Exec">>,
    <<"OpenShell", "Sftp", "ChannelClose">>,
    <<"OpenDirectTCPIP", "Forward", "CancelForward">>,
    <<"OpenDirectStreamlocal", "OpenShell">>,
    <<"OpenShell", "Env", "X11", "Agent">>,
    <<"OpenShell", "Resize", "Signal", "Eof", "ExtendedData">>}

=============================================================================
