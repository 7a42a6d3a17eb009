--------------------------- MODULE LookingGlass ---------------------------
(***************************************************************************)
(* The looking glass: a browser asks node Self to run a BIRD command here  *)
(* or on another node.  The HTTP front routes the call, the handler checks *)
(* the login, and then either runs the command over BIRD's control socket, *)
(* line by line, or makes the same call at the front of another node.      *)
(*                                                                         *)
(* A query (Query) is up to two calls: the browser's and the one it is     *)
(* forwarded as.  All nodes run the same program; the logins are those of  *)
(* Self.  BIRD and its socket are external.  How the lines of an answer    *)
(* are put together again is formatting.                                   *)
(***************************************************************************)
EXTENDS Login, SequencesExt

CONSTANTS
    Query,      \* slots for queries in flight
    Node,
    Self,
    Here,       \* a query that names no node
    OwnName,    \* ... that names the node it asks (a node stands for its id)
    NoCall,
    NoConn,
    Output      \* bound: the longest output of a command, line by line

\* A query names its node by id, as the web interface does, or by name, or
\* not at all.  Of names only that of the own node makes a difference.
Target == {Here, OwnName} \cup Node
Command == {"show", "configure"}
Call == [node : Node, path : {"/api", "/"}, token : Token \cup {NoToken},
         command : Command, target : Target]

\* The calls of a query.
Web(q) == <<q, "web">>
Far(q) == <<q, "far">>
Leg == Query \X {"web", "far"}

Text == {Output[i] : i \in DOMAIN Output}
Line == {"banner", "end", "error"} \cup Text
Conn == [asked : Seq({"restrict", "command"}), wire : Seq(Line),
         greeted : BOOLEAN, open : BOOLEAN]
Reply == [ok : BOOLEAN, text : Seq(Text)]

ASSUME GlassAssumption == Self \in Node /\ Output \in Seq(Text)
\* By its code a line is text or one of the others.
ASSUME TextAssumption == Text \cap {"banner", "end", "error", "eof"} = {}
ASSUME GlassNilAssumption ==
    /\ {Here, OwnName} \cap Node = {}
    /\ NoCall \notin Call /\ NoConn \notin Conn

VARIABLES
    pc,        \* where each call is
    call,      \* its request
    conn,      \* its connection to the BIRD of its node
    out,       \* the text read so far
    reply,     \* its answer
    (* history, not part of the program *)
    asker,     \* the browser each query comes from
    checked,   \* when a call passed check_auth
    said,      \* the lines BIRD had for the call's command
    cut        \* BIRD closed the call's connection

calls == <<pc, call, conn, out, reply>>
glassHistory == <<asker, checked, said, cut>>
glassVars == <<calls, glassHistory>>
vars == <<loginVars, glassVars>>

NoReply == [ok |-> FALSE, text |-> <<>>]

Init ==
    /\ LoginInit
    /\ pc = [l \in Leg |-> "idle"]
    /\ call = [l \in Leg |-> NoCall]
    /\ conn = [l \in Leg |-> NoConn]
    /\ out = [l \in Leg |-> <<>>]
    /\ reply = [l \in Leg |-> NoReply]
    /\ asker \in [Query -> Browser]
    /\ checked = [l \in Leg |-> 0]
    /\ said = [l \in Leg |-> <<>>]
    /\ cut = [l \in Leg |-> FALSE]

Step(l, from, to) == pc[l] = from /\ pc' = [pc EXCEPT ![l] = to]

\* The call is answered and lets go of its socket.
Answer(l, ok, text) ==
    /\ pc' = [pc EXCEPT ![l] = "done"]
    /\ reply' = [reply EXCEPT ![l] = [ok |-> ok, text |-> text]]
    /\ conn' = [conn EXCEPT ![l] = NoConn]
    /\ UNCHANGED <<call, out>>

\* The calls in the set are over, whoever waits for them.
Drop(legs) ==
    /\ pc' = [l \in Leg |-> IF l \in legs THEN "idle" ELSE pc[l]]
    /\ call' = [l \in Leg |-> IF l \in legs THEN NoCall ELSE call[l]]
    /\ conn' = [l \in Leg |-> IF l \in legs THEN NoConn ELSE conn[l]]
    /\ out' = [l \in Leg |-> IF l \in legs THEN <<>> ELSE out[l]]
    /\ reply' = [l \in Leg |-> IF l \in legs THEN NoReply ELSE reply[l]]
    /\ checked' = [l \in Leg |-> IF l \in legs THEN 0 ELSE checked[l]]
    /\ said' = [l \in Leg |-> IF l \in legs THEN <<>> ELSE said[l]]
    /\ cut' = [l \in Leg |-> IF l \in legs THEN FALSE ELSE cut[l]]

LegsOf(q) == {Web(q), Far(q)}

-----------------------------------------------------------------------------
(* The front and the handler *)

\* A browser asks with the cookie it has; the web interface calls /api.
Ask(q) ==
    /\ Step(Web(q), "idle", "arrived")
    /\ \E b \in Browser, command \in Command, target \in Target :
         /\ asker' = [asker EXCEPT ![q] = b]
         /\ call' = [call EXCEPT ![Web(q)] =
              [node |-> Self, path |-> "/api", token |-> jar[b],
               command |-> command, target |-> target]]
    /\ UNCHANGED <<loginVars, conn, out, reply, checked, said, cut>>

\* The browser has its answer.
Collect(q) ==
    /\ pc[Web(q)] = "done"
    /\ Drop(LegsOf(q))
    /\ UNCHANGED <<loginVars, asker>>

\* The services are mounted below /api and nowhere else.
Mounted(l) == call[l].path = "/api"

\* Any other path gets a page, an error to the gRPC client that called it.
ServeStatic(l) ==
    /\ pc[l] = "arrived"
    /\ ~Mounted(l)
    /\ Answer(l, FALSE, <<>>)
    /\ UNCHANGED <<loginVars, glassHistory>>

\* Mutant: execute_command does not check the login.
CheckAuthSkipped(l) ==
    /\ Step(l, "arrived", "dispatch")
    /\ Mounted(l)
    /\ checked' = [checked EXCEPT ![l] = now]
    /\ UNCHANGED <<loginVars, call, conn, out, reply, asker, said, cut>>

CheckAuth(l) ==
    /\ pc[l] = "arrived"
    /\ Mounted(l)
    /\ \/ /\ Valid(call[l].token)
          /\ pc' = [pc EXCEPT ![l] = "dispatch"]
          /\ checked' = [checked EXCEPT ![l] = now]
          /\ UNCHANGED <<call, conn, out, reply>>
       \/ /\ ~Valid(call[l].token)
          /\ Answer(l, FALSE, <<>>)
          /\ UNCHANGED checked
    /\ UNCHANGED <<loginVars, asker, said, cut>>

\* The name of the node stands for the node itself, its id does not.
IsLocal(l) == call[l].target \in {Here, OwnName}

\* validate_bird_command
Allowlist(l) ==
    /\ pc[l] = "dispatch"
    /\ IsLocal(l)
    /\ \/ /\ call[l].command = "show"
          /\ pc' = [pc EXCEPT ![l] = "connect"]
          /\ UNCHANGED <<call, conn, out, reply>>
       \/ /\ call[l].command # "show"
          /\ Answer(l, FALSE, <<>>)
    /\ UNCHANGED <<loginVars, glassHistory>>

\* execute_bird_command: the node is looked up and called at its root, as
\* "here", with the cluster key and without a cookie.
Forward(q) ==
    /\ pc[Web(q)] = "dispatch"
    /\ ~IsLocal(Web(q))
    /\ pc' = [pc EXCEPT ![Web(q)] = "waiting", ![Far(q)] = "arrived"]
    /\ call' = [call EXCEPT ![Far(q)] =
         [node |-> call[Web(q)].target, path |-> "/", token |-> NoToken,
          command |-> call[Web(q)].command, target |-> Here]]
    /\ UNCHANGED <<loginVars, conn, out, reply, glassHistory>>

\* The answer of the other node is the answer.
TakeReply(q) ==
    /\ pc[Web(q)] = "waiting"
    /\ pc[Far(q)] = "done"
    /\ Answer(Web(q), reply[Far(q)].ok, reply[Far(q)].text)
    /\ UNCHANGED <<loginVars, glassHistory>>

-----------------------------------------------------------------------------
(* BirdSocket *)

Connect(l) ==
    /\ Step(l, "connect", "banner")
    /\ conn' = [conn EXCEPT ![l] =
         [asked |-> <<>>, wire |-> <<>>, greeted |-> FALSE, open |-> TRUE]]
    /\ UNCHANGED <<loginVars, call, out, reply, glassHistory>>

\* The next line: the first on the wire, or none when BIRD has hung up.
NextLine(l) ==
    IF conn[l].wire # <<>> THEN {Head(conn[l].wire)}
    ELSE IF conn[l].open THEN {} ELSE {"eof"}

Consumed(l) ==
    [conn EXCEPT ![l].wire = IF @ = <<>> THEN @ ELSE Tail(@)]

\* The welcome line must be one.
ReadBanner(l) ==
    /\ pc[l] = "banner"
    /\ \E line \in NextLine(l) :
         \/ /\ line = "banner"
            /\ pc' = [pc EXCEPT ![l] = "say_restrict"]
            /\ conn' = Consumed(l)
            /\ UNCHANGED <<call, out, reply>>
         \/ /\ line # "banner"
            /\ Answer(l, FALSE, <<>>)
    /\ UNCHANGED <<loginVars, glassHistory>>

\* Writing to a socket that BIRD has closed may still succeed.
Say(l, from, what, to) ==
    /\ Step(l, from, to)
    /\ conn' = [conn EXCEPT ![l].asked =
         IF conn[l].open THEN Append(@, what) ELSE @]
    /\ UNCHANGED <<loginVars, call, out, reply, glassHistory>>

\* Mutant: the answer to "restrict" is not waited for.
SayRestrictOnly(l) == Say(l, "say_restrict", "restrict", "say_command")

SayRestrict(l) == Say(l, "say_restrict", "restrict", "restricting")
SayCommand(l) == Say(l, "say_command", "command", "reading")

\* Mutant: a line with an error code is text.
MoreTextOrError(l) ==
    /\ pc[l] = "reading"
    /\ \E line \in NextLine(l) :
         /\ line \in Text \cup {"error"}
         /\ out' = [out EXCEPT ![l] = Append(@, line)]
    /\ conn' = Consumed(l)
    /\ UNCHANGED <<loginVars, pc, call, reply, glassHistory>>

\* read_response gathers text until a line with an end code; the end of the
\* stream ends it as well.
MoreText(l) ==
    /\ pc[l] = "reading"
    /\ \E line \in NextLine(l) :
         /\ line \in Text
         /\ out' = [out EXCEPT ![l] = Append(@, line)]
    /\ conn' = Consumed(l)
    /\ UNCHANGED <<loginVars, pc, call, reply, glassHistory>>

Restricted(l) ==
    /\ pc[l] = "restricting"
    /\ \E line \in NextLine(l) : line \in {"end", "eof"}
    /\ pc' = [pc EXCEPT ![l] = "say_command"]
    /\ conn' = Consumed(l)
    /\ UNCHANGED <<loginVars, call, out, reply, glassHistory>>

\* Mutant: the end of the stream is waited out.
EndOfTextOnly(l) ==
    /\ pc[l] = "reading"
    /\ \E line \in NextLine(l) : line = "end"
    /\ Answer(l, TRUE, out[l])
    /\ UNCHANGED <<loginVars, glassHistory>>

EndOfText(l) ==
    /\ pc[l] = "reading"
    /\ \E line \in NextLine(l) : line \in {"end", "eof"}
    /\ Answer(l, TRUE, out[l])
    /\ UNCHANGED <<loginVars, glassHistory>>

ErrorLine(l) ==
    /\ pc[l] = "reading"
    /\ \E line \in NextLine(l) : line = "error"
    /\ Answer(l, FALSE, <<>>)
    /\ UNCHANGED <<loginVars, glassHistory>>

HandlerStep(l) ==
    \/ ServeStatic(l) \/ CheckAuth(l) \/ Allowlist(l)
    \/ Connect(l) \/ ReadBanner(l) \/ SayRestrict(l) \/ SayCommand(l)
    \/ Restricted(l) \/ MoreText(l) \/ EndOfText(l) \/ ErrorLine(l)

-----------------------------------------------------------------------------
(* BIRD *)

Send(l, lines) == conn' = [conn EXCEPT ![l].wire = @ \o lines,
                                       ![l].asked = IF @ = <<>> THEN @
                                                    ELSE Tail(@)]

Greet(l) ==
    /\ conn[l] # NoConn /\ conn[l].open /\ ~conn[l].greeted
    /\ conn' = [conn EXCEPT ![l].wire = <<"banner">>, ![l].greeted = TRUE]
    /\ UNCHANGED <<loginVars, pc, call, out, reply, glassHistory>>

Oblige(l) ==
    /\ conn[l] # NoConn /\ conn[l].open /\ conn[l].asked # <<>>
    /\ Head(conn[l].asked) = "restrict"
    /\ Send(l, <<"end">>)
    /\ UNCHANGED <<loginVars, pc, call, out, reply, glassHistory>>

\* Some lines and an end, or an error.
Respond(l) ==
    /\ conn[l] # NoConn /\ conn[l].open /\ conn[l].asked # <<>>
    /\ Head(conn[l].asked) = "command"
    /\ \/ \E n \in 0 .. Len(Output) :
            said' = [said EXCEPT ![l] = Append(SubSeq(Output, 1, n), "end")]
       \/ said' = [said EXCEPT ![l] = <<"error">>]
    /\ Send(l, said'[l])
    /\ UNCHANGED <<loginVars, pc, call, out, reply, asker, checked, cut>>

BirdStep(l) == Greet(l) \/ Oblige(l) \/ Respond(l)

-----------------------------------------------------------------------------
(* What can fail *)

\* BIRD goes away; of what it has sent, some arrives.
HangUp(l) ==
    /\ conn[l] # NoConn /\ conn[l].open
    /\ \E n \in 0 .. Len(conn[l].wire) :
         conn' = [conn EXCEPT ![l].open = FALSE, ![l].asked = <<>>,
                              ![l].wire = SubSeq(@, 1, n)]
    /\ cut' = [cut EXCEPT ![l] = TRUE]
    /\ UNCHANGED <<loginVars, pc, call, out, reply, asker, checked, said>>

\* There is no such node in the table or no socket of BIRD, or a write to
\* the socket fails.
Fails(l) ==
    /\ \/ pc[l] = "dispatch" /\ ~IsLocal(l)
       \/ pc[l] = "connect"
       \/ pc[l] \in {"say_restrict", "say_command"} /\ ~conn[l].open
    /\ Answer(l, FALSE, <<>>)
    /\ UNCHANGED <<loginVars, glassHistory>>

\* The other node cannot be reached, or is not heard of for two seconds.
ForwardFails(q) ==
    /\ pc[Web(q)] = "waiting"
    /\ pc' = [pc EXCEPT ![Web(q)] = "done", ![Far(q)] = "idle"]
    /\ call' = [call EXCEPT ![Far(q)] = NoCall]
    /\ conn' = [conn EXCEPT ![Far(q)] = NoConn]
    /\ reply' = [reply EXCEPT ![Far(q)] = NoReply]
    /\ out' = [out EXCEPT ![Far(q)] = <<>>]
    /\ UNCHANGED <<loginVars, glassHistory>>

\* The browser goes away and the server drops its call.
Abandon(q) ==
    /\ pc[Web(q)] \notin {"idle", "done"}
    /\ Drop(LegsOf(q))
    /\ UNCHANGED <<loginVars, asker>>

\* Self is restarted, with all calls it has.
Restart ==
    /\ Forget
    /\ Drop(Leg)
    /\ UNCHANGED asker

Fault ==
    \/ Restart
    \/ \E l \in Leg : HangUp(l) \/ Fails(l)
    \/ \E q \in Query : ForwardFails(q) \/ Abandon(q)

-----------------------------------------------------------------------------
(* Specifications *)

Healthy ==
    \/ LoginStep /\ UNCHANGED glassVars
    \/ \E q \in Query : Ask(q) \/ Collect(q) \/ Forward(q) \/ TakeReply(q)
    \/ \E l \in Leg : HandlerStep(l) \/ BirdStep(l)

HealthySpec == Init /\ [][Healthy]_vars

\* Handlers run; BIRD answers what it is asked or hangs up.  Nobody has to
\* ask, and nothing has to fail.
Spec ==
    /\ Init
    /\ [][Healthy \/ Fault]_vars
    /\ \A l \in Leg :
         /\ WF_vars(HandlerStep(l))
         /\ WF_vars(BirdStep(l))
    /\ \A q \in Query : WF_vars(Forward(q) \/ TakeReply(q))

-----------------------------------------------------------------------------
(* Properties *)

TypeOK ==
    /\ LoginTypeOK
    /\ pc \in [Leg -> {"idle", "arrived", "dispatch", "waiting", "connect",
                       "banner", "say_restrict", "restricting", "say_command",
                       "reading", "done"}]
    /\ call \in [Leg -> Call \cup {NoCall}]
    /\ conn \in [Leg -> Conn \cup {NoConn}]
    /\ out \in [Leg -> Seq(Text)]
    /\ reply \in [Leg -> Reply]
    /\ asker \in [Query -> Browser]
    /\ checked \in [Leg -> Time]
    /\ said \in [Leg -> Seq(Line)]
    /\ cut \in [Leg -> BOOLEAN]

\* BIRD, of whichever node, is only ever spoken to for a browser that logged
\* in to this node since the secret was last made up, and not so long before
\* its call that the token had expired.
BirdIsGuarded ==
    \A q \in Query : \A l \in LegsOf(q) :
        conn[l] # NoConn =>
            LET b == asker[q] IN
            /\ call[l].command = "show"
            /\ entered[b] # 0
            /\ checked[Web(q)] <= (entered[b] - 1) + Lifetime + Leeway

\* An answer that is not an error is the whole of what BIRD said to this very
\* command, or the beginning of it when BIRD hung up.
AnswersAreWhole ==
    \A l \in Leg :
        (pc[l] = "done" /\ reply[l].ok /\ IsLocal(l)) =>
            \/ said[l] = Append(reply[l].text, "end")
            \/ cut[l] /\ IsPrefix(reply[l].text, said[l])

\* Every query is answered, with an error if need be.
EveryQueryEnds ==
    \A q \in Query : pc[Web(q)] = "arrived" ~> pc[Web(q)] \in {"idle", "done"}

-----------------------------------------------------------------------------
(* What the documents say and the code does not do *)

\* "Run BIRD commands and traceroute on any node of the cluster": where
\* nothing fails, the query of a user who is logged in for the output of an
\* allowed command on a node is not answered before the BIRD of that node
\* was asked.
RemoteQueryWorks ==
    \A q \in Query :
        (pc[Web(q)] = "waiting" /\ pc[Far(q)] = "done"
            /\ call[Web(q)].command = "show") => said[Far(q)] # <<>>

=============================================================================
