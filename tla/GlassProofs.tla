---------------------------- MODULE GlassProofs ----------------------------
(***************************************************************************)
(* What holds of the looking glass for any number of browsers, queries and *)
(* nodes.  Its steps are steps of Login or leave the logins alone, so that *)
(* the theorems on logins hold of it too.  That BIRD is only spoken to for *)
(* somebody who is logged in then follows one query from the cookie to the *)
(* socket (LegInv), and that an answer is whole one conversation with BIRD *)
(* from the welcome line to the last (TalkInv).                            *)
(***************************************************************************)
EXTENDS LookingGlass, LoginProofs, SequenceTheorems

USE GlassAssumption, GlassNilAssumption

Next == Healthy \/ Fault

\* Where a call has its connection to BIRD.
Talking == {"banner", "say_restrict", "restricting", "say_command", "reading"}
\* Where it has passed check_auth and is not answered.
Passed == Talking \cup {"dispatch", "waiting", "connect"}
Place == Passed \cup {"idle", "arrived", "done"}

GlassTypeOK ==
    /\ pc \in [Leg -> Place]
    /\ call \in [Leg -> Call \cup {NoCall}]
    /\ conn \in [Leg -> Conn \cup {NoConn}]
    /\ out \in [Leg -> Seq(Text)]
    /\ reply \in [Leg -> Reply]
    /\ asker \in [Query -> Browser]
    /\ checked \in [Leg -> Time]
    /\ said \in [Leg -> Seq(Line)]
    /\ cut \in [Leg -> BOOLEAN]

\* A call has a connection exactly while it talks, and a request unless its
\* slot is idle.
Equipped ==
    \A l \in Leg :
        /\ conn[l] # NoConn <=> pc[l] \in Talking
        /\ pc[l] # "idle" => call[l] # NoCall

\* What the token says of the browser b, if this node still signs like that.
Earned(token, b) ==
    token # NoToken =>
        /\ token.secret <= restarts
        /\ token.secret = secret =>
             /\ entered[b] # 0
             /\ token.exp <= (entered[b] - 1) + Lifetime

\* A call carries a cookie of its browser; past the check the cookie was good,
\* which that of a forwarded call is not, as it has none.
LegInv(l) ==
    LET b == asker[l[1]] IN
    /\ pc[l] # "idle" => Earned(call[l].token, b)
    /\ pc[l] # "idle" /\ l[2] = "far" => call[l].token = NoToken
    /\ pc[l] \in Passed =>
         /\ call[l].token # NoToken
         /\ entered[b] # 0
         /\ checked[l] <= (entered[b] - 1) + Lifetime + Leeway
    /\ pc[l] \in Talking \cup {"connect"} => call[l].command = "show"

JarInv ==
    /\ secret <= restarts
    /\ \A b \in Browser : entered[b] <= now + 1 /\ Earned(jar[b], b)

GuardInv == JarInv /\ \A l \in Leg : LegInv(l)

-----------------------------------------------------------------------------
(* The logins *)

LEMMA StepsOfLogin == [Next]_vars => [LoginStep \/ Forget]_loginVars
<1>. SUFFICES ASSUME [Next]_vars PROVE [LoginStep \/ Forget]_loginVars
  OBVIOUS
<1>1. CASE LoginStep /\ UNCHANGED glassVars
  BY <1>1
<1>2. CASE \E q \in Query : Ask(q) \/ Collect(q) \/ Forward(q) \/ TakeReply(q)
  BY <1>2 DEF Ask, Collect, Forward, TakeReply
<1>3. CASE \E l \in Leg : HandlerStep(l)
  BY <1>3 DEF HandlerStep, ServeStatic, CheckAuth, Allowlist, Connect,
     ReadBanner, SayRestrict, SayCommand, Say, Restricted, MoreText,
     EndOfText, ErrorLine
<1>4. CASE \E l \in Leg : BirdStep(l) \/ HangUp(l) \/ Fails(l)
  BY <1>4 DEF BirdStep, Greet, Oblige, Respond, HangUp, Fails
<1>5. CASE \E q \in Query : ForwardFails(q) \/ Abandon(q)
  BY <1>5 DEF ForwardFails, Abandon
<1>6. CASE Restart
  BY <1>6 DEF Restart
<1>7. CASE UNCHANGED vars
  BY <1>7 DEF vars
<1>. QED
  BY <1>1, <1>2, <1>3, <1>4, <1>5, <1>6, <1>7 DEF Next, Healthy, Fault

LEMMA InitOfLogin == Init => LoginInit
BY DEF Init

\* The looking glass implements Login: whatever is asked, the limiter and the
\* tokens go through what logging in alone allows.
THEOREM GlassIsLogin == Spec => LoginSpec
BY StepsOfLogin, InitOfLogin, PTL DEF Spec, LoginSpec, Next

-----------------------------------------------------------------------------
(* Typing *)

\* A forwarded call is waited for until its answer was taken.
Paired ==
    \A q \in Query : pc[Far(q)] # "idle" => pc[Web(q)] \in {"waiting", "done"}

Typed == GlassTypeOK /\ Equipped

LEMMA LegParts ==
    ASSUME NEW l \in Leg
    PROVE  l[1] \in Query /\ l[2] \in {"web", "far"} /\ l = <<l[1], l[2]>>
BY DEF Leg

LEMMA QueryLegs ==
    ASSUME NEW q \in Query
    PROVE  /\ Web(q) \in Leg /\ Web(q)[1] = q /\ Web(q)[2] = "web"
           /\ Far(q) \in Leg /\ Far(q)[1] = q /\ Far(q)[2] = "far"
           /\ Web(q) # Far(q)
BY DEF Leg, Web, Far

LEMMA OutputPrefix ==
    ASSUME NEW n \in 0 .. Len(Output) PROVE SubSeq(Output, 1, n) \in Seq(Text)
<1>. Output \in Seq(Text) /\ Len(Output) \in Nat
  BY GlassAssumption
<1>. QED
  OBVIOUS

LEMMA TextIsLines == \A t \in Seq(Text) : t \in Seq(Line)
<1>. Text \subseteq Line
  BY DEF Line
<1>. QED
  OBVIOUS

\* Only Forward lets a call wait, and only then is there another.
LEMMA PairedNext ==
    ASSUME Typed, Paired, [Next]_vars PROVE Paired'
<1>. pc \in [Leg -> Place]
  BY DEF Typed, GlassTypeOK
<1>1. ASSUME NEW l \in Leg, NEW to, pc' = [pc EXCEPT ![l] = to],
             pc[l] \notin {"idle", "waiting", "done"}
      PROVE  Paired'
  BY <1>1 DEF Paired, Web, Far, Leg
<1>2. CASE UNCHANGED glassVars
  BY <1>2 DEF Paired, glassVars, calls
<1>3. ASSUME NEW q \in Query, Ask(q) PROVE Paired'
  <2>1. pc' = [pc EXCEPT ![Web(q)] = "arrived"] /\ pc[Far(q)] = "idle"
    BY <1>3 DEF Ask, Step, Paired
  <2>. QED
    BY <2>1, QueryLegs DEF Paired, Web, Far, Leg
<1>4. ASSUME NEW q \in Query, Collect(q) \/ Abandon(q) PROVE Paired'
  <2>1. Drop(LegsOf(q))
    BY <1>4 DEF Collect, Abandon
  <2>. QED
    BY <2>1 DEF Drop, LegsOf, Paired, Web, Far, Leg
<1>5. ASSUME NEW q \in Query, Forward(q) PROVE Paired'
  BY <1>5, QueryLegs DEF Forward, Paired, Web, Far, Leg
<1>6. ASSUME NEW q \in Query, TakeReply(q) PROVE Paired'
  BY <1>6, QueryLegs DEF TakeReply, Answer, Paired, Web, Far, Leg
<1>7. ASSUME NEW q \in Query, ForwardFails(q) PROVE Paired'
  BY <1>7, QueryLegs DEF ForwardFails, Paired, Web, Far, Leg
<1>8. ASSUME NEW l \in Leg, HandlerStep(l) PROVE Paired'
  <2>1. CASE MoreText(l)
    BY <2>1 DEF MoreText, Paired
  <2>2. CASE ~MoreText(l)
    BY <1>1, <1>8, <2>2 DEF HandlerStep, ServeStatic, CheckAuth, Allowlist,
       Connect, ReadBanner, SayRestrict, SayCommand, Say, Step, Restricted,
       EndOfText, ErrorLine, Answer
  <2>. QED
    BY <2>1, <2>2
<1>9. ASSUME NEW l \in Leg, BirdStep(l) \/ HangUp(l) PROVE Paired'
  BY <1>9 DEF BirdStep, Greet, Oblige, Respond, HangUp, Paired
<1>10. ASSUME NEW l \in Leg, Fails(l) PROVE Paired'
  BY <1>1, <1>10 DEF Fails, Answer
<1>11. CASE Restart
  BY <1>11, QueryLegs DEF Restart, Drop, Paired
<1>. QED
  BY <1>2, <1>3, <1>4, <1>5, <1>6, <1>7, <1>8, <1>9, <1>10, <1>11
     DEF Next, Healthy, Fault, vars

LEMMA AnswerTyping ==
    ASSUME Typed, NEW l \in Leg, NEW ok \in BOOLEAN, NEW text \in Seq(Text),
           call[l] # NoCall, Answer(l, ok, text),
           UNCHANGED <<asker, checked, said, cut>>
    PROVE  Typed'
<1>1. GlassTypeOK'
  BY DEF Typed, GlassTypeOK, Answer, Reply, Place
<1>2. Equipped'
  BY DEF Typed, GlassTypeOK, Equipped, Answer, Talking
<1>. QED
  BY <1>1, <1>2 DEF Typed

LEMMA DropTyping ==
    ASSUME Typed, NEW legs, Drop(legs), UNCHANGED asker, LoginTypeOK
    PROVE  Typed'
<1>1. NoReply \in Reply /\ <<>> \in Seq(Text) /\ <<>> \in Seq(Line) /\ 0 \in Time
  <2>1. <<>> \in Seq(Text) /\ <<>> \in Seq(Line)
    OBVIOUS
  <2>2. 0 \in Time
    BY LoginBoundAssumption DEF Time
  <2>. QED
    BY <2>1, <2>2 DEF NoReply, Reply
<1>2. GlassTypeOK'
  <2>1. /\ pc' \in [Leg -> Place]
        /\ call' \in [Leg -> Call \cup {NoCall}]
        /\ conn' \in [Leg -> Conn \cup {NoConn}]
    BY DEF Typed, GlassTypeOK, Drop, Place
  <2>2. /\ out' \in [Leg -> Seq(Text)]
        /\ reply' \in [Leg -> Reply]
        /\ checked' \in [Leg -> Time]
    BY <1>1 DEF Typed, GlassTypeOK, Drop
  <2>3. /\ said' \in [Leg -> Seq(Line)]
        /\ cut' \in [Leg -> BOOLEAN]
    BY <1>1 DEF Typed, GlassTypeOK, Drop
  <2>. QED
    BY <2>1, <2>2, <2>3 DEF GlassTypeOK, Typed
<1>3. Equipped'
  BY DEF Typed, Equipped, Drop, Talking
<1>. QED
  BY <1>2, <1>3 DEF Typed

\* A step of the handler that neither answers nor talks to BIRD.
LEMMA MoveTyping ==
    ASSUME Typed, NEW l \in Leg, NEW to \in {"dispatch", "connect"},
           pc[l] \in {"arrived", "dispatch"}, pc' = [pc EXCEPT ![l] = to],
           NEW t \in Time, checked' = checked \/ checked' = [checked EXCEPT ![l] = t],
           UNCHANGED <<call, conn, out, reply, asker, said, cut>>
    PROVE  Typed'
<1>1. GlassTypeOK'
  BY DEF Typed, GlassTypeOK, Place, Passed
<1>2. Equipped'
  BY DEF Typed, GlassTypeOK, Equipped, Talking
<1>. QED
  BY <1>1, <1>2 DEF Typed

\* A call that has a connection goes on talking with it changed to c.
LEMMA TalkTyping ==
    ASSUME Typed, NEW l \in Leg, NEW to \in Talking, pc[l] \in Talking \cup {"connect"},
           pc' = [pc EXCEPT ![l] = to],
           NEW c \in Conn, conn' = [conn EXCEPT ![l] = c],
           NEW t \in Seq(Text), out' = out \/ out' = [out EXCEPT ![l] = t],
           NEW s \in Seq(Line), said' = said \/ said' = [said EXCEPT ![l] = s],
           cut' \in [Leg -> BOOLEAN],
           UNCHANGED <<call, reply, asker, checked>>
    PROVE  Typed'
<1>1. GlassTypeOK'
  <2>1. pc' \in [Leg -> Place]
    BY DEF Typed, GlassTypeOK, Place, Passed
  <2>2. conn' \in [Leg -> Conn \cup {NoConn}]
    BY DEF Typed, GlassTypeOK
  <2>3. out' \in [Leg -> Seq(Text)]
    BY DEF Typed, GlassTypeOK
  <2>4. said' \in [Leg -> Seq(Line)]
    BY DEF Typed, GlassTypeOK
  <2>. QED
    BY <2>1, <2>2, <2>3, <2>4 DEF Typed, GlassTypeOK
<1>2. Equipped'
  BY DEF Typed, GlassTypeOK, Equipped, Talking
<1>. QED
  BY <1>1, <1>2 DEF Typed

LEMMA HandlerTyping ==
    ASSUME Typed, LoginTypeOK, NEW l \in Leg, HandlerStep(l)
    PROVE  Typed'
<1>. /\ pc[l] \in Place /\ call[l] \in Call \cup {NoCall}
     /\ conn[l] \in Conn \cup {NoConn} /\ out[l] \in Seq(Text)
     /\ now \in Time
  BY DEF Typed, GlassTypeOK, LoginTypeOK
<1>. /\ conn[l] # NoConn <=> pc[l] \in Talking
     /\ pc[l] # "idle" => call[l] # NoCall
  BY DEF Typed, Equipped
<1>. <<>> \in Seq(Text) /\ <<>> \in Seq(Line) /\ cut \in [Leg -> BOOLEAN]
  BY DEF Typed, GlassTypeOK
<1>1. CASE ServeStatic(l)
  BY <1>1, AnswerTyping DEF ServeStatic, glassHistory
<1>2. CASE CheckAuth(l)
  BY <1>2, AnswerTyping, MoveTyping DEF CheckAuth
<1>3. CASE Allowlist(l)
  BY <1>3, AnswerTyping, MoveTyping DEF Allowlist, glassHistory
<1>4. CASE Connect(l)
  <2>1. [asked |-> <<>>, wire |-> <<>>, greeted |-> FALSE, open |-> TRUE] \in Conn
    BY DEF Conn
  <2>. QED
    BY <1>4, <2>1, TalkTyping DEF Connect, Step, Talking, glassHistory
<1>5. ASSUME conn[l] # NoConn
      PROVE  \E c \in Conn : Consumed(l) = [conn EXCEPT ![l] = c]
  <2>. DEFINE w == IF conn[l].wire = <<>> THEN conn[l].wire ELSE Tail(conn[l].wire)
              c == [conn[l] EXCEPT !.wire = w]
  <2>1. w \in Seq(Line)
    <3>1. conn[l].wire \in Seq(Line)
      BY <1>5 DEF Conn
    <3>. QED
      BY <3>1
  <2>2. c \in Conn
    <3>. HIDE DEF w
    <3>. QED
      BY <1>5, <2>1 DEF Conn
  <2>3. Consumed(l) = [conn EXCEPT ![l] = c]
    BY DEF Consumed
  <2>. QED
    BY <2>2, <2>3
<1>6. CASE ReadBanner(l)
  BY <1>6, <1>5, AnswerTyping, TalkTyping DEF ReadBanner, Talking, glassHistory
<1>7. CASE SayRestrict(l) \/ SayCommand(l)
  <2>1. PICK from \in {"say_restrict", "say_command"}, what \in {"restrict", "command"},
             to \in {"restricting", "reading"} : Say(l, from, what, to)
    BY <1>7 DEF SayRestrict, SayCommand
  <2>. DEFINE a == IF conn[l].open THEN Append(conn[l].asked, what) ELSE conn[l].asked
              c == [conn[l] EXCEPT !.asked = a]
  <2>2. conn[l] \in Conn
    BY <2>1 DEF Say, Step, Talking
  <2>3. a \in Seq({"restrict", "command"})
    <3>1. conn[l].asked \in Seq({"restrict", "command"})
      BY <2>2 DEF Conn
    <3>. QED
      BY <3>1
  <2>4. c \in Conn
    <3>. HIDE DEF a
    <3>. QED
      BY <2>2, <2>3 DEF Conn
  <2>5. conn' = [conn EXCEPT ![l] = c]
    BY <2>1 DEF Say
  <2>. QED
    BY <2>1, <2>4, <2>5, TalkTyping DEF Say, Step, Talking, glassHistory
<1>8. CASE Restricted(l)
  BY <1>8, <1>5, TalkTyping DEF Restricted, Talking, glassHistory
<1>9. CASE MoreText(l)
  <2>1. PICK line \in Text : out' = [out EXCEPT ![l] = Append(@, line)]
    BY <1>9 DEF MoreText
  <2>2. Append(out[l], line) \in Seq(Text)
    OBVIOUS
  <2>3. pc[l] = "reading" /\ pc' = [pc EXCEPT ![l] = "reading"]
    BY <1>9 DEF MoreText, Typed, GlassTypeOK
  <2>. QED
    BY <1>9, <1>5, <2>1, <2>2, <2>3, TalkTyping DEF MoreText, Talking, glassHistory
<1>10. CASE EndOfText(l)
  BY <1>10, AnswerTyping DEF EndOfText, glassHistory
<1>11. CASE ErrorLine(l)
  BY <1>11, AnswerTyping DEF ErrorLine, glassHistory
<1>. QED
  BY <1>1, <1>2, <1>3, <1>4, <1>6, <1>7, <1>8, <1>9, <1>10, <1>11
     DEF HandlerStep

LEMMA BirdTyping ==
    ASSUME Typed, NEW l \in Leg, BirdStep(l) \/ HangUp(l)
    PROVE  Typed'
<1>. /\ conn[l] \in Conn /\ pc[l] \in Talking
     /\ pc' = [pc EXCEPT ![l] = pc[l]]
  BY DEF Typed, GlassTypeOK, Equipped, BirdStep, Greet, Oblige, Respond, HangUp
<1>. DEFINE a == conn[l].asked
            w == conn[l].wire
<1>1. /\ a \in Seq({"restrict", "command"}) /\ w \in Seq(Line)
      /\ conn[l].greeted \in BOOLEAN /\ conn[l].open \in BOOLEAN
      /\ conn[l] = [asked |-> a, wire |-> w, greeted |-> conn[l].greeted,
                    open |-> conn[l].open]
  BY DEF Conn
<1>2. (IF a = <<>> THEN a ELSE Tail(a)) \in Seq({"restrict", "command"})
  BY <1>1
<1>3. /\ cut \in [Leg -> BOOLEAN] /\ out = out /\ said = said
      /\ <<>> \in Seq(Text) /\ <<>> \in Seq(Line)
      /\ <<>> \in Seq({"restrict", "command"})
  BY DEF Typed, GlassTypeOK
<1>. HIDE DEF a, w
<1>4. ASSUME NEW lines \in Seq(Line), Send(l, lines)
      PROVE  \E c \in Conn : conn' = [conn EXCEPT ![l] = c]
  <2>. DEFINE x == w \o lines
              y == IF a = <<>> THEN a ELSE Tail(a)
              c == [conn[l] EXCEPT !.wire = x, !.asked = y]
  <2>1. x \in Seq(Line) /\ y \in Seq({"restrict", "command"})
    BY <1>1, <1>2
  <2>2. c \in Conn
    <3>. HIDE DEF x, y
    <3>. QED
      BY <2>1 DEF Conn
  <2>3. conn' = [conn EXCEPT ![l] = c]
    BY <1>4 DEF Send, a, w
  <2>. QED
    BY <2>2, <2>3
<1>5. CASE Greet(l)
  <2>. DEFINE c == [conn[l] EXCEPT !.wire = <<"banner">>, !.greeted = TRUE]
  <2>1. <<"banner">> \in Seq(Line)
    BY DEF Line
  <2>2. c \in Conn
    BY <2>1 DEF Conn
  <2>3. conn' = [conn EXCEPT ![l] = c]
    BY <1>5 DEF Greet
  <2>. QED
    BY <1>3, <1>5, <2>2, <2>3, TalkTyping DEF Greet, glassHistory
<1>6. CASE Oblige(l)
  <2>1. <<"end">> \in Seq(Line)
    BY DEF Line
  <2>. QED
    BY <1>3, <1>4, <1>6, <2>1, TalkTyping DEF Oblige, glassHistory
<1>7. CASE Respond(l)
  <2>1. PICK s \in Seq(Line) : said' = [said EXCEPT ![l] = s]
    <3>1. CASE said' = [said EXCEPT ![l] = <<"error">>]
      <4>1. <<"error">> \in Seq(Line)
        BY DEF Line
      <4>. QED
        BY <3>1, <4>1
    <3>2. CASE \E n \in 0 .. Len(Output) :
            said' = [said EXCEPT ![l] = Append(SubSeq(Output, 1, n), "end")]
      <4>1. PICK n \in 0 .. Len(Output) :
              said' = [said EXCEPT ![l] = Append(SubSeq(Output, 1, n), "end")]
        BY <3>2
      <4>2. SubSeq(Output, 1, n) \in Seq(Line) /\ "end" \in Line
        BY OutputPrefix, TextIsLines DEF Line
      <4>3. Append(SubSeq(Output, 1, n), "end") \in Seq(Line)
        BY <4>2
      <4>. QED
        BY <4>1, <4>3
    <3>. QED
      BY <1>7, <3>1, <3>2 DEF Respond
  <2>2. said'[l] = s
    BY <2>1 DEF Typed, GlassTypeOK
  <2>3. PICK c \in Conn : conn' = [conn EXCEPT ![l] = c]
    BY <1>4, <1>7, <2>2 DEF Respond
  <2>. QED
    BY <1>3, <1>7, <2>1, <2>3, TalkTyping DEF Respond
<1>8. CASE HangUp(l)
  <2>1. PICK n \in 0 .. Len(w) :
          conn' = [conn EXCEPT ![l].open = FALSE, ![l].asked = <<>>,
                               ![l].wire = SubSeq(@, 1, n)]
    BY <1>8 DEF HangUp, w
  <2>. DEFINE x == SubSeq(w, 1, n)
              c == [conn[l] EXCEPT !.open = FALSE, !.asked = <<>>, !.wire = x]
  <2>2. x \in Seq(Line)
    <3>1. \A i \in 1 .. n : w[i] \in Line
      BY <1>1
    <3>. QED
      BY <1>1, <3>1
  <2>3. c \in Conn
    <3>. HIDE DEF x
    <3>. QED
      BY <1>3, <2>2 DEF Conn
  <2>4. conn' = [conn EXCEPT ![l] = c]
    BY <2>1 DEF w
  <2>5. cut' \in [Leg -> BOOLEAN]
    BY <1>3, <1>8 DEF HangUp
  <2>. QED
    BY <1>3, <1>8, <2>3, <2>4, <2>5, TalkTyping DEF HangUp
<1>. QED
  BY <1>5, <1>6, <1>7, <1>8 DEF BirdStep

LEMMA QueryTyping ==
    ASSUME Typed, Paired, LoginTypeOK, NEW q \in Query,
           \/ Ask(q) \/ Collect(q) \/ Forward(q) \/ TakeReply(q)
           \/ ForwardFails(q) \/ Abandon(q)
    PROVE  Typed'
<1>. /\ Web(q) \in Leg /\ Far(q) \in Leg /\ Web(q) # Far(q)
     /\ pc[Web(q)] # "idle" => call[Web(q)] # NoCall /\ call[Web(q)] \in Call
     /\ pc[Far(q)] # "idle" => call[Far(q)] # NoCall
  BY QueryLegs DEF Typed, GlassTypeOK, Equipped
<1>1. CASE Ask(q)
  <2>1. PICK b \in Browser, command \in Command, target \in Target :
          /\ asker' = [asker EXCEPT ![q] = b]
          /\ call' = [call EXCEPT ![Web(q)] =
               [node |-> Self, path |-> "/api", token |-> jar[b],
                command |-> command, target |-> target]]
    BY <1>1 DEF Ask
  <2>2. [node |-> Self, path |-> "/api", token |-> jar[b],
         command |-> command, target |-> target] \in Call
    BY DEF Call, LoginTypeOK
  <2>3. GlassTypeOK'
    BY <1>1, <2>1, <2>2 DEF Ask, Step, Typed, GlassTypeOK, Place
  <2>4. Equipped'
    BY <1>1, <2>1, <2>2 DEF Ask, Step, Typed, GlassTypeOK, Equipped, Talking
  <2>. QED
    BY <2>3, <2>4 DEF Typed
<1>2. CASE Collect(q) \/ Abandon(q)
  BY <1>2, DropTyping DEF Collect, Abandon
<1>3. CASE Forward(q)
  <2>1. [node |-> call[Web(q)].target, path |-> "/", token |-> NoToken,
         command |-> call[Web(q)].command, target |-> Here] \in Call
    BY <1>3 DEF Forward, IsLocal, Call, Target
  <2>2. GlassTypeOK'
    BY <1>3, <2>1 DEF Forward, Typed, GlassTypeOK, Place, Passed, glassHistory
  <2>3. Equipped'
    <3>1. pc[Far(q)] = "idle"
      BY <1>3 DEF Forward, Paired
    <3>. QED
      BY <1>3, <2>1, <3>1 DEF Forward, Typed, GlassTypeOK, Equipped, Talking
  <2>. QED
    BY <2>2, <2>3 DEF Typed
<1>4. CASE TakeReply(q)
  <2>1. reply[Far(q)].ok \in BOOLEAN /\ reply[Far(q)].text \in Seq(Text)
    BY DEF Typed, GlassTypeOK, Reply
  <2>. QED
    BY <1>4, <2>1, AnswerTyping DEF TakeReply, glassHistory
<1>5. CASE ForwardFails(q)
  <2>1. NoReply \in Reply /\ <<>> \in Seq(Text)
    BY DEF NoReply, Reply
  <2>2. GlassTypeOK'
    BY <1>5, <2>1 DEF ForwardFails, Typed, GlassTypeOK, Place, glassHistory
  <2>3. Equipped'
    BY <1>5 DEF ForwardFails, Typed, GlassTypeOK, Equipped, Talking
  <2>. QED
    BY <2>2, <2>3 DEF Typed
<1>. QED
  BY <1>1, <1>2, <1>3, <1>4, <1>5

LEMMA FailsTyping ==
    ASSUME Typed, NEW l \in Leg, Fails(l) PROVE Typed'
<1>1. call[l] # NoCall /\ <<>> \in Seq(Text)
  BY DEF Typed, Equipped, Fails
<1>. QED
  BY <1>1, AnswerTyping DEF Fails, glassHistory

LEMMA TypedNext ==
    ASSUME Typed, Paired, LoginTypeOK, [Next]_vars PROVE Typed'
<1>1. CASE UNCHANGED glassVars
  BY <1>1 DEF Typed, GlassTypeOK, Equipped, glassVars, calls, glassHistory
<1>2. CASE \E q \in Query : \/ Ask(q) \/ Collect(q) \/ Forward(q)
                            \/ TakeReply(q) \/ ForwardFails(q) \/ Abandon(q)
  BY <1>2, QueryTyping
<1>3. CASE \E l \in Leg : HandlerStep(l)
  BY <1>3, HandlerTyping
<1>4. CASE \E l \in Leg : BirdStep(l) \/ HangUp(l)
  BY <1>4, BirdTyping
<1>5. CASE \E l \in Leg : Fails(l)
  BY <1>5, FailsTyping
<1>6. CASE Restart
  BY <1>6, DropTyping DEF Restart
<1>. QED
  BY <1>1, <1>2, <1>3, <1>4, <1>5, <1>6 DEF Next, Healthy, Fault, vars

LEMMA TypedInit == Init => Typed /\ Paired
<1>. SUFFICES ASSUME Init PROVE Typed /\ Paired
  OBVIOUS
<1>1. /\ NoReply \in Reply /\ <<>> \in Seq(Text) /\ <<>> \in Seq(Line)
      /\ 0 \in Time
  <2>1. <<>> \in Seq(Text) /\ <<>> \in Seq(Line)
    OBVIOUS
  <2>. QED
    BY <2>1, LoginBoundAssumption DEF NoReply, Reply, Time
<1>2. GlassTypeOK
  BY <1>1 DEF Init, GlassTypeOK, Place
<1>3. Equipped
  BY DEF Init, Equipped, Talking
<1>4. Paired
  BY QueryLegs DEF Init, Paired
<1>. QED
  BY <1>2, <1>3, <1>4 DEF Typed

LEMMA TypedInvariant == Spec => [](LoginTypeOK /\ Typed /\ Paired)
<1>1. Spec => []LoginTypeOK
  BY GlassIsLogin, LoginTyping, PTL
<1>2. Typed /\ Paired /\ LoginTypeOK /\ [Next]_vars => Typed' /\ Paired'
  BY TypedNext, PairedNext
<1>. QED
  BY <1>1, <1>2, TypedInit, PTL DEF Spec, Next

\* Whatever is asked and whatever fails, states are well typed.
THEOREM GlassTyping == Spec => []TypeOK
<1>1. LoginTypeOK /\ Typed => TypeOK
  BY DEF Typed, GlassTypeOK, TypeOK, Place, Passed, Talking
<1>. QED
  BY <1>1, TypedInvariant, PTL
-----------------------------------------------------------------------------
(* The guard *)

\* Logins only ever renew what was earned, as long as the node runs.
Renewed ==
    /\ secret' = secret /\ restarts' = restarts
    /\ \A b \in Browser : entered[b] <= entered'[b]

LEMMA LoginRenews ==
    ASSUME LoginTypeOK, JarInv, LoginStep \/ UNCHANGED loginVars PROVE Renewed
<1>1. \A b \in Browser : entered[b] \in Nat
  BY LoginBoundAssumption DEF LoginTypeOK
<1>2. CASE \E b \in Browser : LogIn(b)
  <2>1. PICK b \in Browser : LogIn(b)
    BY <1>2
  <2>. QED
    BY <1>1, <2>1 DEF LogIn, Renewed, LoginTypeOK, JarInv
<1>3. CASE Tock \/ \E b \in Browser : Refuse(b) \/ WrongPassword(b) \/ LogOut(b)
  BY <1>1, <1>3 DEF Tock, Refuse, WrongPassword, LogOut, tokens, Renewed
<1>4. CASE UNCHANGED loginVars
  BY <1>1, <1>4 DEF loginVars, tokens, Renewed
<1>. QED
  BY <1>2, <1>3, <1>4 DEF LoginStep

LEMMA JarInvNext ==
    ASSUME LoginTypeOK, LoginTypeOK', JarInv, [LoginStep \/ Forget]_loginVars
    PROVE  JarInv'
<1>1. /\ now \in Nat /\ now' \in Nat /\ restarts \in Nat /\ secret \in Nat
      /\ \A b \in Browser : entered[b] \in Nat /\ entered'[b] \in Nat
      /\ \A b \in Browser : jar[b] = NoToken \/ jar[b] \in Token
  BY LoginBoundAssumption, TimeIsNat DEF LoginTypeOK
<1>2. CASE UNCHANGED loginVars
  BY <1>2 DEF JarInv, Earned, loginVars, tokens
<1>3. CASE Tock
  BY <1>1, <1>3 DEF Tock, JarInv, Earned, tokens
<1>4. CASE \E b \in Browser : Refuse(b) \/ WrongPassword(b)
  BY <1>4 DEF Refuse, WrongPassword, JarInv, Earned, tokens
<1>5. CASE \E b \in Browser : LogOut(b)
  BY <1>5 DEF LogOut, LoginTypeOK, JarInv, Earned
<1>6. CASE \E b \in Browser : LogIn(b)
  <2>1. PICK b \in Browser : LogIn(b)
    BY <1>6
  <2>2. /\ jar' = [jar EXCEPT ![b] = [secret |-> secret, exp |-> now + Lifetime]]
        /\ entered' = [entered EXCEPT ![b] = now + 1]
        /\ now' = now /\ secret' = secret /\ restarts' = restarts
    BY <2>1 DEF LogIn
  <2>3. ASSUME NEW c \in Browser PROVE entered'[c] <= now' + 1 /\ Earned(jar[c], c)'
    <3>1. CASE c = b
      <4>1. entered'[c] = now + 1
            /\ jar'[c] = [secret |-> secret, exp |-> now + Lifetime]
        BY <2>2, <3>1 DEF LoginTypeOK
      <4>2. jar'[c].secret = secret /\ jar'[c].exp = now + Lifetime
        BY <4>1
      <4>. QED
        BY <1>1, <2>2, <4>1, <4>2, PeriodAssumption DEF JarInv, Earned
    <3>2. CASE c # b
      <4>1. entered'[c] = entered[c] /\ jar'[c] = jar[c]
        BY <2>2, <3>2 DEF LoginTypeOK
      <4>. QED
        BY <1>1, <2>2, <4>1 DEF JarInv, Earned
    <3>. QED
      BY <3>1, <3>2
  <2>. QED
    BY <2>2, <2>3 DEF JarInv
<1>7. CASE Forget
  <2>1. CASE Configured
    BY <1>1, <1>7, <2>1 DEF Forget, JarInv, Earned, Token
  <2>2. CASE ~Configured
    <3>1. /\ restarts' = restarts + 1 /\ secret' = restarts + 1
          /\ now' = now /\ jar' = jar
          /\ \A b \in Browser : entered'[b] = 0
      BY <1>7, <2>2 DEF Forget
    <3>2. ASSUME NEW b \in Browser, jar[b] # NoToken
          PROVE  jar[b].secret \in Nat /\ jar[b].secret <= restarts
      BY <1>1, <3>2 DEF JarInv, Earned, Token
    <3>. QED
      BY <1>1, <3>1, <3>2 DEF JarInv, Earned
  <2>. QED
    BY <2>1, <2>2
<1>. QED
  BY <1>2, <1>3, <1>4, <1>5, <1>6, <1>7 DEF LoginStep

\* What a call may do without a new check.
Onward(l) ==
    \/ pc'[l] = pc[l]
    \/ pc'[l] = "idle"
    \/ pc'[l] = "done" /\ pc[l] # "idle"
    \/ pc'[l] = "waiting" /\ pc[l] = "dispatch"
    \/ pc'[l] = "connect" /\ pc[l] = "dispatch" /\ call[l].command = "show"
    \/ pc'[l] \in Talking /\ pc[l] \in Talking \cup {"connect"}

LEMMA EarnedKept ==
    ASSUME LoginTypeOK, LoginTypeOK', Renewed, NEW b \in Browser,
           NEW t \in Token \cup {NoToken}, Earned(t, b)
    PROVE  (t # NoToken =>
             /\ t.secret <= restarts'
             /\ t.secret = secret' =>
                  /\ entered'[b] # 0
                  /\ t.exp <= (entered'[b] - 1) + Lifetime)
<1>1. entered[b] \in Nat /\ entered'[b] \in Nat /\ entered[b] <= entered'[b]
  BY LoginBoundAssumption DEF LoginTypeOK, Renewed
<1>2. t # NoToken => t.exp \in Nat
  BY DEF Token
<1>. QED
  BY <1>1, <1>2, PeriodAssumption DEF Earned, Renewed

LEMMA LegKept ==
    ASSUME Typed, LoginTypeOK, LoginTypeOK', Renewed, NEW l \in Leg, LegInv(l),
           Onward(l), asker'[l[1]] = asker[l[1]],
           pc'[l] # "idle" => call'[l] = call[l] /\ checked'[l] = checked[l]
    PROVE  LegInv(l)'
<1>. DEFINE b == asker[l[1]]
<1>1. b \in Browser /\ l[1] \in Query
  BY LegParts DEF Typed, GlassTypeOK
<1>2. /\ entered[b] \in Nat /\ entered'[b] \in Nat /\ entered[b] <= entered'[b]
      /\ checked[l] \in Nat
  <2>1. checked[l] \in Time
    BY DEF Typed, GlassTypeOK
  <2>2. entered[b] \in 0 .. MaxTime + 1 /\ entered'[b] \in 0 .. MaxTime + 1
    BY <1>1 DEF LoginTypeOK
  <2>3. entered[b] <= entered'[b]
    BY <1>1 DEF Renewed
  <2>4. MaxTime \in Nat
    BY LoginBoundAssumption
  <2>5. checked[l] \in Nat
    BY <2>1, TimeIsNat
  <2>. HIDE DEF b
  <2>. QED
    BY <2>2, <2>3, <2>4, <2>5
<1>3. pc[l] # "idle" => call[l].token \in Token \cup {NoToken}
  BY DEF Typed, GlassTypeOK, Equipped, Call
<1>4. CASE pc'[l] = "idle"
  BY <1>4 DEF LegInv, Passed, Talking
<1>5. CASE pc'[l] # "idle"
  <2>1. pc[l] # "idle"
    BY <1>5 DEF Onward, Talking
  <2>2. Earned(call[l].token, b)'
    BY <1>1, <1>3, <1>5, <2>1, EarnedKept DEF LegInv, Earned
  <2>3. l[2] = "far" => call'[l].token = NoToken
    BY <1>5, <2>1 DEF LegInv
  <2>4. ASSUME pc'[l] \in Passed
        PROVE  /\ call'[l].token # NoToken
               /\ entered'[b] # 0
               /\ checked'[l] <= (entered'[b] - 1) + Lifetime + Leeway
    <3>1. pc[l] \in Passed
      BY <2>4 DEF Onward, Passed, Talking
    <3>2. /\ call[l].token # NoToken /\ entered[b] # 0
          /\ checked[l] <= (entered[b] - 1) + Lifetime + Leeway
      BY <3>1 DEF LegInv
    <3>3. call'[l] = call[l] /\ checked'[l] = checked[l]
      BY <1>5
    <3>4. Lifetime \in Nat /\ Leeway \in Nat
      BY PeriodAssumption
    <3>. HIDE DEF b
    <3>. QED
      BY <1>2, <3>2, <3>3, <3>4
  <2>5. ASSUME pc'[l] \in Talking \cup {"connect"} PROVE call'[l].command = "show"
    BY <1>5, <2>5 DEF Onward, LegInv, Talking
  <2>. QED
    BY <2>2, <2>3, <2>4, <2>5 DEF LegInv
<1>. QED
  BY <1>4, <1>5

LEMMA LegInvHandler ==
    ASSUME Typed, LoginTypeOK, LoginTypeOK', Renewed, \A k \in Leg : LegInv(k),
           NEW l \in Leg, HandlerStep(l) \/ BirdStep(l) \/ HangUp(l) \/ Fails(l)
    PROVE  \A k \in Leg : LegInv(k)'
<1>. pc \in [Leg -> Place] /\ checked \in [Leg -> Time]
  BY DEF Typed, GlassTypeOK
<1>. asker' = asker /\ call' = call /\ UNCHANGED loginVars
  BY DEF HandlerStep, ServeStatic, CheckAuth, Allowlist, Connect, ReadBanner,
     SayRestrict, SayCommand, Say, Restricted, MoreText, EndOfText, ErrorLine,
     Answer, BirdStep, Greet, Oblige, Respond, HangUp, Fails, glassHistory
<1>1. CASE ~CheckAuth(l)
  <2>1. checked' = checked
    BY <1>1 DEF HandlerStep, ServeStatic, Allowlist, Connect, ReadBanner,
       SayRestrict, SayCommand, Say, Restricted, MoreText, EndOfText,
       ErrorLine, BirdStep, Greet, Oblige, Respond, HangUp, Fails, glassHistory
  <2>2. Onward(l)
    BY <1>1 DEF HandlerStep, ServeStatic, Allowlist, Connect, ReadBanner,
       SayRestrict, SayCommand, Say, Step, Restricted, MoreText, EndOfText,
       ErrorLine, Answer, BirdStep, Greet, Oblige, Respond, HangUp, Fails,
       Onward, Talking
  <2>3. \A k \in Leg : k # l => pc'[k] = pc[k]
    BY <1>1 DEF HandlerStep, ServeStatic, Allowlist, Connect, ReadBanner,
       SayRestrict, SayCommand, Say, Step, Restricted, MoreText, EndOfText,
       ErrorLine, Answer, BirdStep, Greet, Oblige, Respond, HangUp, Fails
  <2>4. \A k \in Leg : Onward(k)
    BY <2>2, <2>3 DEF Onward
  <2>. QED
    BY <2>1, <2>4, LegKept
<1>2. CASE CheckAuth(l)
  <2>1. ASSUME NEW k \in Leg, k # l PROVE LegInv(k)'
    <3>1. pc'[k] = pc[k] /\ checked'[k] = checked[k]
      BY <1>2, <2>1 DEF CheckAuth, Answer
    <3>. QED
      BY <3>1, LegKept DEF Onward
  <2>2. CASE ~Valid(call[l].token)
    <3>1. Onward(l) /\ checked' = checked
      BY <1>2, <2>2 DEF CheckAuth, Answer, Onward
    <3>. QED
      BY <2>1, <3>1, LegKept
  <2>3. CASE Valid(call[l].token)
    <3>. DEFINE t == call[l].token
                b == asker[l[1]]
    <3>1. pc[l] = "arrived" /\ pc'[l] = "dispatch" /\ checked'[l] = now
      BY <1>2, <2>3 DEF CheckAuth
    <3>2. t # NoToken /\ t.secret = secret /\ now <= t.exp + Leeway
      BY <2>3 DEF Valid
    <3>3. Earned(t, b) /\ (l[2] = "far" => t = NoToken)
      BY <3>1 DEF LegInv
    <3>4. t.exp \in Nat /\ now \in Nat /\ b \in Browser
      BY <3>1, <3>2, TimeIsNat, LegParts
         DEF Typed, GlassTypeOK, Equipped, Call, Token, LoginTypeOK
    <3>5. entered[b] \in Nat
      BY <3>4, LoginBoundAssumption DEF LoginTypeOK
    <3>6. /\ entered[b] # 0
          /\ now <= (entered[b] - 1) + Lifetime + Leeway
      <4>1. Lifetime \in Nat /\ Leeway \in Nat
        BY PeriodAssumption
      <4>2. entered[b] # 0 /\ t.exp <= (entered[b] - 1) + Lifetime
        BY <3>2, <3>3 DEF Earned
      <4>. HIDE DEF b, t
      <4>. QED
        BY <3>2, <3>4, <3>5, <4>1, <4>2
    <3>7. entered' = entered /\ secret' = secret /\ restarts' = restarts
      BY DEF loginVars, tokens
    <3>8. LegInv(l)'
      BY <3>1, <3>2, <3>3, <3>6, <3>7 DEF LegInv, Earned, Talking
    <3>. QED
      BY <2>1, <3>8
  <2>. QED
    BY <2>2, <2>3
<1>. QED
  BY <1>1, <1>2

LEMMA LegInvQuery ==
    ASSUME Typed, Paired, JarInv, LoginTypeOK, LoginTypeOK', Renewed,
           \A k \in Leg : LegInv(k), NEW q \in Query,
           \/ Ask(q) \/ Collect(q) \/ Forward(q) \/ TakeReply(q)
           \/ ForwardFails(q) \/ Abandon(q)
    PROVE  \A k \in Leg : LegInv(k)'
<1>. /\ pc \in [Leg -> Place] /\ call \in [Leg -> Call \cup {NoCall}]
     /\ asker \in [Query -> Browser]
  BY DEF Typed, GlassTypeOK
<1>. /\ Web(q) \in Leg /\ Far(q) \in Leg /\ Web(q) # Far(q)
     /\ Web(q)[1] = q /\ Web(q)[2] = "web" /\ Far(q)[1] = q
  BY QueryLegs
<1>. UNCHANGED loginVars
  BY DEF Ask, Collect, Forward, TakeReply, ForwardFails, Abandon
<1>1. ASSUME Ask(q), NEW k \in Leg PROVE LegInv(k)'
  <2>1. PICK b \in Browser, command \in Command, target \in Target :
          /\ asker' = [asker EXCEPT ![q] = b]
          /\ call' = [call EXCEPT ![Web(q)] =
               [node |-> Self, path |-> "/api", token |-> jar[b],
                command |-> command, target |-> target]]
    BY <1>1 DEF Ask
  <2>2. pc' = [pc EXCEPT ![Web(q)] = "arrived"] /\ pc[Far(q)] = "idle"
        /\ checked' = checked
    BY <1>1 DEF Ask, Step, Paired
  <2>3. CASE k = Web(q)
    <3>1. pc'[k] = "arrived" /\ call'[k].token = jar[b] /\ asker'[k[1]] = b
      BY <2>1, <2>2, <2>3
    <3>2. Earned(jar[b], b)
      BY DEF JarInv
    <3>3. entered' = entered /\ secret' = secret /\ restarts' = restarts
      BY DEF loginVars, tokens
    <3>. QED
      BY <2>3, <3>1, <3>2, <3>3 DEF LegInv, Earned, Passed, Talking
  <2>4. CASE k = Far(q)
    <3>1. pc'[k] = "idle"
      BY <2>2, <2>4
    <3>. QED
      BY <3>1 DEF LegInv, Passed, Talking
  <2>5. CASE k # Web(q) /\ k # Far(q)
    <3>1. k[1] # q /\ k[1] \in Query
      BY <2>5, LegParts DEF Web, Far
    <3>2. pc'[k] = pc[k] /\ call'[k] = call[k] /\ asker'[k[1]] = asker[k[1]]
      BY <2>1, <2>2, <2>5, <3>1
    <3>. QED
      BY <2>2, <3>2, LegKept DEF Onward
  <2>. QED
    BY <2>3, <2>4, <2>5
<1>2. ASSUME Collect(q) \/ Abandon(q), NEW k \in Leg PROVE LegInv(k)'
  <2>1. Drop(LegsOf(q)) /\ asker' = asker
    BY <1>2 DEF Collect, Abandon
  <2>2. /\ pc'[k] = IF k \in LegsOf(q) THEN "idle" ELSE pc[k]
        /\ call'[k] = IF k \in LegsOf(q) THEN NoCall ELSE call[k]
        /\ checked'[k] = IF k \in LegsOf(q) THEN 0 ELSE checked[k]
    BY <2>1 DEF Drop
  <2>. QED
    BY <2>1, <2>2, LegKept DEF Onward
<1>3. ASSUME Forward(q), NEW k \in Leg PROVE LegInv(k)'
  <2>1. /\ pc' = [pc EXCEPT ![Web(q)] = "waiting", ![Far(q)] = "arrived"]
        /\ call' = [call EXCEPT ![Far(q)] =
             [node |-> call[Web(q)].target, path |-> "/", token |-> NoToken,
              command |-> call[Web(q)].command, target |-> Here]]
        /\ pc[Web(q)] = "dispatch" /\ asker' = asker /\ checked' = checked
    BY <1>3 DEF Forward, glassHistory
  <2>2. CASE k = Far(q)
    <3>1. pc'[k] = "arrived" /\ call'[k].token = NoToken
      BY <2>1, <2>2
    <3>. QED
      BY <3>1 DEF LegInv, Earned, Passed, Talking
  <2>3. CASE k # Far(q)
    BY <2>1, <2>3, LegKept DEF Onward
  <2>. QED
    BY <2>2, <2>3
<1>4. ASSUME TakeReply(q), NEW k \in Leg PROVE LegInv(k)'
  <2>1. /\ pc' = [pc EXCEPT ![Web(q)] = "done"] /\ pc[Web(q)] = "waiting"
        /\ call' = call /\ asker' = asker /\ checked' = checked
    BY <1>4 DEF TakeReply, Answer, glassHistory
  <2>. QED
    BY <2>1, LegKept DEF Onward
<1>5. ASSUME ForwardFails(q), NEW k \in Leg PROVE LegInv(k)'
  <2>1. /\ pc' = [pc EXCEPT ![Web(q)] = "done", ![Far(q)] = "idle"]
        /\ pc[Web(q)] = "waiting"
        /\ call' = [call EXCEPT ![Far(q)] = NoCall]
        /\ asker' = asker /\ checked' = checked
    BY <1>5 DEF ForwardFails, glassHistory
  <2>. QED
    BY <2>1, LegKept DEF Onward
<1>. QED
  BY <1>1, <1>2, <1>3, <1>4, <1>5

LEMMA GuardNext ==
    ASSUME Typed, Paired, LoginTypeOK, LoginTypeOK', GuardInv, [Next]_vars
    PROVE  GuardInv'
<1>1. JarInv'
  BY JarInvNext, StepsOfLogin DEF GuardInv
<1>2. ASSUME LoginStep \/ UNCHANGED loginVars PROVE Renewed
  BY <1>2, LoginRenews DEF GuardInv
<1>3. CASE UNCHANGED glassVars /\ (LoginStep \/ UNCHANGED loginVars)
  <2>1. \A k \in Leg : /\ Onward(k) /\ call'[k] = call[k]
                       /\ checked'[k] = checked[k]
                       /\ asker'[k[1]] = asker[k[1]]
    BY <1>3 DEF Onward, glassVars, calls, glassHistory
  <2>. QED
    BY <1>1, <1>2, <1>3, <2>1, LegKept DEF GuardInv
<1>4. CASE \E q \in Query : \/ Ask(q) \/ Collect(q) \/ Forward(q)
                            \/ TakeReply(q) \/ ForwardFails(q) \/ Abandon(q)
  <2>1. UNCHANGED loginVars
    BY <1>4 DEF Ask, Collect, Forward, TakeReply, ForwardFails, Abandon
  <2>. QED
    BY <1>1, <1>2, <1>4, <2>1, LegInvQuery DEF GuardInv
<1>5. CASE \E l \in Leg : HandlerStep(l) \/ BirdStep(l) \/ HangUp(l) \/ Fails(l)
  <2>1. UNCHANGED loginVars
    BY <1>5 DEF HandlerStep, ServeStatic, CheckAuth, Allowlist, Connect,
       ReadBanner, SayRestrict, SayCommand, Say, Restricted, MoreText,
       EndOfText, ErrorLine, BirdStep, Greet, Oblige, Respond, HangUp, Fails
  <2>. QED
    BY <1>1, <1>2, <1>5, <2>1, LegInvHandler DEF GuardInv
<1>6. CASE Restart
  <2>1. \A k \in Leg : pc'[k] = "idle"
    BY <1>6 DEF Restart, Drop
  <2>2. \A k \in Leg : LegInv(k)'
    BY <2>1 DEF LegInv, Passed, Talking
  <2>. QED
    BY <1>1, <2>2 DEF GuardInv
<1>. QED
  BY <1>3, <1>4, <1>5, <1>6 DEF Next, Healthy, Fault, vars

LEMMA GuardInit == Init => GuardInv
<1>. SUFFICES ASSUME Init PROVE GuardInv
  OBVIOUS
<1>1. JarInv
  BY DEF Init, LoginInit, JarInv, Earned
<1>2. \A l \in Leg : LegInv(l)
  BY DEF Init, LegInv, Passed, Talking
<1>. QED
  BY <1>1, <1>2 DEF GuardInv

LEMMA GuardHolds == Typed /\ GuardInv => BirdIsGuarded
<1>. SUFFICES ASSUME Typed, GuardInv, NEW q \in Query, NEW l \in LegsOf(q),
                     conn[l] # NoConn
              PROVE  /\ call[l].command = "show"
                     /\ entered[asker[q]] # 0
                     /\ checked[Web(q)] <= (entered[asker[q]] - 1) + Lifetime + Leeway
  BY DEF BirdIsGuarded
<1>1. l \in Leg /\ l[1] = q /\ (l = Web(q) \/ l[2] = "far")
  BY QueryLegs DEF LegsOf
<1>2. pc[l] \in Talking
  BY <1>1 DEF Typed, Equipped
<1>3. LegInv(l)
  BY <1>1 DEF GuardInv
<1>4. pc[l] \in Passed /\ pc[l] # "idle"
  BY <1>2 DEF Passed, Talking
<1>5. l = Web(q)
  BY <1>1, <1>3, <1>4 DEF LegInv
<1>. QED
  BY <1>1, <1>2, <1>3, <1>4, <1>5 DEF LegInv

\* BIRD is spoken to only for somebody who logged in, recently enough, since
\* the secret was made up; a forwarded call, having no cookie, never gets
\* that far, wherever it is routed.
THEOREM BirdIsAlwaysGuarded == Spec => []BirdIsGuarded
<1>1. Typed /\ Paired /\ LoginTypeOK /\ LoginTypeOK' /\ GuardInv /\ [Next]_vars
        => GuardInv'
  BY GuardNext
<1>. QED
  BY TypedInvariant, <1>1, GuardInit, GuardHolds, PTL DEF Spec, Next

\* Also where logins are used, guessing is slow ...
THEOREM GlassGuessingIsSlow == Spec => []FewGuesses
BY GlassIsLogin, GuessingIsSlow, PTL

\* ... and a refusal says when to come back.
THEOREM GlassRefusalsAreFair == Spec => PromiseKept
BY GlassIsLogin, RefusalsAreFair

-----------------------------------------------------------------------------
(* Whole answers *)

\* Of what BIRD said, text was read and lines are still on the wire.
Carries(text, lines, all) ==
    /\ Len(text) + Len(lines) <= Len(all)
    /\ \A i \in 1 .. Len(text) : text[i] = all[i]
    /\ \A i \in 1 .. Len(lines) : lines[i] = all[Len(text) + i]

OnlyLastEnds(lines) == \A i \in 1 .. Len(lines) - 1 : lines[i] # "end"

\* BIRD answers in turn: as long as the command was not sent there is nothing
\* of an answer to it, and from then on nothing else.  (Of a call at place with
\* connection c, text read, all that was said to it and x, whether it is cut.)
Talks(place, c, text, all, x) ==
    /\ c.open <=> ~x
    /\ x => c.asked = <<>>
    /\ place # "reading" => all = <<>> /\ text = <<>>
    /\ place = "banner" => c.asked = <<>> /\ c.wire \in {<<>>, <<"banner">>}
    /\ place # "banner" \/ c.wire # <<>> => c.greeted
    /\ place \in {"say_restrict", "say_command"} => c.asked = <<>> /\ c.wire = <<>>
    /\ place = "restricting" =>
         \/ c.asked = <<"restrict">> /\ c.wire = <<>>
         \/ c.asked = <<>> /\ c.wire \in {<<>>, <<"end">>}
    /\ place = "reading" =>
         /\ \/ c.asked = <<"command">> /\ c.wire = <<>> /\ all = <<>>
            \/ c.asked = <<>>
         /\ Carries(text, c.wire, all) /\ OnlyLastEnds(c.wire)
         /\ x \/ Len(text) + Len(c.wire) = Len(all)

TalkInv(l) == Talks(pc[l], conn[l], out[l], said[l], cut[l])

\* A call has not been answered by BIRD.
Silent(l) == said[l] = <<>> /\ ~cut[l] /\ out[l] = <<>>

\* The answer of a call is whole.
Whole(l) ==
    \/ said[l] = Append(reply[l].text, "end")
    \/ cut[l] /\ IsPrefix(reply[l].text, said[l])

\* A forwarded call is never answered by BIRD and the answer of one that was
\* forwarded is not our own.
WholeInv(l) ==
    /\ pc[l] \in Talking => TalkInv(l)
    /\ pc[l] \in Place \ (Talking \cup {"done"}) => Silent(l)
    /\ pc[l] = "waiting" => ~IsLocal(l)
    /\ l[2] = "far" => Silent(l) /\ ~reply[l].ok
    /\ pc[l] = "done" /\ reply[l].ok /\ IsLocal(l) => Whole(l)

LEMMA CarriesNothing == Carries(<<>>, <<>>, <<>>) /\ OnlyLastEnds(<<>>)
BY DEF Carries, OnlyLastEnds

LEMMA CarriesAll ==
    ASSUME NEW lines \in Seq(Line)
    PROVE  Carries(<<>>, lines, lines) /\ Len(<<>>) + Len(lines) = Len(lines)
<1>. Len(lines) \in Nat /\ Len(<<>>) = 0
  OBVIOUS
<1>. QED
  BY DEF Carries

LEMMA CarriesRead ==
    ASSUME NEW text \in Seq(Line), NEW lines \in Seq(Line), NEW all \in Seq(Line),
           lines # <<>>, Carries(text, lines, all), OnlyLastEnds(lines)
    PROVE  /\ Carries(Append(text, Head(lines)), Tail(lines), all)
           /\ OnlyLastEnds(Tail(lines))
           /\ Len(Append(text, Head(lines))) + Len(Tail(lines))
                = Len(text) + Len(lines)
<1>. DEFINE t == Append(text, Head(lines))
            r == Tail(lines)
<1>1. Len(text) \in Nat /\ Len(lines) \in Nat /\ Len(lines) >= 1 /\ Len(all) \in Nat
  OBVIOUS
<1>2. /\ Len(t) = Len(text) + 1 /\ t[Len(text) + 1] = lines[1]
      /\ \A i \in 1 .. Len(text) : t[i] = text[i]
  OBVIOUS
<1>3. /\ Len(r) = Len(lines) - 1
      /\ \A i \in 1 .. Len(lines) - 1 : r[i] = lines[i + 1]
  OBVIOUS
<1>. HIDE DEF t, r
<1>4. Len(t) + Len(r) = Len(text) + Len(lines)
  BY <1>1, <1>2, <1>3
<1>5. ASSUME NEW i \in 1 .. Len(t) PROVE t[i] = all[i]
  <2>1. CASE i = Len(text) + 1
    <3>1. 1 \in 1 .. Len(lines)
      BY <1>1
    <3>. QED
      BY <1>2, <2>1, <3>1 DEF Carries
  <2>2. CASE i # Len(text) + 1
    <3>1. i \in 1 .. Len(text)
      BY <1>1, <1>2, <2>2
    <3>. QED
      BY <1>2, <3>1 DEF Carries
  <2>. QED
    BY <2>1, <2>2
<1>6. ASSUME NEW i \in 1 .. Len(r) PROVE r[i] = all[Len(t) + i]
  <2>1. /\ i + 1 \in 1 .. Len(lines) /\ Len(text) + (i + 1) = Len(t) + i
        /\ i \in 1 .. Len(lines) - 1
    BY <1>1, <1>2, <1>3
  <2>2. lines[i + 1] = all[Len(text) + (i + 1)]
    BY <2>1 DEF Carries
  <2>. QED
    BY <1>3, <2>1, <2>2
<1>7. OnlyLastEnds(r)
  <2>. SUFFICES ASSUME NEW i \in 1 .. Len(r) - 1 PROVE r[i] # "end"
    BY DEF OnlyLastEnds
  <2>1. i + 1 \in 1 .. Len(lines) - 1 /\ i \in 1 .. Len(lines) - 1
    BY <1>1, <1>3
  <2>. QED
    BY <1>3, <2>1 DEF OnlyLastEnds
<1>8. Len(t) + Len(r) <= Len(all)
  BY <1>4 DEF Carries
<1>9. Carries(t, r, all)
  BY <1>5, <1>6, <1>8 DEF Carries
<1>. QED
  BY <1>4, <1>7, <1>9 DEF t, r

LEMMA CarriesCut ==
    ASSUME NEW text \in Seq(Line), NEW lines \in Seq(Line), NEW all \in Seq(Line),
           Carries(text, lines, all), OnlyLastEnds(lines), NEW n \in 0 .. Len(lines)
    PROVE  Carries(text, SubSeq(lines, 1, n), all) /\ OnlyLastEnds(SubSeq(lines, 1, n))
<1>. DEFINE c == SubSeq(lines, 1, n)
<1>1. Len(text) \in Nat /\ Len(lines) \in Nat /\ Len(all) \in Nat
  OBVIOUS
<1>2. Len(c) = n /\ \A i \in 1 .. n : c[i] = lines[i]
  BY <1>1
<1>. HIDE DEF c
<1>3. /\ n \in Nat /\ n <= Len(lines)
      /\ \A i \in 1 .. n : i \in 1 .. Len(lines)
      /\ \A i \in 1 .. n - 1 : i \in 1 .. Len(lines) - 1 /\ i \in 1 .. n
  BY <1>1
<1>4. Carries(text, c, all)
  <2>1. Len(text) + Len(c) <= Len(all)
    BY <1>1, <1>2, <1>3 DEF Carries
  <2>. QED
    BY <1>2, <1>3, <2>1 DEF Carries
<1>5. OnlyLastEnds(c)
  BY <1>2, <1>3 DEF OnlyLastEnds
<1>. QED
  BY <1>4, <1>5 DEF c

\* All of an answer was read when its end comes.
LEMMA CarriesEnd ==
    ASSUME NEW text \in Seq(Line), NEW lines \in Seq(Line), NEW all \in Seq(Line),
           lines # <<>>, Head(lines) = "end",
           Carries(text, lines, all), OnlyLastEnds(lines),
           Len(text) + Len(lines) = Len(all)
    PROVE  all = Append(text, "end")
<1>1. /\ Len(text) \in Nat /\ Len(lines) \in Nat /\ Len(lines) >= 1
      /\ Len(all) \in Nat /\ lines[1] = "end"
  OBVIOUS
<1>2. Len(lines) = 1
  <2>1. ASSUME Len(lines) # 1 PROVE FALSE
    <3>1. \A n \in Nat : n >= 1 /\ n # 1 => 1 \in 1 .. n - 1
      OBVIOUS
    <3>2. 1 \in 1 .. Len(lines) - 1
      BY <1>1, <2>1, <3>1
    <3>. QED
      BY <1>1, <3>2 DEF OnlyLastEnds
  <2>. QED
    BY <2>1
<1>3. Len(all) = Len(text) + 1 /\ all[Len(text) + 1] = "end"
  <2>1. 1 \in 1 .. Len(lines)
    BY <1>1
  <2>. QED
    BY <1>1, <1>2, <2>1 DEF Carries
<1>. DEFINE t == Append(text, "end")
<1>4. /\ t \in Seq(Line) /\ Len(t) = Len(text) + 1 /\ t[Len(text) + 1] = "end"
      /\ \A i \in 1 .. Len(text) : t[i] = text[i]
  <2>. "end" \in Line
    BY DEF Line
  <2>. QED
    OBVIOUS
<1>. HIDE DEF t
<1>5. ASSUME NEW i \in 1 .. Len(all) PROVE all[i] = t[i]
  <2>1. i = Len(text) + 1 \/ i \in 1 .. Len(text)
    BY <1>1, <1>3
  <2>. QED
    BY <1>3, <1>4, <2>1 DEF Carries
<1>6. all = t
  BY <1>3, <1>4, <1>5, SeqEqual
<1>. QED
  BY <1>6 DEF t

LEMMA CarriesStart ==
    ASSUME NEW text \in Seq(Line), NEW lines \in Seq(Line), NEW all \in Seq(Line),
           Carries(text, lines, all)
    PROVE  IsPrefix(text, all)
<1>1. Len(text) \in Nat /\ Len(lines) \in Nat /\ Len(all) \in Nat
      /\ Len(text) <= Len(all)
  BY DEF Carries
<1>. DEFINE t == SubSeq(text, 1, Len(text))
            a == SubSeq(all, 1, Len(text))
<1>2. /\ t \in Seq(Line) /\ Len(t) = Len(text)
      /\ \A i \in 1 .. Len(text) : t[i] = text[i]
  BY <1>1
<1>3. /\ a \in Seq(Line) /\ Len(a) = Len(text)
      /\ \A i \in 1 .. Len(text) : a[i] = all[i]
  BY <1>1
<1>. HIDE DEF t, a
<1>4. \A i \in 1 .. Len(t) : t[i] = a[i]
  BY <1>2, <1>3 DEF Carries
<1>5. t = a
  BY <1>2, <1>3, <1>4, SeqEqual
<1>. QED
  BY <1>1, <1>5 DEF IsPrefix, t, a

\* What WholeInv says of l depends on these only.
Untouched(l) ==
    /\ pc'[l] = pc[l] /\ call'[l] = call[l] /\ conn'[l] = conn[l]
    /\ out'[l] = out[l] /\ reply'[l] = reply[l] /\ said'[l] = said[l]
    /\ cut'[l] = cut[l]

LEMMA WholeUntouched ==
    ASSUME NEW l \in Leg, WholeInv(l), Untouched(l) PROVE WholeInv(l)'
BY DEF Untouched, WholeInv, TalkInv, Talks, Silent, Whole, IsLocal

LEMMA WholeAnswered ==
    ASSUME Typed, NEW l \in Leg, WholeInv(l), NEW ok, NEW text, Answer(l, ok, text),
           said' = said, cut' = cut, l[2] = "far" => ok = FALSE,
           ok /\ IsLocal(l) =>
             said[l] = Append(text, "end") \/ (cut[l] /\ IsPrefix(text, said[l]))
    PROVE  WholeInv(l)'
<1>1. /\ pc'[l] = "done" /\ reply'[l] = [ok |-> ok, text |-> text]
      /\ call' = call /\ out' = out
  BY DEF Typed, GlassTypeOK, Answer
<1>2. reply'[l].ok = ok /\ reply'[l].text = text
  BY <1>1
<1>3. IsLocal(l)' <=> IsLocal(l)
  BY <1>1 DEF IsLocal
<1>4. l[2] = "far" => Silent(l)'
  BY <1>1 DEF WholeInv, Silent
<1>5. ok /\ IsLocal(l) => Whole(l)'
  BY <1>2 DEF Whole
<1>. QED
  BY <1>1, <1>2, <1>3, <1>4, <1>5 DEF WholeInv, Talking

\* A call that goes on talking.
LEMMA WholeTalking ==
    ASSUME NEW l \in Leg, WholeInv(l), l[2] # "far", pc'[l] \in Talking, TalkInv(l)'
    PROVE  WholeInv(l)'
BY DEF WholeInv, Talking

\* What a step does to the connection of l.
LEMMA ConsumedParts ==
    ASSUME Typed, NEW l \in Leg, conn[l] # NoConn, conn' = Consumed(l)
    PROVE  /\ conn'[l].asked = conn[l].asked /\ conn'[l].open = conn[l].open
           /\ conn'[l].greeted = conn[l].greeted
           /\ conn[l].wire = <<>> => conn'[l].wire = <<>>
           /\ conn[l].wire # <<>> => conn'[l].wire = Tail(conn[l].wire)
           /\ \A k \in Leg : k # l => conn'[k] = conn[k]
<1>1. conn \in [Leg -> Conn \cup {NoConn}] /\ conn[l] \in Conn
  BY DEF Typed, GlassTypeOK
<1>. DEFINE w == IF conn[l].wire = <<>> THEN conn[l].wire ELSE Tail(conn[l].wire)
            c == [conn[l] EXCEPT !.wire = w]
<1>2. conn' = [conn EXCEPT ![l] = c]
  BY DEF Consumed
<1>3. conn'[l] = c /\ \A k \in Leg : k # l => conn'[k] = conn[k]
  <2>. HIDE DEF c
  <2>. QED
    BY <1>1, <1>2
<1>4. /\ c.asked = conn[l].asked /\ c.open = conn[l].open
      /\ c.greeted = conn[l].greeted /\ c.wire = w
  <2>. HIDE DEF w
  <2>. QED
    BY <1>1 DEF Conn
<1>. HIDE DEF c
<1>. QED
  BY <1>3, <1>4

LEMMA ConsumedLine ==
    ASSUME Typed, NEW l \in Leg, conn[l] # NoConn, conn' = Consumed(l),
           NEW line, conn[l].wire = <<>> \/ conn[l].wire = <<line>>
    PROVE  /\ conn'[l].asked = conn[l].asked /\ conn'[l].open = conn[l].open
           /\ conn'[l].greeted = conn[l].greeted /\ conn'[l].wire = <<>>
<1>1. Tail(<<line>>) = <<>> /\ <<line>> # <<>>
  OBVIOUS
<1>2. /\ conn'[l].asked = conn[l].asked /\ conn'[l].open = conn[l].open
      /\ conn'[l].greeted = conn[l].greeted
      /\ conn[l].wire = <<>> => conn'[l].wire = <<>>
      /\ conn[l].wire # <<>> => conn'[l].wire = Tail(conn[l].wire)
  BY ConsumedParts
<1>. QED
  BY <1>1, <1>2

LEMMA TalkParts ==
    ASSUME Typed, NEW l \in Leg, pc[l] \in Talking
    PROVE  /\ conn[l] # NoConn /\ conn[l] \in Conn
           /\ conn[l].asked \in Seq({"restrict", "command"})
           /\ conn[l].wire \in Seq(Line)
           /\ conn[l].greeted \in BOOLEAN /\ conn[l].open \in BOOLEAN
           /\ out[l] \in Seq(Text) /\ out[l] \in Seq(Line) /\ said[l] \in Seq(Line)
           /\ cut[l] \in BOOLEAN
<1>1. conn[l] # NoConn
  BY DEF Typed, Equipped
<1>2. conn[l] \in Conn /\ out[l] \in Seq(Text) /\ said[l] \in Seq(Line)
      /\ cut[l] \in BOOLEAN
  BY <1>1 DEF Typed, GlassTypeOK
<1>3. out[l] \in Seq(Line)
  BY <1>2, TextIsLines
<1>. QED
  BY <1>1, <1>2, <1>3 DEF Conn

LEMMA FarIsQuiet ==
    ASSUME NEW l \in Leg, LegInv(l), pc[l] \in Passed PROVE l[2] # "far"
BY DEF LegInv, Passed, Talking

\* The lines that a call may read next.
LEMMA NextLines ==
    ASSUME NEW l, NEW line \in NextLine(l)
    PROVE  \/ conn[l].wire # <<>> /\ line = Head(conn[l].wire)
           \/ conn[l].wire = <<>> /\ ~conn[l].open /\ line = "eof"
BY DEF NextLine

LEMMA WholeRead ==
    ASSUME Typed, NEW l \in Leg, WholeInv(l), LegInv(l),
           ReadBanner(l) \/ Restricted(l) \/ MoreText(l) \/ EndOfText(l) \/ ErrorLine(l)
    PROVE  WholeInv(l)'
<1>. DEFINE asked == conn[l].asked
            wire == conn[l].wire
<1>1. /\ pc[l] \in Talking /\ pc \in [Leg -> Place] /\ out \in [Leg -> Seq(Text)]
  BY DEF ReadBanner, Restricted, MoreText, EndOfText, ErrorLine, Talking, Typed,
     GlassTypeOK
<1>2. l[2] # "far" /\ TalkInv(l)
  BY <1>1, FarIsQuiet DEF WholeInv, Passed
<1>3. /\ conn[l] # NoConn /\ wire \in Seq(Line) /\ out[l] \in Seq(Line)
      /\ said[l] \in Seq(Line) /\ cut[l] \in BOOLEAN /\ conn[l].open \in BOOLEAN
  BY <1>1, TalkParts
<1>4. said' = said /\ cut' = cut
  BY DEF ReadBanner, Restricted, MoreText, EndOfText, ErrorLine, glassHistory
<1>5. ASSUME Answer(l, FALSE, <<>>) PROVE WholeInv(l)'
  BY <1>4, <1>5, WholeAnswered
<1>6. CASE ReadBanner(l)
  <2>1. PICK line \in NextLine(l) :
          \/ /\ line = "banner"
             /\ pc' = [pc EXCEPT ![l] = "say_restrict"]
             /\ conn' = Consumed(l)
             /\ UNCHANGED <<call, out, reply>>
          \/ /\ line # "banner"
             /\ Answer(l, FALSE, <<>>)
    BY <1>6 DEF ReadBanner
  <2>2. CASE line = "banner"
    <3>1. pc[l] = "banner" /\ pc'[l] = "say_restrict" /\ conn' = Consumed(l)
          /\ out' = out
      BY <1>1, <1>6, <2>1, <2>2 DEF ReadBanner
    <3>2. wire # <<>>
      BY <2>2, NextLines
    <3>3. wire = <<"banner">> /\ asked = <<>> /\ conn[l].greeted
          /\ said[l] = <<>> /\ out[l] = <<>> /\ (cut[l] <=> ~conn[l].open)
      BY <1>2, <1>3, <3>1, <3>2 DEF TalkInv, Talks
    <3>4. /\ conn'[l].asked = <<>> /\ conn'[l].wire = <<>>
          /\ conn'[l].greeted /\ conn'[l].open = conn[l].open
      <4>1. /\ conn'[l].asked = conn[l].asked /\ conn'[l].open = conn[l].open
            /\ conn'[l].greeted = conn[l].greeted /\ conn'[l].wire = <<>>
        BY <1>3, <3>1, <3>3, ConsumedLine, Zenon
      <4>. QED
        BY <3>3, <4>1
    <3>5. TalkInv(l)'
      BY <1>4, <3>1, <3>3, <3>4 DEF TalkInv, Talks
    <3>. QED
      BY <1>2, <3>1, <3>5, WholeTalking DEF Talking
  <2>3. CASE line # "banner"
    BY <1>5, <2>1, <2>3
  <2>. QED
    BY <2>2, <2>3
<1>7. CASE Restricted(l)
  <2>1. PICK line \in NextLine(l) : line \in {"end", "eof"}
    BY <1>7 DEF Restricted
  <2>2. pc[l] = "restricting" /\ pc'[l] = "say_command" /\ conn' = Consumed(l)
        /\ out' = out
    BY <1>1, <1>7 DEF Restricted
  <2>3. /\ conn[l].greeted /\ said[l] = <<>> /\ out[l] = <<>>
        /\ cut[l] <=> ~conn[l].open
    BY <1>2, <1>3, <2>2 DEF TalkInv, Talks
  <2>4. asked = <<>> /\ wire \in {<<>>, <<"end">>}
    <3>1. CASE wire # <<>>
      BY <1>2, <2>2, <3>1 DEF TalkInv, Talks
    <3>2. CASE wire = <<>>
      <4>1. cut[l]
        BY <2>1, <2>3, <3>2, NextLines
      <4>. QED
        BY <1>2, <2>2, <3>2, <4>1 DEF TalkInv, Talks
    <3>. QED
      BY <3>1, <3>2
  <2>5. /\ conn'[l].asked = <<>> /\ conn'[l].wire = <<>>
        /\ conn'[l].greeted /\ conn'[l].open = conn[l].open
    <3>1. wire = <<>> \/ wire = <<"end">>
      BY <2>4
    <3>2. /\ conn'[l].asked = conn[l].asked /\ conn'[l].open = conn[l].open
          /\ conn'[l].greeted = conn[l].greeted /\ conn'[l].wire = <<>>
      BY <1>3, <2>2, <3>1, ConsumedLine, Zenon
    <3>. QED
      BY <2>3, <2>4, <3>2
  <2>6. TalkInv(l)'
    BY <1>4, <2>2, <2>3, <2>5 DEF TalkInv, Talks
  <2>. QED
    BY <1>2, <2>2, <2>6, WholeTalking DEF Talking
<1>8. CASE MoreText(l)
  <2>1. PICK line \in NextLine(l) :
          line \in Text /\ out' = [out EXCEPT ![l] = Append(@, line)]
    BY <1>8 DEF MoreText
  <2>2. pc[l] = "reading" /\ pc' = pc /\ conn' = Consumed(l)
    BY <1>8 DEF MoreText
  <2>3. wire # <<>> /\ line = Head(wire)
    BY <2>1, NextLines, TextAssumption
  <2>4. out'[l] = Append(out[l], Head(wire))
    BY <1>1, <2>1, <2>3
  <2>5. /\ conn'[l].asked = asked /\ conn'[l].wire = Tail(wire)
        /\ conn'[l].greeted = conn[l].greeted /\ conn'[l].open = conn[l].open
    BY <1>3, <2>2, <2>3, ConsumedParts
  <2>6. /\ conn[l].open <=> ~cut[l]
        /\ conn[l].greeted /\ asked = <<>>
        /\ Carries(out[l], wire, said[l]) /\ OnlyLastEnds(wire)
        /\ cut[l] \/ Len(out[l]) + Len(wire) = Len(said[l])
    BY <1>2, <2>2, <2>3 DEF TalkInv, Talks
  <2>. DEFINE text == Append(out[l], Head(wire))
              lines == Tail(wire)
  <2>7. /\ Carries(text, lines, said[l]) /\ OnlyLastEnds(lines)
        /\ Len(text) + Len(lines) = Len(out[l]) + Len(wire)
    BY <1>3, <2>3, <2>6, CarriesRead
  <2>. HIDE DEF text, lines
  <2>8. TalkInv(l)'
    BY <1>4, <2>2, <2>4, <2>5, <2>6, <2>7 DEF TalkInv, Talks, text, lines
  <2>. QED
    BY <1>1, <1>2, <2>2, <2>8, WholeTalking
<1>9. CASE EndOfText(l)
  <2>1. PICK line \in NextLine(l) : line \in {"end", "eof"}
    BY <1>9 DEF EndOfText
  <2>2. pc[l] = "reading" /\ Answer(l, TRUE, out[l])
    BY <1>9 DEF EndOfText
  <2>3. /\ conn[l].open <=> ~cut[l]
        /\ Carries(out[l], wire, said[l]) /\ OnlyLastEnds(wire)
        /\ cut[l] \/ Len(out[l]) + Len(wire) = Len(said[l])
    BY <1>2, <2>2 DEF TalkInv, Talks
  <2>4. IsPrefix(out[l], said[l])
    BY <1>3, <2>3, CarriesStart
  <2>5. ASSUME ~cut[l] PROVE said[l] = Append(out[l], "end")
    <3>1. wire # <<>> /\ line = Head(wire)
      BY <2>3, <2>5, NextLines
    <3>2. Head(wire) = "end"
      <4>1. Head(wire) \in Line /\ "eof" \notin Line
        BY <1>3, <3>1, TextAssumption DEF Line
      <4>. QED
        BY <2>1, <3>1, <4>1
    <3>. QED
      BY <1>3, <2>3, <2>5, <3>1, <3>2, CarriesEnd
  <2>. QED
    BY <1>2, <1>4, <2>2, <2>4, <2>5, WholeAnswered
<1>10. CASE ErrorLine(l)
  BY <1>5, <1>10 DEF ErrorLine
<1>. QED
  BY <1>6, <1>7, <1>8, <1>9, <1>10

LEMMA SaidParts ==
    ASSUME Typed, NEW l \in Leg, conn[l] # NoConn, NEW from, NEW what, NEW to,
           Say(l, from, what, to), conn[l].asked = <<>>
    PROVE  /\ conn'[l].asked = IF conn[l].open THEN <<what>> ELSE <<>>
           /\ conn'[l].wire = conn[l].wire /\ conn'[l].open = conn[l].open
           /\ conn'[l].greeted = conn[l].greeted
<1>1. conn \in [Leg -> Conn \cup {NoConn}] /\ conn[l] \in Conn
  BY DEF Typed, GlassTypeOK
<1>. DEFINE a == IF conn[l].open THEN Append(conn[l].asked, what) ELSE conn[l].asked
            c == [conn[l] EXCEPT !.asked = a]
<1>2. conn' = [conn EXCEPT ![l] = c]
  BY DEF Say
<1>3. conn'[l] = c
  <2>. HIDE DEF c
  <2>. QED
    BY <1>1, <1>2
<1>4. /\ c.asked = a /\ c.open = conn[l].open
      /\ c.greeted = conn[l].greeted /\ c.wire = conn[l].wire
  <2>. HIDE DEF a
  <2>. QED
    BY <1>1 DEF Conn
<1>5. a = IF conn[l].open THEN <<what>> ELSE <<>>
  <2>1. Append(<<>>, what) = <<what>>
    OBVIOUS
  <2>. QED
    BY <2>1
<1>. HIDE DEF a, c
<1>. QED
  BY <1>3, <1>4, <1>5

LEMMA WholeHandler ==
    ASSUME Typed, NEW l \in Leg, WholeInv(l), LegInv(l),
           \/ ServeStatic(l) \/ CheckAuth(l) \/ Allowlist(l) \/ Connect(l)
           \/ SayRestrict(l) \/ SayCommand(l) \/ Fails(l)
    PROVE  WholeInv(l)'
<1>1. /\ pc \in [Leg -> Place] /\ conn \in [Leg -> Conn \cup {NoConn}]
      /\ said' = said /\ cut' = cut
  BY DEF Typed, GlassTypeOK, ServeStatic, CheckAuth, Allowlist, Connect, SayRestrict,
     SayCommand, Say, Fails, glassHistory
<1>2. ASSUME Answer(l, FALSE, <<>>) PROVE WholeInv(l)'
  BY <1>1, <1>2, WholeAnswered
\* A call that goes on without BIRD.
<1>3. ASSUME pc[l] \in {"arrived", "dispatch"}, pc'[l] \in {"dispatch", "connect"},
             UNCHANGED <<call, conn, out, reply>>
      PROVE  WholeInv(l)'
  <2>1. Silent(l)' /\ (l[2] = "far" => ~reply'[l].ok)
    BY <1>1, <1>3 DEF WholeInv, Silent, Place, Passed, Talking
  <2>. QED
    BY <1>3, <2>1 DEF WholeInv, Talking
<1>4. CASE ServeStatic(l) \/ Fails(l)
  BY <1>2, <1>4 DEF ServeStatic, Fails
<1>5. CASE CheckAuth(l)
  BY <1>1, <1>2, <1>3, <1>5 DEF CheckAuth
<1>6. CASE Allowlist(l)
  BY <1>1, <1>2, <1>3, <1>6 DEF Allowlist
<1>7. CASE Connect(l)
  <2>. DEFINE c == [asked |-> <<>>, wire |-> <<>>, greeted |-> FALSE, open |-> TRUE]
  <2>1. pc[l] = "connect" /\ pc'[l] = "banner" /\ conn'[l] = c /\ out' = out
    BY <1>1, <1>7 DEF Connect, Step
  <2>2. c.asked = <<>> /\ c.wire = <<>> /\ c.greeted = FALSE /\ c.open = TRUE
    OBVIOUS
  <2>. HIDE DEF c
  <2>3. Silent(l) /\ l[2] # "far"
    BY <2>1, FarIsQuiet DEF WholeInv, Passed, Place, Talking
  <2>4. TalkInv(l)'
    BY <1>1, <2>1, <2>2, <2>3 DEF TalkInv, Talks, Silent
  <2>. QED
    BY <2>1, <2>3, <2>4, WholeTalking DEF Talking
<1>8. CASE SayRestrict(l) \/ SayCommand(l)
  <2>1. /\ pc[l] \in {"say_restrict", "say_command"} /\ out' = out
        /\ pc'[l] \in {"restricting", "reading"}
    BY <1>1, <1>8 DEF SayRestrict, SayCommand, Say, Step
  <2>2. l[2] # "far" /\ TalkInv(l) /\ conn[l] # NoConn /\ conn[l].open \in BOOLEAN
    BY <2>1, FarIsQuiet, TalkParts DEF WholeInv, Passed, Talking
  <2>3. /\ conn[l].asked = <<>> /\ conn[l].wire = <<>> /\ conn[l].greeted
        /\ said[l] = <<>> /\ out[l] = <<>>
        /\ conn[l].open <=> ~cut[l]
    BY <2>1, <2>2 DEF TalkInv, Talks
  <2>4. CASE SayRestrict(l)
    <3>1. /\ conn'[l].asked = IF conn[l].open THEN <<"restrict">> ELSE <<>>
          /\ conn'[l].wire = conn[l].wire /\ conn'[l].open = conn[l].open
          /\ conn'[l].greeted = conn[l].greeted
      BY <2>2, <2>3, <2>4, SaidParts DEF SayRestrict
    <3>2. pc'[l] = "restricting"
      BY <1>1, <2>4 DEF SayRestrict, Say, Step
    <3>3. TalkInv(l)'
      BY <1>1, <2>1, <2>3, <3>1, <3>2 DEF TalkInv, Talks
    <3>. QED
      BY <2>2, <3>2, <3>3, WholeTalking DEF Talking
  <2>5. CASE SayCommand(l)
    <3>1. /\ conn'[l].asked = IF conn[l].open THEN <<"command">> ELSE <<>>
          /\ conn'[l].wire = conn[l].wire /\ conn'[l].open = conn[l].open
          /\ conn'[l].greeted = conn[l].greeted
      BY <2>2, <2>3, <2>5, SaidParts DEF SayCommand
    <3>2. pc'[l] = "reading"
      BY <1>1, <2>5 DEF SayCommand, Say, Step
    <3>3. Len(<<>>) + Len(<<>>) = Len(<<>>)
      OBVIOUS
    <3>4. TalkInv(l)'
      BY <1>1, <2>1, <2>3, <3>1, <3>2, <3>3, CarriesNothing DEF TalkInv, Talks
    <3>. QED
      BY <2>2, <3>2, <3>4, WholeTalking DEF Talking
  <2>. QED
    BY <1>8, <2>4, <2>5
<1>. QED
  BY <1>4, <1>5, <1>6, <1>7, <1>8

\* What BIRD sends to l.
LEMMA SentParts ==
    ASSUME Typed, NEW l \in Leg, conn[l] # NoConn, NEW what, conn[l].asked = <<what>>,
           conn[l].wire = <<>>, NEW lines \in Seq(Line), Send(l, lines)
    PROVE  /\ conn'[l].asked = <<>> /\ conn'[l].wire = lines
           /\ conn'[l].open = conn[l].open /\ conn'[l].greeted = conn[l].greeted
<1>1. conn \in [Leg -> Conn \cup {NoConn}] /\ conn[l] \in Conn
  BY DEF Typed, GlassTypeOK
<1>. DEFINE w == conn[l].wire \o lines
            a == IF conn[l].asked = <<>> THEN conn[l].asked ELSE Tail(conn[l].asked)
            c == [conn[l] EXCEPT !.wire = w, !.asked = a]
<1>2. conn' = [conn EXCEPT ![l] = c]
  BY DEF Send
<1>3. conn'[l] = c
  <2>. HIDE DEF c
  <2>. QED
    BY <1>1, <1>2
<1>4. /\ c.asked = a /\ c.wire = w /\ c.open = conn[l].open
      /\ c.greeted = conn[l].greeted
  <2>. HIDE DEF a, w
  <2>. QED
    BY <1>1 DEF Conn
<1>5. a = <<>>
  <2>1. Tail(<<what>>) = <<>> /\ <<what>> # <<>>
    OBVIOUS
  <2>. QED
    BY <2>1
<1>6. w = lines
  <2>1. <<>> \o lines = lines
    BY ConcatEmptySeq
  <2>. QED
    BY <2>1
<1>. HIDE DEF a, w, c
<1>. QED
  BY <1>3, <1>4, <1>5, <1>6

LEMMA NothingRead ==
    ASSUME NEW text \in Seq(Line), NEW lines \in Seq(Line), Carries(text, lines, <<>>)
    PROVE  text = <<>>
<1>1. Len(text) \in Nat /\ Len(lines) \in Nat /\ Len(<<>>) = 0
  OBVIOUS
<1>2. Len(text) = 0
  BY <1>1 DEF Carries
<1>. QED
  BY <1>2, EmptySeq

\* What BIRD says to a command ends once.
LEMMA AnswerEndsOnce ==
    ASSUME NEW n \in 0 .. Len(Output)
    PROVE  LET s == Append(SubSeq(Output, 1, n), "end")
           IN  s \in Seq(Line) /\ OnlyLastEnds(s)
<1>. DEFINE t == SubSeq(Output, 1, n)
            s == Append(t, "end")
<1>1. t \in Seq(Text) /\ t \in Seq(Line) /\ "end" \in Line
  BY OutputPrefix, TextIsLines DEF Line
<1>. HIDE DEF t
<1>2. s \in Seq(Line) /\ Len(t) \in Nat /\ Len(s) = Len(t) + 1
      /\ \A i \in 1 .. Len(t) : s[i] = t[i]
  BY <1>1
<1>3. \A i \in 1 .. Len(t) : t[i] \in Text
  BY <1>1
<1>. HIDE DEF s
<1>4. OnlyLastEnds(s)
  BY <1>2, <1>3, TextAssumption DEF OnlyLastEnds
<1>. QED
  BY <1>2, <1>4 DEF s, t

LEMMA WholeBird ==
    ASSUME Typed, NEW l \in Leg, WholeInv(l), LegInv(l), BirdStep(l)
    PROVE  WholeInv(l)'
<1>1. /\ pc' = pc /\ call' = call /\ out' = out /\ reply' = reply /\ cut' = cut
      /\ conn[l] # NoConn /\ conn[l].open
  BY DEF BirdStep, Greet, Oblige, Respond, glassHistory
<1>2. pc[l] \in Talking
  BY <1>1 DEF Typed, Equipped
<1>3. /\ l[2] # "far" /\ TalkInv(l)
      /\ out[l] \in Seq(Line) /\ conn[l].wire \in Seq(Line)
      /\ conn \in [Leg -> Conn \cup {NoConn}] /\ conn[l] \in Conn
      /\ said \in [Leg -> Seq(Line)]
  BY <1>2, FarIsQuiet, TalkParts DEF WholeInv, Passed, Typed, GlassTypeOK
<1>4. ~cut[l]
  BY <1>1, <1>3 DEF TalkInv, Talks
<1>5. SUFFICES TalkInv(l)'
  BY <1>1, <1>2, <1>3, <1>5, WholeTalking
<1>6. CASE Greet(l)
  <2>1. said' = said /\ ~conn[l].greeted
    BY <1>6 DEF Greet, glassHistory
  <2>2. pc[l] = "banner" /\ conn[l].asked = <<>>
    BY <1>3, <2>1 DEF TalkInv, Talks
  <2>. DEFINE c == [conn[l] EXCEPT !.wire = <<"banner">>, !.greeted = TRUE]
  <2>3. conn' = [conn EXCEPT ![l] = c]
    BY <1>6 DEF Greet
  <2>4. conn'[l] = c
    <3>. HIDE DEF c
    <3>. QED
      BY <1>3, <2>3
  <2>5. /\ c.asked = conn[l].asked /\ c.wire = <<"banner">> /\ c.greeted = TRUE
        /\ c.open = conn[l].open
    BY <1>3 DEF Conn
  <2>. HIDE DEF c
  <2>. QED
    BY <1>1, <1>3, <1>4, <2>1, <2>2, <2>4, <2>5 DEF TalkInv, Talks
<1>7. CASE Oblige(l)
  <2>1. said' = said /\ conn[l].asked # <<>> /\ Head(conn[l].asked) = "restrict"
        /\ Send(l, <<"end">>)
    BY <1>7 DEF Oblige, glassHistory
  <2>2. Head(<<"command">>) = "command"
    OBVIOUS
  <2>3. /\ pc[l] = "restricting" /\ conn[l].asked = <<"restrict">>
        /\ conn[l].wire = <<>> /\ said[l] = <<>> /\ out[l] = <<>> /\ conn[l].greeted
    BY <1>2, <1>3, <2>1, <2>2 DEF TalkInv, Talks, Talking
  <2>4. <<"end">> \in Seq(Line)
    BY DEF Line
  <2>5. /\ conn'[l].asked = <<>> /\ conn'[l].wire = <<"end">>
        /\ conn'[l].open = conn[l].open /\ conn'[l].greeted = conn[l].greeted
    BY <1>1, <2>1, <2>3, <2>4, SentParts
  <2>. QED
    BY <1>1, <1>4, <2>1, <2>3, <2>5 DEF TalkInv, Talks
<1>8. CASE Respond(l)
  <2>1. conn[l].asked # <<>> /\ Head(conn[l].asked) = "command"
        /\ Send(l, said'[l])
    BY <1>8 DEF Respond
  <2>2. Head(<<"restrict">>) = "restrict"
    OBVIOUS
  <2>3. /\ pc[l] = "reading" /\ conn[l].asked = <<"command">>
        /\ conn[l].wire = <<>> /\ said[l] = <<>> /\ conn[l].greeted
        /\ Carries(out[l], conn[l].wire, said[l])
    BY <1>2, <1>3, <2>1, <2>2 DEF TalkInv, Talks, Talking
  <2>4. out[l] = <<>>
    BY <1>3, <2>3, NothingRead
  <2>5. said'[l] \in Seq(Line) /\ OnlyLastEnds(said'[l])
    <3>1. CASE said' = [said EXCEPT ![l] = <<"error">>]
      <4>1. said'[l] = <<"error">>
        BY <1>3, <3>1
      <4>2. <<"error">> \in Seq(Line) /\ Len(<<"error">>) = 1
        BY DEF Line
      <4>3. OnlyLastEnds(<<"error">>)
        BY <4>2 DEF OnlyLastEnds
      <4>. QED
        BY <4>1, <4>2, <4>3
    <3>2. ASSUME NEW n \in 0 .. Len(Output),
                 said' = [said EXCEPT ![l] = Append(SubSeq(Output, 1, n), "end")]
          PROVE  said'[l] \in Seq(Line) /\ OnlyLastEnds(said'[l])
      <4>1. said'[l] = Append(SubSeq(Output, 1, n), "end")
        BY <1>3, <3>2
      <4>. QED
        BY <4>1, AnswerEndsOnce
    <3>. QED
      BY <1>8, <3>1, <3>2 DEF Respond
  <2>. DEFINE s == said'[l]
  <2>6. s \in Seq(Line) /\ OnlyLastEnds(s) /\ Send(l, s)
    BY <2>1, <2>5
  <2>. HIDE DEF s
  <2>7. /\ conn'[l].asked = <<>> /\ conn'[l].wire = s
        /\ conn'[l].open = conn[l].open /\ conn'[l].greeted = conn[l].greeted
    BY <1>1, <2>3, <2>6, SentParts
  <2>8. Carries(<<>>, s, s) /\ Len(<<>>) + Len(s) = Len(s)
    BY <2>6, CarriesAll
  <2>9. pc'[l] = "reading" /\ out'[l] = <<>> /\ said'[l] = s
    BY <1>1, <2>3, <2>4 DEF s
  <2>. QED
    BY <1>1, <1>4, <2>3, <2>6, <2>7, <2>8, <2>9 DEF TalkInv, Talks
<1>. QED
  BY <1>6, <1>7, <1>8 DEF BirdStep

LEMMA WholeHangUp ==
    ASSUME Typed, NEW l \in Leg, WholeInv(l), LegInv(l), HangUp(l)
    PROVE  WholeInv(l)'
<1>1. /\ pc' = pc /\ call' = call /\ out' = out /\ reply' = reply /\ said' = said
      /\ conn[l] # NoConn
  BY DEF HangUp
<1>2. pc[l] \in Talking
  BY <1>1 DEF Typed, Equipped
<1>3. /\ l[2] # "far" /\ TalkInv(l)
      /\ out[l] \in Seq(Line) /\ conn[l].wire \in Seq(Line) /\ said[l] \in Seq(Line)
      /\ conn \in [Leg -> Conn \cup {NoConn}] /\ conn[l] \in Conn
      /\ cut'[l] = TRUE
  BY <1>2, FarIsQuiet, TalkParts DEF WholeInv, Passed, Typed, GlassTypeOK, HangUp
<1>4. PICK n \in 0 .. Len(conn[l].wire) :
        conn' = [conn EXCEPT ![l].open = FALSE, ![l].asked = <<>>,
                             ![l].wire = SubSeq(@, 1, n)]
  BY DEF HangUp
<1>. DEFINE w == conn[l].wire
            r == SubSeq(w, 1, n)
            c == [conn[l] EXCEPT !.open = FALSE, !.asked = <<>>, !.wire = r]
<1>5. conn' = [conn EXCEPT ![l] = c]
  BY <1>4
<1>6. conn'[l] = c
  <2>. HIDE DEF c
  <2>. QED
    BY <1>3, <1>5
<1>7. /\ c.open = FALSE /\ c.asked = <<>> /\ c.wire = r
      /\ c.greeted = conn[l].greeted
  <2>. HIDE DEF r
  <2>. QED
    BY <1>3 DEF Conn
<1>. HIDE DEF c
<1>8. ASSUME w = <<>> PROVE r = <<>>
  BY <1>8
<1>9. ASSUME NEW line, w = <<line>> PROVE r \in {<<>>, <<line>>}
  <2>1. n \in {0, 1}
    BY <1>9
  <2>2. SubSeq(<<line>>, 1, 0) = <<>> /\ SubSeq(<<line>>, 1, 1) = <<line>>
    <3>1. <<line>> \in Seq({line}) /\ Len(<<line>>) = 1
      OBVIOUS
    <3>2. SubSeq(<<line>>, 1, 0) = <<>>
      BY SubSeqEmpty
    <3>3. SubSeq(<<line>>, 1, Len(<<line>>)) = <<line>>
      BY <3>1, SubSeqFull, Zenon
    <3>. QED
      BY <3>1, <3>2, <3>3
  <2>. QED
    BY <1>9, <2>1, <2>2
<1>10. pc[l] = "reading" =>
         Carries(out[l], r, said[l]) /\ OnlyLastEnds(r)
  <2>1. pc[l] = "reading" => Carries(out[l], w, said[l]) /\ OnlyLastEnds(w)
    BY <1>3 DEF TalkInv, Talks
  <2>. QED
    BY <1>3, <2>1, CarriesCut
<1>11. /\ pc[l] # "reading" => said[l] = <<>> /\ out[l] = <<>>
       /\ pc[l] = "banner" => w \in {<<>>, <<"banner">>}
       /\ pc[l] # "banner" \/ w # <<>> => conn[l].greeted
       /\ pc[l] \in {"say_restrict", "say_command"} => w = <<>>
       /\ pc[l] = "restricting" => w \in {<<>>, <<"end">>}
  BY <1>3 DEF TalkInv, Talks
<1>. HIDE DEF w, r
<1>12. TalkInv(l)'
  <2>1. /\ pc[l] = "banner" => r \in {<<>>, <<"banner">>}
        /\ pc[l] \in {"say_restrict", "say_command"} => r = <<>>
        /\ pc[l] = "restricting" => r \in {<<>>, <<"end">>}
        /\ pc[l] # "banner" \/ r # <<>> => conn[l].greeted
    BY <1>8, <1>9, <1>11
  <2>. QED
    BY <1>1, <1>3, <1>6, <1>7, <1>10, <1>11, <2>1 DEF TalkInv, Talks
<1>. QED
  BY <1>1, <1>2, <1>3, <1>12, WholeTalking

LEMMA WholeLeg ==
    ASSUME Typed, NEW l \in Leg, LegInv(l), \A k \in Leg : WholeInv(k),
           HandlerStep(l) \/ BirdStep(l) \/ HangUp(l) \/ Fails(l)
    PROVE  \A k \in Leg : WholeInv(k)'
<1>1. WholeInv(l)'
  BY WholeHandler, WholeRead, WholeBird, WholeHangUp DEF HandlerStep
<1>2. ASSUME NEW k \in Leg, k # l PROVE Untouched(k)
  <2>. /\ pc \in [Leg -> Place] /\ call \in [Leg -> Call \cup {NoCall}]
       /\ conn \in [Leg -> Conn \cup {NoConn}] /\ out \in [Leg -> Seq(Text)]
       /\ reply \in [Leg -> Reply] /\ said \in [Leg -> Seq(Line)]
       /\ cut \in [Leg -> BOOLEAN]
    BY DEF Typed, GlassTypeOK
  <2>1. ASSUME UNCHANGED <<call, said, cut>>,
               pc'[k] = pc[k] /\ conn'[k] = conn[k] /\ out'[k] = out[k]
                 /\ reply'[k] = reply[k]
        PROVE  Untouched(k)
    BY <2>1 DEF Untouched
  <2>2. ASSUME NEW ok, NEW text, Answer(l, ok, text), UNCHANGED <<said, cut>>
        PROVE  Untouched(k)
    BY <1>2, <2>1, <2>2 DEF Answer
  <2>3. conn' = Consumed(l) => conn'[k] = conn[k]
    BY <1>2 DEF Consumed
  <2>4. CASE ServeStatic(l) \/ EndOfText(l) \/ ErrorLine(l) \/ Fails(l)
    BY <2>2, <2>4 DEF ServeStatic, EndOfText, ErrorLine, Fails, glassHistory
  <2>5. CASE CheckAuth(l)
    BY <1>2, <2>1, <2>2, <2>5 DEF CheckAuth
  <2>6. CASE Allowlist(l)
    BY <1>2, <2>1, <2>2, <2>6 DEF Allowlist, glassHistory
  <2>7. CASE Connect(l)
    BY <1>2, <2>1, <2>7 DEF Connect, Step, glassHistory
  <2>8. CASE ReadBanner(l)
    BY <1>2, <2>1, <2>2, <2>3, <2>8 DEF ReadBanner, glassHistory
  <2>9. CASE SayRestrict(l) \/ SayCommand(l)
    BY <1>2, <2>1, <2>9 DEF SayRestrict, SayCommand, Say, Step, glassHistory
  <2>10. CASE Restricted(l)
    BY <1>2, <2>1, <2>3, <2>10 DEF Restricted, glassHistory
  <2>11. CASE MoreText(l)
    BY <1>2, <2>1, <2>3, <2>11 DEF MoreText, glassHistory
  <2>12. CASE Greet(l) \/ Oblige(l)
    BY <1>2, <2>1, <2>12 DEF Greet, Oblige, Send, glassHistory
  <2>13. CASE Respond(l)
    BY <1>2, <2>13 DEF Respond, Send, Untouched
  <2>14. CASE HangUp(l)
    BY <1>2, <2>14 DEF HangUp, Untouched
  <2>. QED
    BY <2>4, <2>5, <2>6, <2>7, <2>8, <2>9, <2>10, <2>11, <2>12, <2>13, <2>14
       DEF HandlerStep, BirdStep
<1>. QED
  BY <1>1, <1>2, WholeUntouched

\* A call that is over, or was never made.
LEMMA WholeFresh ==
    ASSUME NEW l \in Leg, pc'[l] = "idle", Silent(l)', reply'[l] = NoReply
    PROVE  WholeInv(l)'
<1>1. ~NoReply.ok
  BY DEF NoReply
<1>. QED
  BY <1>1 DEF WholeInv, Talking

LEMMA WholeDropped ==
    ASSUME NEW legs, Drop(legs), NEW l \in Leg, WholeInv(l)
    PROVE  WholeInv(l)'
<1>1. /\ pc'[l] = IF l \in legs THEN "idle" ELSE pc[l]
      /\ call'[l] = IF l \in legs THEN NoCall ELSE call[l]
      /\ conn'[l] = IF l \in legs THEN NoConn ELSE conn[l]
      /\ out'[l] = IF l \in legs THEN <<>> ELSE out[l]
      /\ reply'[l] = IF l \in legs THEN NoReply ELSE reply[l]
      /\ said'[l] = IF l \in legs THEN <<>> ELSE said[l]
      /\ cut'[l] = IF l \in legs THEN FALSE ELSE cut[l]
  BY DEF Drop
<1>2. CASE l \in legs
  BY <1>1, <1>2, WholeFresh DEF Silent
<1>3. CASE l \notin legs
  BY <1>1, <1>3, WholeUntouched DEF Untouched
<1>. QED
  BY <1>2, <1>3

LEMMA WholeQuery ==
    ASSUME Typed, \A k \in Leg : WholeInv(k), NEW q \in Query,
           \/ Ask(q) \/ Collect(q) \/ Forward(q) \/ TakeReply(q)
           \/ ForwardFails(q) \/ Abandon(q)
    PROVE  \A k \in Leg : WholeInv(k)'
<1>. /\ pc \in [Leg -> Place] /\ call \in [Leg -> Call \cup {NoCall}]
     /\ conn \in [Leg -> Conn \cup {NoConn}] /\ out \in [Leg -> Seq(Text)]
     /\ reply \in [Leg -> Reply]
  BY DEF Typed, GlassTypeOK
<1>. /\ Web(q) \in Leg /\ Far(q) \in Leg /\ Web(q) # Far(q)
     /\ Web(q)[2] = "web" /\ Far(q)[2] = "far"
  BY QueryLegs
<1>1. ASSUME Ask(q), NEW k \in Leg PROVE WholeInv(k)'
  <2>1. /\ pc[Web(q)] = "idle" /\ pc' = [pc EXCEPT ![Web(q)] = "arrived"]
        /\ \A j \in Leg : j # Web(q) => call'[j] = call[j]
        /\ UNCHANGED <<conn, out, reply, said, cut>>
    BY <1>1 DEF Ask, Step
  <2>2. CASE k = Web(q)
    <3>1. pc'[k] = "arrived" /\ Silent(k)
      BY <2>1, <2>2 DEF WholeInv, Place, Passed, Talking
    <3>. QED
      BY <2>1, <2>2, <3>1 DEF WholeInv, Silent, Talking
  <2>3. CASE k # Web(q)
    BY <2>1, <2>3, WholeUntouched DEF Untouched
  <2>. QED
    BY <2>2, <2>3
<1>2. ASSUME Collect(q) \/ Abandon(q), NEW k \in Leg PROVE WholeInv(k)'
  BY <1>2, WholeDropped DEF Collect, Abandon
<1>3. ASSUME Forward(q), NEW k \in Leg PROVE WholeInv(k)'
  <2>1. /\ pc' = [pc EXCEPT ![Web(q)] = "waiting", ![Far(q)] = "arrived"]
        /\ pc[Web(q)] = "dispatch" /\ ~IsLocal(Web(q))
        /\ \A j \in Leg : j # Far(q) => call'[j] = call[j]
        /\ UNCHANGED <<conn, out, reply, said, cut>>
    BY <1>3 DEF Forward, glassHistory
  <2>2. CASE k = Web(q)
    <3>1. /\ pc'[k] = "waiting" /\ Silent(k) /\ call'[k] = call[k]
      BY <2>1, <2>2 DEF WholeInv, Place, Passed, Talking
    <3>. QED
      BY <2>1, <2>2, <3>1 DEF WholeInv, Silent, Talking, IsLocal
  <2>3. CASE k = Far(q)
    <3>1. /\ pc'[k] = "arrived" /\ Silent(k) /\ ~reply[k].ok
      BY <2>1, <2>3 DEF WholeInv
    <3>. QED
      BY <2>1, <3>1 DEF WholeInv, Silent, Talking
  <2>4. CASE k # Web(q) /\ k # Far(q)
    BY <2>1, <2>4, WholeUntouched DEF Untouched
  <2>. QED
    BY <2>2, <2>3, <2>4
<1>4. ASSUME TakeReply(q), NEW k \in Leg PROVE WholeInv(k)'
  <2>1. /\ pc[Web(q)] = "waiting"
        /\ Answer(Web(q), reply[Far(q)].ok, reply[Far(q)].text)
        /\ said' = said /\ cut' = cut
    BY <1>4 DEF TakeReply, glassHistory
  <2>2. CASE k = Web(q)
    <3>1. ~IsLocal(k) /\ k[2] # "far" /\ WholeInv(k)
      BY <2>1, <2>2 DEF WholeInv
    <3>. QED
      BY <2>1, <2>2, <3>1, WholeAnswered
  <2>3. CASE k # Web(q)
    BY <2>1, <2>3, WholeUntouched DEF Untouched, Answer
  <2>. QED
    BY <2>2, <2>3
<1>5. ASSUME ForwardFails(q), NEW k \in Leg PROVE WholeInv(k)'
  <2>1. /\ pc[Web(q)] = "waiting"
        /\ pc' = [pc EXCEPT ![Web(q)] = "done", ![Far(q)] = "idle"]
        /\ call' = [call EXCEPT ![Far(q)] = NoCall]
        /\ conn' = [conn EXCEPT ![Far(q)] = NoConn]
        /\ reply' = [reply EXCEPT ![Far(q)] = NoReply]
        /\ out' = [out EXCEPT ![Far(q)] = <<>>]
        /\ said' = said /\ cut' = cut
    BY <1>5 DEF ForwardFails, glassHistory
  <2>2. CASE k = Web(q)
    <3>1. /\ pc'[k] = "done" /\ call'[k] = call[k] /\ ~IsLocal(k) /\ k[2] # "far"
      BY <2>1, <2>2 DEF WholeInv
    <3>. QED
      BY <3>1 DEF WholeInv, Talking, IsLocal
  <2>3. CASE k = Far(q)
    <3>1. pc'[k] = "idle" /\ reply'[k] = NoReply /\ out'[k] = <<>>
      BY <2>1, <2>3
    <3>2. Silent(k)'
      BY <2>1, <2>3, <3>1 DEF WholeInv, Silent
    <3>. QED
      BY <3>1, <3>2, WholeFresh
  <2>4. CASE k # Web(q) /\ k # Far(q)
    BY <2>1, <2>4, WholeUntouched DEF Untouched
  <2>. QED
    BY <2>2, <2>3, <2>4
<1>. QED
  BY <1>1, <1>2, <1>3, <1>4, <1>5

WholeInvs == \A l \in Leg : WholeInv(l)

LEMMA WholeNext ==
    ASSUME Typed, GuardInv, WholeInvs, [Next]_vars
    PROVE  WholeInvs'
<1>1. CASE UNCHANGED glassVars
  BY <1>1, WholeUntouched DEF WholeInvs, Untouched, glassVars, calls, glassHistory
<1>2. CASE \E q \in Query : \/ Ask(q) \/ Collect(q) \/ Forward(q)
                            \/ TakeReply(q) \/ ForwardFails(q) \/ Abandon(q)
  BY <1>2, WholeQuery DEF WholeInvs
<1>3. CASE \E l \in Leg : HandlerStep(l) \/ BirdStep(l) \/ HangUp(l) \/ Fails(l)
  BY <1>3, WholeLeg DEF WholeInvs, GuardInv
<1>4. CASE Restart
  BY <1>4, WholeDropped DEF WholeInvs, Restart
<1>. QED
  BY <1>1, <1>2, <1>3, <1>4 DEF Next, Healthy, Fault, vars

LEMMA WholeInit == Init => WholeInvs
<1>. SUFFICES ASSUME Init, NEW l \in Leg PROVE WholeInv(l)
  BY DEF WholeInvs
<1>1. /\ pc[l] = "idle" /\ said[l] = <<>> /\ cut[l] = FALSE /\ out[l] = <<>>
      /\ reply[l] = NoReply
  BY DEF Init
<1>2. ~NoReply.ok
  BY DEF NoReply
<1>. QED
  BY <1>1, <1>2 DEF WholeInv, Silent, Talking

LEMMA WholeHolds == WholeInvs => AnswersAreWhole
BY DEF WholeInvs, WholeInv, Whole, AnswersAreWhole

\* What a browser is told BIRD said is the whole of it: no line of the answer
\* to another command and none missing, unless BIRD hung up, when it is the
\* beginning.
THEOREM AnswersAreAlwaysWhole == Spec => []AnswersAreWhole
<1>1. Typed /\ GuardInv /\ WholeInvs /\ [Next]_vars => WholeInvs'
  BY WholeNext
<1>2. Typed /\ Paired /\ LoginTypeOK /\ LoginTypeOK' /\ GuardInv /\ [Next]_vars
        => GuardInv'
  BY GuardNext
<1>. QED
  BY TypedInvariant, <1>1, <1>2, GuardInit, WholeInit, WholeHolds, PTL DEF Spec, Next

=============================================================================
