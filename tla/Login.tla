------------------------------- MODULE Login -------------------------------
(***************************************************************************)
(* Logging in to the web interface of a node: the limit on login attempts, *)
(* the tokens that a login hands out, and the secret that signs them.      *)
(*                                                                         *)
(* The node keeps, in memory, how often each address tried within a fixed  *)
(* window that opens with its first try, refused tries included.  A token  *)
(* names its signing secret and when it expires; the node keeps none.  The *)
(* secret comes from the configuration or is made up at every start.       *)
(* Cryptography is taken to work, passwords are right or wrong, and the    *)
(* node's two clocks (for attempts and for tokens) are one.                *)
(***************************************************************************)
EXTENDS Naturals, Sequences

CONSTANTS
    Browser,      \* browsers, each at an address of its own
    NoEntry,
    NoToken,
    Limit,        \* 5 attempts
    Window,       \* in 60 seconds
    Lifetime,     \* of a token, 3600 seconds
    Leeway,       \* of the token library, 60 seconds
    Configured,   \* auth.jwt_secret is set
    MaxTime,      \* bound: the clock
    MaxTries,     \* bound: admitted attempts of a browser
    MaxRestarts   \* bound

ASSUME PeriodAssumption ==
    /\ Limit \in Nat \ {0} /\ Window \in Nat \ {0}
    /\ Lifetime \in Nat /\ Leeway \in Nat
ASSUME ConfigAssumption == Configured \in BOOLEAN
ASSUME LoginBoundAssumption ==
    MaxTime \in Nat /\ MaxTries \in Nat /\ MaxRestarts \in Nat

Time == 0 .. MaxTime
Entry == [count : 0 .. Limit + 1, start : Time]
Token == [secret : 0 .. MaxRestarts, exp : Nat]
ASSUME LoginNilAssumption == NoEntry \notin Entry /\ NoToken \notin Token

VARIABLES
    now,
    attempts,   \* LOGIN_RATE_LIMITER: per address, tries and start of window
    secret,     \* jwt_secret, numbered by the start that made it up
    jar,        \* the cookie each browser keeps
    restarts,
    (* history since the start of the process *)
    when,       \* times of the admitted attempts of each browser
    opened,     \* start of the window each of them was counted in
    promised,   \* when a refused browser was told to try again, 0 for never
    entered     \* time of the last successful login plus one, 0 for never

limiter == <<attempts, when, opened, promised>>
tokens == <<secret, jar, entered>>
loginVars == <<now, limiter, tokens, restarts>>

LoginInit ==
    /\ now = 0
    /\ attempts = [b \in Browser |-> NoEntry]
    /\ secret = 0
    /\ jar = [b \in Browser |-> NoToken]
    /\ restarts = 0
    /\ when = [b \in Browser |-> <<>>]
    /\ opened = [b \in Browser |-> <<>>]
    /\ promised = [b \in Browser |-> 0]
    /\ entered = [b \in Browser |-> 0]

-----------------------------------------------------------------------------
(* The limiter *)

Fresh == [count |-> 0, start |-> now]

\* Mutant: a window is over one unit of time early.
CurrentEarly(b) ==
    IF attempts[b] = NoEntry THEN Fresh
    ELSE IF now - attempts[b].start + 1 >= Window THEN Fresh ELSE attempts[b]

\* The entry that a try is counted in: a window that is over is replaced.
Current(b) ==
    IF attempts[b] = NoEntry THEN Fresh
    ELSE IF now - attempts[b].start >= Window THEN Fresh ELSE attempts[b]

\* Mutant: a refused try opens the window anew.
CountedAnew(b) ==
    IF Current(b).count >= Limit THEN [count |-> Limit + 1, start |-> now]
                                 ELSE [Current(b) EXCEPT !.count = @ + 1]

\* Refused tries count too; counts above the limit are alike.
Counted(b) ==
    IF Current(b).count > Limit THEN Current(b)
                                ELSE [Current(b) EXCEPT !.count = @ + 1]

Admits(b) == Counted(b).count <= Limit

\* LoginRateLimiter::check lets the try pass.
Admit(b) ==
    /\ Len(when[b]) < MaxTries
    /\ Admits(b)
    /\ attempts' = [attempts EXCEPT ![b] = Counted(b)]
    /\ when' = [when EXCEPT ![b] = Append(@, now)]
    /\ opened' = [opened EXCEPT ![b] = Append(@, Counted(b).start)]
    /\ UNCHANGED promised

\* "Too many attempts. Try again in ...s"
RetryAt(b) == now + (Window - (now - Counted(b).start))

Refuse(b) ==
    /\ ~Admits(b)
    /\ attempts' = [attempts EXCEPT ![b] = Counted(b)]
    /\ promised' = [promised EXCEPT ![b] = IF now < @ THEN @ ELSE RetryAt(b)]
    /\ UNCHANGED <<now, when, opened, tokens, restarts>>

-----------------------------------------------------------------------------
(* Tokens *)

\* Mutant: a token is good for as long as its secret is.
ValidForever(token) == token # NoToken /\ token.secret = secret

\* verify_token: signature and expiry.
Valid(token) ==
    /\ token # NoToken
    /\ token.secret = secret
    /\ now <= token.exp + Leeway

WrongPassword(b) ==
    /\ Admit(b)
    /\ UNCHANGED <<now, tokens, restarts>>

\* handle_login with the right name and password: a token in a cookie.
LogIn(b) ==
    /\ Admit(b)
    /\ jar' = [jar EXCEPT ![b] = [secret |-> secret, exp |-> now + Lifetime]]
    /\ entered' = [entered EXCEPT ![b] = now + 1]
    /\ UNCHANGED <<now, secret, restarts>>

\* The answer takes the cookie away; the token stays good.
LogOut(b) ==
    /\ jar' = [jar EXCEPT ![b] = NoToken]
    /\ UNCHANGED <<now, limiter, secret, entered, restarts>>

Tock ==
    /\ now < MaxTime
    /\ now' = now + 1
    /\ UNCHANGED <<limiter, tokens, restarts>>

\* Mutant: a node without a configured secret keeps the one it had.
ForgetKeepingSecret ==
    /\ restarts < MaxRestarts
    /\ restarts' = restarts + 1
    /\ attempts' = [b \in Browser |-> NoEntry]
    /\ when' = [b \in Browser |-> <<>>]
    /\ opened' = [b \in Browser |-> <<>>]
    /\ promised' = [b \in Browser |-> 0]
    /\ entered' = IF Configured THEN entered ELSE [b \in Browser |-> 0]
    /\ UNCHANGED <<now, secret, jar>>

\* The node is restarted: attempts are forgotten, and so is a secret that is
\* not configured.
Forget ==
    /\ restarts < MaxRestarts
    /\ restarts' = restarts + 1
    /\ attempts' = [b \in Browser |-> NoEntry]
    /\ when' = [b \in Browser |-> <<>>]
    /\ opened' = [b \in Browser |-> <<>>]
    /\ promised' = [b \in Browser |-> 0]
    /\ secret' = IF Configured THEN secret ELSE restarts'
    /\ entered' = IF Configured THEN entered ELSE [b \in Browser |-> 0]
    /\ UNCHANGED <<now, jar>>

LoginStep ==
    \/ Tock
    \/ \E b \in Browser : Refuse(b) \/ WrongPassword(b) \/ LogIn(b) \/ LogOut(b)

\* Logging in alone, without what is then asked.
LoginSpec == LoginInit /\ [][LoginStep \/ Forget]_loginVars

-----------------------------------------------------------------------------
(* Properties *)

LoginTypeOK ==
    /\ now \in Time
    /\ attempts \in [Browser -> Entry \cup {NoEntry}]
    /\ secret \in 0 .. MaxRestarts
    /\ jar \in [Browser -> Token \cup {NoToken}]
    /\ restarts \in 0 .. MaxRestarts
    /\ when \in [Browser -> Seq(Time)]
    /\ opened \in [Browser -> Seq(Time)]
    /\ promised \in [Browser -> Nat]
    /\ entered \in [Browser -> 0 .. MaxTime + 1]

\* Guessing is slow: any 2 * Limit attempts of an address that are let through
\* to the password check take at least a window's time from the first to the
\* last, wherever the fixed windows happen to begin and whatever was refused
\* in between.  (One fewer may come at once: a first one, and at the seam of
\* two windows the rest of the one and all of the other.)
FewGuesses ==
    \A b \in Browser : \A i \in 1 .. Len(when[b]) :
        i + 2 * Limit - 1 <= Len(when[b]) =>
            when[b][i + 2 * Limit - 1] - when[b][i] >= Window

\* Attempts let through at or after the time t.
Since(b, t) == {i \in 1 .. Len(when[b]) : when[b][i] >= t}

\* The promise of a refusal is kept: from the time it named on, the address
\* gets Limit attempts before it is refused again, however often it was
\* impatient before.
PromiseKept ==
    [][\A b \in Browser :
         (promised'[b] # promised[b] /\ promised[b] # 0 /\ promised'[b] # 0)
            => \E i \in Since(b, promised[b]) : i + Limit - 1 <= Len(when[b])]_loginVars
=============================================================================
