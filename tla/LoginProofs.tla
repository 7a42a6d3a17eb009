---------------------------- MODULE LoginProofs ----------------------------
(***************************************************************************)
(* What holds of the limit on logins for every limit, window and number of *)
(* browsers: typing, the bound on guesses in any period, and the promise   *)
(* made to a refused browser.  The invariant (LoginInv) says which of the  *)
(* admitted attempts were counted in the window that is open, namely the   *)
(* last ones, as many as the entry counts, and that windows do not overlap. *)
(***************************************************************************)
EXTENDS Login, TLAPS

USE PeriodAssumption, ConfigAssumption, LoginBoundAssumption,
    LoginNilAssumption

\* Of the attempts let through, those counted in the entry's window.
Open(e) == IF e.count > Limit THEN Limit ELSE e.count

\* The times w at which attempts were let through and the starts o of the
\* windows they were counted in, at the time t: a window begins with its first
\* attempt, no window began before the one before it was over, and none has
\* more than Limit attempts.
Spaced(w, o, t) ==
    /\ Len(o) = Len(w)
    /\ \A i \in 1 .. Len(w) : o[i] <= w[i] /\ w[i] < o[i] + Window /\ w[i] <= t
    /\ \A i, j \in 1 .. Len(w) :
         i < j => o[i] = o[j] \/ o[i] + Window <= o[j]
    /\ \A i \in 1 .. Len(w) : i + Limit <= Len(w) => o[i] # o[i + Limit]
    /\ \A i \in 1 .. Len(w) : w[i] = o[i] \/ (i > 1 /\ o[i - 1] = o[i])

\* The entry counts the last of them.
Counts(e, o, t) ==
    /\ e.start <= t
    /\ 0 < e.count
    /\ Open(e) <= Len(o)
    /\ \A i \in 1 .. Len(o) :
         IF i > Len(o) - Open(e) THEN o[i] = e.start
                                 ELSE o[i] + Window <= e.start

\* What was promised is the end of the window, or past.
Pledged(e, p) == p # 0 => p = e.start + Window \/ p <= e.start

LoginInv ==
    \A b \in Browser :
        /\ Spaced(when[b], opened[b], now)
        /\ attempts[b] = NoEntry => when[b] = <<>> /\ promised[b] = 0
        /\ attempts[b] # NoEntry =>
             /\ Counts(attempts[b], opened[b], now)
             /\ Pledged(attempts[b], promised[b])

-----------------------------------------------------------------------------
(* Typing *)

LEMMA TimeIsNat == Time \subseteq Nat
BY DEF Time

LEMMA FreshTyping == LoginTypeOK => Fresh \in Entry
BY DEF LoginTypeOK, Fresh, Entry, Time

LEMMA CountedTyping ==
    ASSUME LoginTypeOK, NEW b \in Browser
    PROVE  Current(b) \in Entry /\ Counted(b) \in Entry
<1>1. Current(b) \in Entry
  BY FreshTyping DEF LoginTypeOK, Current
<1>. QED
  BY <1>1 DEF Counted, Entry

LEMMA LoginTypeInit == LoginInit => LoginTypeOK
BY DEF LoginInit, LoginTypeOK, Time

LEMMA AdmitTyping ==
    ASSUME LoginTypeOK, NEW b \in Browser, Admit(b)
    PROVE  /\ attempts' \in [Browser -> Entry \cup {NoEntry}]
           /\ when' \in [Browser -> Seq(Time)]
           /\ opened' \in [Browser -> Seq(Time)]
           /\ promised' \in [Browser -> Nat]
<1>1. Counted(b) \in Entry /\ Counted(b).start \in Time /\ now \in Time
  BY CountedTyping DEF LoginTypeOK, Entry
<1>2. Append(when[b], now) \in Seq(Time)
      /\ Append(opened[b], Counted(b).start) \in Seq(Time)
  BY <1>1 DEF LoginTypeOK
<1>. QED
  BY <1>1, <1>2 DEF LoginTypeOK, Admit

LEMMA LoginTypeNext ==
    ASSUME LoginTypeOK, LoginInv, LoginStep \/ Forget PROVE LoginTypeOK'
<1>1. CASE Tock
  BY <1>1 DEF Tock, LoginTypeOK, limiter, tokens, Time
<1>2. CASE Forget
  <2>1. <<>> \in Seq(Time)
    OBVIOUS
  <2>2. /\ attempts' \in [Browser -> Entry \cup {NoEntry}]
        /\ when' \in [Browser -> Seq(Time)]
        /\ opened' \in [Browser -> Seq(Time)]
        /\ promised' \in [Browser -> Nat]
    BY <1>2, <2>1 DEF Forget
  <2>3. /\ now' \in Time
        /\ jar' \in [Browser -> Token \cup {NoToken}]
        /\ restarts' \in 0 .. MaxRestarts
    BY <1>2 DEF Forget, LoginTypeOK
  <2>4. /\ secret' \in 0 .. MaxRestarts
        /\ entered' \in [Browser -> 0 .. MaxTime + 1]
    BY <1>2, <2>3 DEF Forget, LoginTypeOK
  <2>. QED
    BY <2>2, <2>3, <2>4 DEF LoginTypeOK
<1>3. CASE \E b \in Browser : Refuse(b)
  <2>. PICK b \in Browser : Refuse(b)
    BY <1>3
  <2>1. Counted(b) \in Entry
    BY CountedTyping
  <2>2. RetryAt(b) \in Nat
    <3>1. Counted(b).start <= now
      <4>1. now \in Nat /\ Current(b) \in Entry
        BY CountedTyping DEF LoginTypeOK, Time
      <4>2. Current(b).start <= now
        BY <4>1 DEF LoginInv, Counts, Current, Fresh
      <4>3. Counted(b).start = Current(b).start
        BY <4>1 DEF Counted, Entry
      <4>. QED
        BY <4>2, <4>3
    <3>. QED
      BY <2>1, <3>1 DEF RetryAt, LoginTypeOK, Entry, Time
  <2>. QED
    BY <2>1, <2>2 DEF Refuse, LoginTypeOK, tokens
<1>4. CASE \E b \in Browser : WrongPassword(b)
  <2>. PICK b \in Browser : WrongPassword(b)
    BY <1>4
  <2>. QED
    BY AdmitTyping DEF WrongPassword, LoginTypeOK, tokens
<1>5. CASE \E b \in Browser : LogIn(b)
  <2>. PICK b \in Browser : LogIn(b)
    BY <1>5
  <2>1. [secret |-> secret, exp |-> now + Lifetime] \in Token
        /\ now + 1 \in 0 .. MaxTime + 1
    BY DEF LoginTypeOK, Token, Time
  <2>. QED
    BY <2>1, AdmitTyping DEF LogIn, LoginTypeOK
<1>6. CASE \E b \in Browser : LogOut(b)
  BY <1>6 DEF LogOut, LoginTypeOK, limiter
<1>. QED
  BY <1>1, <1>2, <1>3, <1>4, <1>5, <1>6 DEF LoginStep

-----------------------------------------------------------------------------
(* The invariant *)

\* An attempt is let through: it opens a window, or is counted in the open
\* one, which is not full.
LEMMA AppendSpaced ==
    ASSUME NEW w \in Seq(Time), NEW o \in Seq(Time), NEW t \in Time,
           NEW s \in Time, Spaced(w, o, t), s <= t, t < s + Window,
           \A i \in 1 .. Len(o) : o[i] = s \/ o[i] + Window <= s,
           \A i \in 1 .. Len(o) : o[i] = s => i > Len(o) + 1 - Limit,
           s = t \/ (Len(o) > 0 /\ o[Len(o)] = s)
    PROVE  Spaced(Append(w, t), Append(o, s), t)
<1>. DEFINE v == Append(w, t)
            q == Append(o, s)
<1>1. /\ Len(o) = Len(w) /\ Len(w) \in Nat
      /\ Len(v) = Len(w) + 1 /\ Len(q) = Len(w) + 1
      /\ \A i \in 1 .. Len(w) : v[i] = w[i] /\ q[i] = o[i]
      /\ v[Len(w) + 1] = t /\ q[Len(w) + 1] = s
  <2>1. Len(o) = Len(w) /\ Len(w) \in Nat
    BY DEF Spaced
  <2>2. /\ Len(v) = Len(w) + 1 /\ v[Len(w) + 1] = t
        /\ \A i \in 1 .. Len(w) : v[i] = w[i]
    OBVIOUS
  <2>3. /\ Len(q) = Len(o) + 1 /\ q[Len(o) + 1] = s
        /\ \A i \in 1 .. Len(o) : q[i] = o[i]
    OBVIOUS
  <2>. HIDE DEF v, q
  <2>. QED
    BY <2>1, <2>2, <2>3
<1>2. /\ \A i \in 1 .. Len(w) : w[i] \in Nat /\ o[i] \in Nat
      /\ t \in Nat /\ s \in Nat
  <2>1. \A i \in 1 .. Len(w) : w[i] \in Time /\ o[i] \in Time
    BY <1>1
  <2>. QED
    BY <2>1, TimeIsNat
<1>. HIDE DEF v, q
<1>3. \A i \in 1 .. Len(v) : i \in 1 .. Len(w) \/ i = Len(w) + 1
  BY <1>1
<1>4. ASSUME NEW i \in 1 .. Len(v)
      PROVE  q[i] <= v[i] /\ v[i] < q[i] + Window /\ v[i] <= t
  <2>1. CASE i = Len(w) + 1
    BY <2>1, <1>1, <1>2
  <2>2. CASE i \in 1 .. Len(w)
    BY <2>2, <1>1, <1>2 DEF Spaced
  <2>. QED
    BY <2>1, <2>2, <1>3
<1>5. ASSUME NEW i \in 1 .. Len(v), NEW j \in 1 .. Len(v), i < j
      PROVE  q[i] = q[j] \/ q[i] + Window <= q[j]
  <2>0. i \in 1 .. Len(w)
    BY <1>1, <1>5
  <2>1. CASE j = Len(w) + 1
    BY <2>0, <2>1, <1>1, <1>2
  <2>2. CASE j \in 1 .. Len(w)
    BY <2>0, <2>2, <1>1, <1>2, <1>5 DEF Spaced
  <2>. QED
    BY <2>1, <2>2, <1>3
<1>6. ASSUME NEW i \in 1 .. Len(v), i + Limit <= Len(v)
      PROVE  q[i] # q[i + Limit]
  <2>0. i \in 1 .. Len(w) /\ i + Limit \in 1 .. Len(v)
    BY <1>1, <1>6
  <2>1. CASE i + Limit = Len(w) + 1
    BY <2>0, <2>1, <1>1, <1>2
  <2>2. CASE i + Limit \in 1 .. Len(w)
    BY <2>0, <2>2, <1>1, <1>2 DEF Spaced
  <2>. QED
    BY <2>0, <2>1, <2>2, <1>3
<1>7. ASSUME NEW i \in 1 .. Len(v)
      PROVE  v[i] = q[i] \/ (i > 1 /\ q[i - 1] = q[i])
  <2>1. CASE i = Len(w) + 1
    <3>1. CASE s = t
      BY <2>1, <3>1, <1>1
    <3>2. CASE Len(o) > 0 /\ o[Len(o)] = s
      <4>1. i > 1 /\ i - 1 = Len(w) /\ i - 1 \in 1 .. Len(w)
        BY <2>1, <3>2, <1>1
      <4>. QED
        BY <2>1, <3>2, <4>1, <1>1
    <3>. QED
      BY <3>1, <3>2
  <2>2. CASE i \in 1 .. Len(w)
    <3>1. w[i] = o[i] \/ (i > 1 /\ o[i - 1] = o[i])
      BY <2>2 DEF Spaced
    <3>2. i > 1 => i - 1 \in 1 .. Len(w)
      BY <2>2
    <3>. QED
      BY <2>2, <3>1, <3>2, <1>1
  <2>. QED
    BY <2>1, <2>2, <1>3
<1>. QED
  BY <1>1, <1>4, <1>5, <1>6, <1>7 DEF Spaced, v, q

\* The entry a try is counted in, before it is counted.
LEMMA CurrentCounts ==
    ASSUME LoginTypeOK, LoginInv, NEW b \in Browser
    PROVE  LET e == Current(b)
               o == opened[b]
           IN  /\ e.start <= now /\ now < e.start + Window
               /\ Open(e) <= Len(o)
               /\ \A i \in 1 .. Len(o) :
                    IF i > Len(o) - Open(e) THEN o[i] = e.start
                                            ELSE o[i] + Window <= e.start
               /\ Pledged(e, promised[b])
<1>. DEFINE e == attempts[b]
            o == opened[b]
<1>0. /\ now \in Nat
      /\ promised[b] \in Nat
      /\ Len(o) \in Nat
      /\ \A i \in 1 .. Len(o) : o[i] \in Nat
  <2>1. o \in Seq(Time)
    BY DEF LoginTypeOK
  <2>2. \A i \in 1 .. Len(o) : o[i] \in Time
    BY <2>1
  <2>3. Len(o) \in Nat
    BY <2>1
  <2>4. now \in Nat /\ promised[b] \in Nat
    BY TimeIsNat DEF LoginTypeOK
  <2>. QED
    BY <2>2, <2>3, <2>4, TimeIsNat
<1>1. CASE e = NoEntry
  <2>1. Current(b) = Fresh /\ Len(o) = 0 /\ promised[b] = 0
    BY <1>1 DEF Current, LoginInv, Spaced
  <2>. QED
    BY <1>0, <2>1 DEF Fresh, Open, Pledged
<1>2. CASE e # NoEntry
  <2>1. /\ e \in Entry /\ e.start \in Nat /\ e.count \in Nat
        /\ Counts(e, o, now)
        /\ Pledged(e, promised[b])
    BY <1>2 DEF LoginTypeOK, LoginInv, Entry, Time
  <2>2. CASE now - e.start >= Window
    <3>1. Current(b) = Fresh
      BY <1>2, <2>2 DEF Current
    <3>2. ASSUME NEW i \in 1 .. Len(o) PROVE o[i] + Window <= now
      <4>1. o[i] = e.start \/ o[i] + Window <= e.start
        BY <2>1 DEF Counts
      <4>2. e.start + Window <= now /\ e.start <= now
        BY <1>0, <2>1, <2>2
      <4>. HIDE DEF e, o
      <4>. QED
        BY <1>0, <2>1, <4>1, <4>2
    <3>3. Pledged(Fresh, promised[b])
      BY <1>0, <2>1, <2>2 DEF Pledged, Fresh, Counts
    <3>. QED
      <4>1. /\ Fresh.start = now /\ Open(Fresh) = 0
        BY DEF Fresh, Open
      <4>2. \A i \in 1 .. Len(o) : ~(i > Len(o) - 0)
        BY <1>0
      <4>3. now <= now /\ now < now + Window
        BY <1>0
      <4>. HIDE DEF o
      <4>4. 0 <= Len(o)
        BY <1>0
      <4>5. ASSUME NEW i \in 1 .. Len(o)
            PROVE  IF i > Len(o) - 0 THEN o[i] = now ELSE o[i] + Window <= now
        BY <3>2, <4>2
      <4>. QED
        BY <3>1, <3>3, <4>1, <4>3, <4>4, <4>5 DEF o
  <2>3. CASE ~(now - e.start >= Window)
    <3>1. Current(b) = e
      BY <1>2, <2>3 DEF Current
    <3>2. e.start <= now /\ now < e.start + Window
      BY <1>0, <2>1, <2>3 DEF Counts
    <3>. QED
      BY <2>1, <3>1, <3>2 DEF Counts
  <2>. QED
    BY <2>2, <2>3
<1>. QED
  BY <1>1, <1>2

\* Only a new window has not counted any.
LEMMA CurrentBegins ==
    ASSUME LoginTypeOK, LoginInv, NEW b \in Browser, Current(b).count = 0
    PROVE  Current(b).start = now
<1>1. CASE Current(b) = Fresh
  BY <1>1 DEF Fresh
<1>2. CASE Current(b) # Fresh
  <2>1. attempts[b] # NoEntry /\ Current(b) = attempts[b]
    BY <1>2 DEF Current
  <2>2. 0 < attempts[b].count
    BY <2>1 DEF LoginInv, Counts
  <2>. QED
    BY <2>1, <2>2
<1>. QED
  BY <1>1, <1>2

LEMMA AdmitInv ==
    ASSUME LoginTypeOK, LoginInv, NEW b \in Browser, Admit(b), now' = now
    PROVE  LoginInv'
<1>. DEFINE e == Current(b)
            c == Counted(b)
            w == when[b]
            o == opened[b]
<1>1. /\ e \in Entry /\ e.count \in Nat /\ e.start \in Time
      /\ c \in Entry /\ c.start = e.start /\ c.count = e.count + 1
      /\ e.count < Limit /\ Open(e) = e.count /\ Open(c) = e.count + 1
  <2>1. e \in Entry /\ c \in Entry
    BY CountedTyping
  <2>2. e.count <= Limit
    BY <2>1 DEF Admit, Admits, Counted, Entry
  <2>3. c = [e EXCEPT !.count = @ + 1]
    BY <2>1, <2>2 DEF Counted, Entry
  <2>4. c.start = e.start /\ c.count = e.count + 1
    BY <2>1, <2>3 DEF Entry
  <2>. QED
    BY <2>1, <2>2, <2>4 DEF Admit, Admits, Open, Entry
<1>2. /\ w \in Seq(Time) /\ o \in Seq(Time) /\ now \in Time
      /\ Spaced(w, o, now) /\ Len(o) = Len(w) /\ Len(o) \in Nat
  BY DEF LoginTypeOK, LoginInv, Spaced
<1>3. \A i \in 1 .. Len(o) : o[i] \in Nat
  <2>1. \A i \in 1 .. Len(o) : o[i] \in Time
    BY <1>2
  <2>. QED
    BY <2>1, TimeIsNat
<1>4. /\ e.start <= now /\ now < e.start + Window
      /\ e.count <= Len(o)
      /\ \A i \in 1 .. Len(o) :
           IF i > Len(o) - e.count THEN o[i] = e.start
                                   ELSE o[i] + Window <= e.start
      /\ Pledged(e, promised[b])
  BY CurrentCounts, <1>1
<1>5. e.start \in Nat
  BY <1>1, TimeIsNat
<1>. DEFINE v == Append(w, now)
            q == Append(o, c.start)
<1>6. /\ attempts' = [attempts EXCEPT ![b] = c]
      /\ when' = [when EXCEPT ![b] = v]
      /\ opened' = [opened EXCEPT ![b] = q]
      /\ promised' = promised
  BY DEF Admit
<1>. HIDE DEF e, c
<1>7. Spaced(v, q, now)
  <2>1. \A i \in 1 .. Len(o) : o[i] = e.start \/ o[i] + Window <= e.start
    BY <1>4
  <2>2. \A i \in 1 .. Len(o) : o[i] = e.start => i > Len(o) + 1 - Limit
    <3>. HIDE DEF o
    <3>1. SUFFICES ASSUME NEW i \in 1 .. Len(o), o[i] = e.start
                   PROVE  i > Len(o) + 1 - Limit
      OBVIOUS
    <3>2. i > Len(o) - e.count
      BY <1>2, <1>3, <1>4, <1>5, <3>1
    <3>. QED
      BY <1>1, <1>2, <3>2
  <2>3. e.start = now \/ (Len(o) > 0 /\ o[Len(o)] = e.start)
    <3>1. CASE e.count = 0
      BY <3>1, CurrentBegins DEF e
    <3>2. CASE e.count # 0
      <4>. HIDE DEF o
      <4>1. Len(o) \in 1 .. Len(o) /\ Len(o) > Len(o) - e.count
        BY <3>2, <1>1, <1>2, <1>4
      <4>. QED
        BY <4>1, <1>4
    <3>. QED
      BY <3>1, <3>2
  <2>. QED
    BY <1>1, <1>2, <1>4, <2>1, <2>2, <2>3, AppendSpaced
<1>8. Counts(c, q, now)
  <2>1. Len(q) = Len(o) + 1 /\ q[Len(o) + 1] = e.start
        /\ \A i \in 1 .. Len(o) : q[i] = o[i]
    BY <1>1, <1>2
  <2>. HIDE DEF q, o
  <2>2. ASSUME NEW i \in 1 .. Len(q)
        PROVE  IF i > Len(q) - Open(c) THEN q[i] = c.start
                                       ELSE q[i] + Window <= c.start
    <3>0. /\ Len(o) \in Nat /\ e.count \in Nat
          /\ Open(c) = e.count + 1 /\ Len(q) = Len(o) + 1
      BY <1>1, <1>2, <2>1, Zenon
    <3>1. Len(q) - Open(c) = Len(o) - e.count
      BY <3>0
    <3>2. CASE i \in 1 .. Len(o)
      BY <3>1, <3>2, <1>1, <1>4, <2>1
    <3>3. CASE i = Len(o) + 1
      BY <3>1, <3>3, <1>1, <1>2, <2>1
    <3>. QED
      BY <3>2, <3>3, <1>2, <2>1
  <2>. QED
    BY <1>1, <1>2, <1>4, <2>1, <2>2 DEF Counts
<1>9. Pledged(c, promised[b])
  BY <1>1, <1>4 DEF Pledged
<1>. HIDE DEF v, q
<1>. SUFFICES ASSUME NEW d \in Browser
              PROVE  /\ Spaced(when'[d], opened'[d], now')
                     /\ attempts'[d] = NoEntry =>
                          when'[d] = <<>> /\ promised'[d] = 0
                     /\ attempts'[d] # NoEntry =>
                          /\ Counts(attempts'[d], opened'[d], now')
                          /\ Pledged(attempts'[d], promised'[d])
  BY DEF LoginInv
<1>10. CASE d = b
  <2>1. attempts'[b] = c /\ when'[b] = v /\ opened'[b] = q
    BY <1>6 DEF LoginTypeOK
  <2>. QED
    BY <1>10, <2>1, <1>1, <1>6, <1>7, <1>8, <1>9
<1>11. CASE d # b
  <2>1. attempts'[d] = attempts[d] /\ when'[d] = when[d]
        /\ opened'[d] = opened[d] /\ promised'[d] = promised[d]
    BY <1>6, <1>11 DEF LoginTypeOK
  <2>. QED
    BY <2>1 DEF LoginInv
<1>. QED
  BY <1>10, <1>11

\* A refused try was counted in a window that was full.
LEMMA RefusedInFull ==
    ASSUME LoginTypeOK, LoginInv, NEW b \in Browser, Refuse(b)
    PROVE  /\ attempts[b] # NoEntry
           /\ attempts[b].count >= Limit
           /\ now < attempts[b].start + Window
           /\ Counted(b) \in Entry
           /\ Counted(b).start = attempts[b].start
           /\ Counted(b).count > Limit
<1>1. Counted(b) \in Entry /\ Current(b) \in Entry
  BY CountedTyping
<1>2. Counted(b).count > Limit
  BY <1>1 DEF Refuse, Admits, Entry
<1>3. Current(b) # Fresh
  BY <1>2 DEF Counted, Fresh
<1>4. /\ attempts[b] # NoEntry
      /\ Current(b) = attempts[b]
      /\ ~(now - attempts[b].start >= Window)
  BY <1>3 DEF Current
<1>5. /\ attempts[b].count >= Limit
      /\ Counted(b).start = attempts[b].start
  BY <1>1, <1>2, <1>4 DEF Counted, Entry
<1>6. now < attempts[b].start + Window
  <2>1. attempts[b].start \in Nat /\ now \in Nat
    BY <1>1, <1>4, TimeIsNat DEF Entry, LoginTypeOK
  <2>. QED
    BY <1>4, <2>1
<1>. QED
  BY <1>1, <1>2, <1>4, <1>5, <1>6

LEMMA RefuseInv ==
    ASSUME LoginTypeOK, LoginInv, NEW b \in Browser, Refuse(b)
    PROVE  LoginInv'
<1>. DEFINE e == attempts[b]
            c == Counted(b)
            p == promised'[b]
<1>1. /\ e # NoEntry /\ e.count >= Limit /\ now < e.start + Window
      /\ c \in Entry /\ c.start = e.start /\ c.count > Limit
  BY RefusedInFull
<1>2. /\ e \in Entry /\ e.start \in Nat /\ e.count \in Nat
      /\ now \in Nat /\ promised[b] \in Nat
  <2>1. e \in Entry
    BY <1>1 DEF LoginTypeOK
  <2>2. e.start \in Time /\ e.count \in Nat
    BY <2>1 DEF Entry
  <2>. QED
    BY <2>1, <2>2, TimeIsNat DEF LoginTypeOK
<1>3. Counts(e, opened[b], now) /\ Pledged(e, promised[b])
  BY <1>1 DEF LoginInv
<1>4. Open(c) = Limit /\ Open(e) = Limit
  BY <1>1, <1>2 DEF Open
<1>5. Counts(c, opened[b], now)
  BY <1>1, <1>2, <1>3, <1>4 DEF Counts, Entry
<1>6. attempts' = [attempts EXCEPT ![b] = c]
      /\ promised' = [promised EXCEPT ![b] =
                        IF now < @ THEN @ ELSE now + (Window - (now - c.start))]
      /\ now' = now /\ when' = when /\ opened' = opened
  BY DEF Refuse, RetryAt
<1>7. Pledged(c, p)
  <2>1. p = IF now < promised[b] THEN promised[b]
                                 ELSE now + (Window - (now - c.start))
    BY <1>6 DEF LoginTypeOK
  <2>2. now + (Window - (now - c.start)) = c.start + Window
    BY <1>1, <1>2
  <2>. QED
    BY <1>1, <1>3, <2>1, <2>2 DEF Pledged
<1>8. c # NoEntry
  BY <1>1
<1>. HIDE DEF c
<1>. SUFFICES ASSUME NEW d \in Browser
              PROVE  /\ Spaced(when'[d], opened'[d], now')
                     /\ attempts'[d] = NoEntry =>
                          when'[d] = <<>> /\ promised'[d] = 0
                     /\ attempts'[d] # NoEntry =>
                          /\ Counts(attempts'[d], opened'[d], now')
                          /\ Pledged(attempts'[d], promised'[d])
  BY DEF LoginInv
<1>9. CASE d = b
  <2>1. attempts'[b] = c
    BY <1>6 DEF LoginTypeOK
  <2>. QED
    BY <1>9, <2>1, <1>5, <1>6, <1>7, <1>8 DEF LoginInv
<1>10. CASE d # b
  <2>1. attempts'[d] = attempts[d] /\ promised'[d] = promised[d]
    BY <1>6, <1>10 DEF LoginTypeOK
  <2>. QED
    BY <2>1, <1>6 DEF LoginInv
<1>. QED
  BY <1>9, <1>10

LEMMA LoginInvInit == LoginInit => LoginInv
<1>. SUFFICES ASSUME LoginInit, NEW b \in Browser
              PROVE  /\ Spaced(when[b], opened[b], now)
                     /\ attempts[b] = NoEntry
                     /\ when[b] = <<>> /\ promised[b] = 0
  BY DEF LoginInv
<1>1. /\ when[b] = <<>> /\ opened[b] = <<>>
      /\ attempts[b] = NoEntry /\ promised[b] = 0
  BY DEF LoginInit
<1>2. Spaced(<<>>, <<>>, now)
  BY DEF Spaced
<1>. QED
  BY <1>1, <1>2

LEMMA LoginInvNext ==
    ASSUME LoginTypeOK, LoginInv, [LoginStep \/ Forget]_loginVars
    PROVE  LoginInv'
<1>1. CASE Tock
  <2>1. /\ now \in Nat /\ now' = now + 1
        /\ UNCHANGED <<attempts, when, opened, promised>>
    BY <1>1, TimeIsNat DEF Tock, limiter, LoginTypeOK
  <2>2. ASSUME NEW b \in Browser, Spaced(when[b], opened[b], now)
        PROVE  Spaced(when[b], opened[b], now + 1)
    <3>1. \A i \in 1 .. Len(when[b]) : when[b][i] \in Nat
      <4>1. when[b] \in Seq(Time)
        BY DEF LoginTypeOK
      <4>2. \A i \in 1 .. Len(when[b]) : when[b][i] \in Time
        BY <4>1
      <4>. QED
        BY <4>2, TimeIsNat
    <3>. QED
      BY <2>1, <2>2, <3>1 DEF Spaced
  <2>3. ASSUME NEW b \in Browser, attempts[b] # NoEntry,
               Counts(attempts[b], opened[b], now)
        PROVE  Counts(attempts[b], opened[b], now + 1)
    <3>1. attempts[b].start \in Nat
      BY <2>3, TimeIsNat DEF LoginTypeOK, Entry
    <3>. QED
      BY <2>1, <2>3, <3>1 DEF Counts
  <2>. QED
    BY <2>1, <2>2, <2>3 DEF LoginInv
<1>2. CASE Forget
  BY <1>2 DEF Forget, LoginInv, Spaced
<1>3. CASE \E b \in Browser : Refuse(b)
  BY <1>3, RefuseInv
<1>4. CASE \E b \in Browser : WrongPassword(b)
  BY <1>4, AdmitInv DEF WrongPassword
<1>5. CASE \E b \in Browser : LogIn(b)
  BY <1>5, AdmitInv DEF LogIn
<1>6. CASE \E b \in Browser : LogOut(b)
  BY <1>6 DEF LogOut, LoginInv, limiter
<1>7. CASE UNCHANGED loginVars
  BY <1>7 DEF loginVars, LoginInv, limiter
<1>. QED
  BY <1>1, <1>2, <1>3, <1>4, <1>5, <1>6, <1>7 DEF LoginStep

-----------------------------------------------------------------------------
(* The theorems *)

LEMMA LoginInvariant == LoginSpec => [](LoginTypeOK /\ LoginInv)
<1>1. LoginInit => LoginTypeOK /\ LoginInv
  BY LoginTypeInit, LoginInvInit
<1>2. LoginTypeOK /\ LoginInv /\ [LoginStep \/ Forget]_loginVars
        => (LoginTypeOK /\ LoginInv)'
  <2>1. CASE UNCHANGED loginVars
    BY <2>1, LoginInvNext DEF loginVars, limiter, tokens, LoginTypeOK
  <2>. QED
    BY <2>1, LoginTypeNext, LoginInvNext
<1>. QED
  BY <1>1, <1>2, PTL DEF LoginSpec

\* Type correctness of the limiter and the tokens.
THEOREM LoginTyping == LoginSpec => []LoginTypeOK
BY LoginInvariant, PTL

LEMMA SpacedIsSlow ==
    ASSUME LoginTypeOK, LoginInv PROVE FewGuesses
<1>. SUFFICES ASSUME NEW b \in Browser, NEW i \in 1 .. Len(when[b]),
                     i + 2 * Limit - 1 <= Len(when[b])
              PROVE  when[b][i + 2 * Limit - 1] - when[b][i] >= Window
  BY DEF FewGuesses
<1>. DEFINE w == when[b]
            o == opened[b]
            h == i + Limit - 1
            j == i + Limit
            k == i + 2 * Limit - 1
<1>1. Spaced(w, o, now) /\ w \in Seq(Time) /\ o \in Seq(Time)
  BY DEF LoginInv, LoginTypeOK
<1>2. /\ i \in 1 .. Len(w) /\ h \in 1 .. Len(w) /\ j \in 1 .. Len(w)
      /\ k \in 1 .. Len(w)
      /\ i <= h /\ h < j /\ j <= k /\ j = i + Limit /\ k = h + Limit
      /\ h = (i - 1) + Limit /\ i < j /\ h < k
  OBVIOUS
<1>3. \A m \in 1 .. Len(w) : w[m] \in Nat /\ o[m] \in Nat
  <2>1. \A m \in 1 .. Len(w) : w[m] \in Time /\ o[m] \in Time
    BY <1>1 DEF Spaced
  <2>. QED
    BY <2>1, TimeIsNat
<1>4. i \in Nat /\ Limit \in Nat /\ Len(w) \in Nat
  BY <1>1
<1>. HIDE DEF w, o, h, j, k
\* The attempts at i and j, and those at h and k, are of different windows.
<1>5. o[i] + Window <= o[j] /\ o[h] + Window <= o[k]
  <2>1. o[i] # o[j] /\ o[h] # o[k]
    BY <1>1, <1>2 DEF Spaced
  <2>. QED
    BY <1>1, <1>2, <2>1 DEF Spaced
<1>6. w[i] < o[i] + Window /\ o[k] <= w[k]
  BY <1>1, <1>2 DEF Spaced
<1>7. /\ w[i] \in Nat /\ w[k] \in Nat
      /\ o[i] \in Nat /\ o[h] \in Nat /\ o[j] \in Nat /\ o[k] \in Nat
  BY <1>2, <1>3
<1>8. w[k] - w[i] >= Window
  \* The window of i ends before h: a whole one lies in between.
  <2>1. CASE o[i] # o[h]
    <3>1. i < h
      BY <2>1, <1>2, <1>4
    <3>2. o[i] + Window <= o[h]
      BY <1>1, <1>2, <2>1, <3>1 DEF Spaced
    <3>3. w[i] < o[h]
      BY <1>6, <1>7, <3>2
    <3>4. o[h] + Window <= w[k]
      BY <1>5, <1>6, <1>7
    <3>. QED
      BY <1>7, <3>3, <3>4
  \* The window of i has all its attempts from i to h, so it began with i.
  <2>2. CASE o[i] = o[h]
    <3>1. w[i] = o[i]
      <4>1. SUFFICES ASSUME i > 1 PROVE o[i - 1] # o[i]
        BY <1>1, <1>2 DEF Spaced
      <4>2. i - 1 \in 1 .. Len(w) /\ (i - 1) + Limit <= Len(w)
        BY <1>2, <1>4, <4>1
      <4>3. o[i - 1] # o[(i - 1) + Limit]
        BY <1>1, <4>2 DEF Spaced
      <4>. QED
        BY <1>2, <2>2, <4>3
    <3>. QED
      BY <1>5, <1>6, <1>7, <2>2, <3>1
  <2>. QED
    BY <2>1, <2>2
<1>. QED
  BY <1>8 DEF w, k

\* However an address spreads its tries over the windows, 2 * Limit of those
\* that reach the password check take at least the time of one window.
THEOREM GuessingIsSlow == LoginSpec => []FewGuesses
BY LoginInvariant, SpacedIsSlow, PTL

LEMMA RefusalIsFair ==
    ASSUME LoginTypeOK, LoginInv, NEW b \in Browser, Refuse(b),
           promised'[b] # promised[b], promised[b] # 0
    PROVE  \E i \in Since(b, promised[b]) : i + Limit - 1 <= Len(when[b])
<1>. DEFINE e == attempts[b]
            o == opened[b]
            w == when[b]
            p == promised[b]
            i == Len(w) + 1 - Limit
<1>1. /\ e # NoEntry /\ e.count >= Limit /\ now < e.start + Window
  BY RefusedInFull
<1>2. /\ Counts(e, o, now) /\ Pledged(e, p) /\ Spaced(w, o, now)
      /\ w \in Seq(Time) /\ o \in Seq(Time) /\ e \in Entry
      /\ now \in Time /\ p \in Nat
  BY <1>1 DEF LoginInv, LoginTypeOK
<1>3. ~(now < p)
  BY DEF Refuse, LoginTypeOK
<1>4. e.start \in Nat /\ e.count \in Nat /\ now \in Nat
  <2>1. e.start \in Time /\ e.count \in Nat
    BY <1>2 DEF Entry
  <2>. QED
    BY <1>2, <2>1, TimeIsNat
<1>. HIDE DEF e, o, w, p
\* The promise was about an earlier window than this one.
<1>5. p <= e.start
  <2>1. p # 0
    BY DEF p
  <2>. QED
    BY <1>1, <1>2, <1>3, <1>4, <2>1 DEF Pledged
<1>6. /\ Len(w) \in Nat /\ Len(o) = Len(w) /\ Open(e) = Limit
      /\ Limit <= Len(w)
  BY <1>1, <1>2, <1>4 DEF Spaced, Counts, Open
<1>7. i \in 1 .. Len(w) /\ i > Len(o) - Limit /\ i + Limit - 1 = Len(w)
  BY <1>6
<1>. HIDE DEF i
<1>8. o[i] = e.start /\ o[i] <= w[i]
  BY <1>2, <1>6, <1>7 DEF Counts, Spaced
<1>9. w[i] \in Nat
  <2>1. w[i] \in Time
    BY <1>2, <1>7
  <2>. QED
    BY <2>1, TimeIsNat
<1>10. w[i] >= p
  BY <1>2, <1>4, <1>5, <1>8, <1>9
<1>11. i \in Since(b, promised[b])
  BY <1>7, <1>10 DEF Since, w, p
<1>. QED
  BY <1>6, <1>7, <1>11 DEF w

LEMMA StepIsFair ==
    ASSUME LoginTypeOK, LoginInv, [LoginStep \/ Forget]_loginVars,
           NEW b \in Browser,
           promised'[b] # promised[b], promised[b] # 0, promised'[b] # 0
    PROVE  \E i \in Since(b, promised[b]) : i + Limit - 1 <= Len(when[b])
<1>1. PICK d \in Browser : Refuse(d)
  BY DEF LoginStep, Forget, Tock, WrongPassword, LogIn, LogOut, Admit,
         loginVars, limiter
<1>2. d = b
  BY <1>1 DEF Refuse, LoginTypeOK
<1>. QED
  BY <1>1, <1>2, RefusalIsFair

\* A browser that waits as long as it was told is not turned away before it
\* has had its Limit attempts.
THEOREM RefusalsAreFair == LoginSpec => PromiseKept
<1>1. LoginTypeOK /\ LoginInv /\ [LoginStep \/ Forget]_loginVars =>
        [\A b \in Browser :
          (promised'[b] # promised[b] /\ promised[b] # 0 /\ promised'[b] # 0)
            => \E i \in Since(b, promised[b]) : i + Limit - 1 <= Len(when[b])]_loginVars
  BY StepIsFair
<1>. QED
  BY <1>1, LoginInvariant, PTL DEF LoginSpec, PromiseKept
=============================================================================
