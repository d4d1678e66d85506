------------------------- MODULE SessionDaemonProofs -------------------------
(* The lifetimes of SessionDaemon, for every value of the constants.  A      *)
(* timer of the loop lags behind the true age of the session: it starts at   *)
(* the turn after the login, and it is read at a turn only.  PaceInv says by *)
(* how much, at each place of the loop.                                      *)
EXTENDS SessionDaemon, TLAPS

\* The limit of last_activity.
IdleLimit == IF mode = "memory_only" THEN Idle ELSE OneShotIdle

\* A wait lasts a tick and a command CommandTicks at most.
ElapsedInv ==
  /\ pc = "waiting" => elapsed <= 1
  /\ pc = "serving" => elapsed <= CommandTicks

\* Without a session nothing ages.
NoneInv == session = NoSession => age = 0 /\ unused = 0

\* What a timer of the loop may read where the loop is, and what it hides of
\* the true time.
Started(timer, true) ==
  /\ timer = Unset =>
       /\ pc = "turn"    => true <= CommandTicks + 1
       /\ pc = "waiting" => true <= elapsed
       /\ pc = "serving" => true <= elapsed + 1
  /\ timer # Unset => true <= timer + CommandTicks + 1

Tested(timer, limit) ==
  timer # Unset =>
    /\ pc = "turn"    => timer <= limit + CommandTicks
    /\ pc = "waiting" => timer < limit + elapsed
    /\ pc = "serving" => timer <= limit + elapsed

PaceInv ==
  /\ Started(lastActivity, unused) /\ Tested(lastActivity, IdleLimit)
  /\ mode = "memory_only" =>
       Started(startedAt, age) /\ Tested(startedAt, Absolute)

ExitedInv == pc = "exited" => session = NoSession

Inv == TypeOK /\ ElapsedInv /\ NoneInv /\ ExitedInv /\ PaceInv

LEMMA Constants ==
  /\ {Idle, OneShotIdle, Absolute, CommandTicks, MaxLogins} \subseteq Nat \ {0}
  /\ Horizon \in Nat
  /\ Horizon = Idle + OneShotIdle + Absolute + 2 * (CommandTicks + 1)
BY DaemonAssumption DEF DaemonAssumption, Horizon

LEMMA InitInv == Init => Inv
<1> SUFFICES ASSUME Init PROVE Inv
  OBVIOUS
<1> USE Constants DEF Init, Unset, NoSession
<1>1. TypeOK
  BY DEF TypeOK, Actions, AuthStates, Ages
<1>2. ElapsedInv /\ NoneInv /\ ExitedInv /\ PaceInv
  BY DEF ElapsedInv, NoneInv, ExitedInv, PaceInv, Started, Tested
<1>. QED BY <1>1, <1>2 DEF Inv

\* A login or the loss of the session, without a move of the loop.
LEMMA PageStep ==
  ASSUME Inv, Page
  PROVE  Inv'
<1>1. /\ pc # "exited" /\ UNCHANGED <<pc, elapsed, loopVars, timers>>
      /\ state' \in AuthStates
      /\ logins' \in 0 .. MaxLogins /\ session' \in 0 .. MaxLogins
      /\ \/ age' = 0 /\ unused' = 0
         \/ UNCHANGED <<session, history>>
  BY Constants DEF Inv, TypeOK, Page, PageLogin, PageCancel, PageDisconnect,
       PageKeep, DropSession, NewSession, AuthStates, NoSession
<1> USE Constants, <1>1 DEF loopVars, timers, history, Inv
<1>2. TypeOK'
  BY DEF TypeOK, Ages
<1>3. ElapsedInv' /\ NoneInv' /\ ExitedInv'
  BY DEF ElapsedInv, NoneInv, ExitedInv
<1>4. PaceInv'
  <2>1. CASE age' = 0 /\ unused' = 0
    BY <2>1 DEF PaceInv, Started, Tested, IdleLimit, TypeOK, Ages, Unset
  <2>2. CASE UNCHANGED history
    BY <2>2 DEF PaceInv, Started, Tested, IdleLimit
  <2>. QED BY <2>1, <2>2
<1>. QED BY <1>2, <1>3, <1>4

\* Every way out drops the session.
LEMMA ExitStep ==
  ASSUME Inv, Exit,
         lastActivity' \in Ages \union {Unset}, startedAt' \in Ages \union {Unset}
  PROVE  Inv'
<1> USE Constants DEF Exit, DropSession, loopVars, Inv, NoSession
<1>1. TypeOK'
  BY DEF TypeOK, AuthStates, Ages
<1>2. ElapsedInv' /\ NoneInv' /\ ExitedInv'
  BY DEF ElapsedInv, NoneInv, ExitedInv
<1>3. PaceInv'
  BY DEF PaceInv, Started, Tested, Ages, Unset, TypeOK
<1>. QED BY <1>1, <1>2, <1>3

\* The head of the loop sets and tests the timers.
LEMMA TurnStep ==
  ASSUME Inv, Turn
  PROVE  Inv'
<1>1. CASE ~parent
  <2>1. Exit /\ UNCHANGED timers
    BY <1>1 DEF Turn
  <2>. QED BY <2>1, ExitStep DEF timers, Inv, TypeOK
<1>2. CASE parent
  <2>1. lastActivity' = Set(lastActivity) /\ startedAt' = Set(startedAt)
    BY <1>2 DEF Turn
  <2>2. lastActivity' \in Ages \union {Unset} /\ startedAt' \in Ages \union {Unset}
    BY <2>1, Constants DEF Set, Inv, TypeOK, Ages
  <2>3. CASE session # NoSession /\ Expired(lastActivity', startedAt')
    BY <1>2, <2>2, <2>3, ExitStep DEF Turn
  <2>4. CASE ~(session # NoSession /\ Expired(lastActivity', startedAt'))
    <3>1. /\ pc = "turn" /\ pc' = "waiting" /\ elapsed' = 0
          /\ UNCHANGED <<loopVars, authVars, history>>
      BY <1>2, <2>4 DEF Turn
    <3> USE Constants, <3>1 DEF loopVars, authVars, history, Inv
    <3>2. TypeOK'
      BY <2>2 DEF TypeOK
    <3>3. ElapsedInv' /\ NoneInv' /\ ExitedInv'
      BY DEF ElapsedInv, NoneInv, ExitedInv
    <3>4. Started(lastActivity, unused)' /\ Tested(lastActivity, IdleLimit)'
      <4>1. CASE session = NoSession
        BY <4>1, <2>1 DEF Set, Started, Tested, NoneInv
      <4>2. CASE session # NoSession
        BY <4>2, <2>1, <2>4, <2>2 DEF Set, Started, Tested, Expired, PaceInv,
             IdleLimit, TypeOK, Ages, Unset
      <4>. QED BY <4>1, <4>2
    <3>5. ASSUME mode' = "memory_only"
          PROVE  Started(startedAt, age)' /\ Tested(startedAt, Absolute)'
      <4>1. CASE session = NoSession
        BY <4>1, <2>1 DEF Set, Started, Tested, NoneInv
      <4>2. CASE session # NoSession
        BY <4>2, <2>1, <2>4, <2>2, <3>5 DEF Set, Started, Tested, Expired,
             PaceInv, TypeOK, Ages, Unset
      <4>. QED BY <4>1, <4>2
    <3>. QED BY <3>2, <3>3, <3>4, <3>5 DEF PaceInv
  <2>. QED BY <2>3, <2>4
<1>. QED BY <1>1, <1>2 DEF Inv, TypeOK

LEMMA WaitStep ==
  ASSUME Inv, Timeout \/ Receive
  PROVE  Inv'
<1> USE Constants DEF Inv, loopVars, authVars, timers, history
<1>1. TypeOK'
  BY DEF TypeOK, Timeout, Receive
<1>2. ElapsedInv' /\ NoneInv' /\ ExitedInv'
  BY DEF ElapsedInv, NoneInv, ExitedInv, Timeout, Receive
<1>3. PaceInv'
  BY DEF PaceInv, Started, Tested, IdleLimit, Timeout, Receive, ElapsedInv,
       TypeOK, Ages, Unset
<1>. QED BY <1>1, <1>2, <1>3

\* A command is over and leaves the session, loses it, or has used it.
LEMMA BackStep ==
  ASSUME Inv, pc = "serving", Back, UNCHANGED startedAt,
         state' \in AuthStates,
         UNCHANGED <<session, logins>> \/ (session' = NoSession /\ UNCHANGED logins),
         \/ UNCHANGED history
         \/ age' = 0 /\ unused' = 0
         \/ age' = age /\ unused' = 0,
         session' = NoSession => age' = 0 /\ unused' = 0,
         \/ UNCHANGED lastActivity
         \/ lastActivity' = 0 /\ unused' = 0
  PROVE  Inv'
<1> USE Constants DEF Inv, Back, loopVars, history
<1>1. TypeOK'
  BY DEF TypeOK, Ages, NoSession
<1>2. ElapsedInv' /\ NoneInv' /\ ExitedInv'
  BY DEF ElapsedInv, NoneInv, ExitedInv
<1>3. Started(lastActivity, unused)' /\ Tested(lastActivity, IdleLimit)'
  BY DEF PaceInv, Started, Tested, IdleLimit, ElapsedInv, TypeOK, Ages, Unset
<1>4. mode' = "memory_only" => Started(startedAt, age)' /\ Tested(startedAt, Absolute)'
  BY DEF PaceInv, Started, Tested, ElapsedInv, TypeOK, Ages, Unset
<1>. QED BY <1>1, <1>2, <1>3, <1>4 DEF PaceInv

LEMMA ServeStep ==
  ASSUME Inv, Serve
  PROVE  Inv'
<1>1. CASE Shutdown
  BY <1>1, ExitStep DEF Shutdown, timers, Inv, TypeOK
<1>2. CASE ReadOk
  <2>1. lastActivity' \in Ages \union {Unset}
    BY <1>2, Constants DEF ReadOk, Inv, TypeOK, Ages
  <2>2. CASE command = "account" /\ mode = "one_shot"
    BY <1>2, <2>1, <2>2, ExitStep DEF ReadOk, Inv, TypeOK
  <2>3. CASE ~(command = "account" /\ mode = "one_shot")
    <3>1. /\ Back /\ UNCHANGED <<authVars, age>>
          /\ pc = "serving" /\ UNCHANGED startedAt
          /\ unused' = IF command \in Counted THEN 0 ELSE unused
          /\ lastActivity' = IF command \in Counted THEN 0 ELSE lastActivity
      BY <1>2, <2>3 DEF ReadOk, Touches
    <3>2. session' = NoSession => age' = 0 /\ unused' = 0
      BY <3>1 DEF Inv, NoneInv, authVars
    <3>. QED BY <3>1, <3>2, BackStep DEF authVars, history, Inv, TypeOK
  <2>. QED BY <2>2, <2>3
<1>3. CASE ReadFails
  BY <1>3, BackStep DEF ReadFails, authVars, timers, history, Inv, TypeOK, NoneInv
<1>4. CASE ReadExpired
  BY <1>4, BackStep DEF ReadExpired, DropSession, timers, AuthStates
<1>5. CASE Connect
  BY <1>5, BackStep DEF Connect, timers, history, AuthStates, Inv, TypeOK, NoneInv
<1>6. CASE Disconnect
  BY <1>6, BackStep DEF Disconnect, timers, history, AuthStates, Inv, NoneInv
<1>. QED BY <1>1, <1>2, <1>3, <1>4, <1>5, <1>6 DEF Serve

\* A tick ages the timer and the true time alike: no timer is at the Horizon
\* while its limit is tested.
LEMMA TickStep ==
  ASSUME Inv, Tick
  PROVE  Inv'
<1> USE Constants DEF Inv, Tick, loopVars, authVars
<1>1. TypeOK'
  BY DEF TypeOK, Ages, Older, Unset
<1>2. ElapsedInv' /\ NoneInv' /\ ExitedInv'
  BY DEF ElapsedInv, NoneInv, ExitedInv, TypeOK
<1>3. unused' <= unused + 1 /\ age' <= age + 1
  BY DEF Older, TypeOK, Ages, Unset
<1>4. Started(lastActivity, unused)' /\ Tested(lastActivity, IdleLimit)'
  <2>1. lastActivity # Unset =>
          lastActivity < Horizon /\ lastActivity' = lastActivity + 1
    BY DEF PaceInv, Tested, IdleLimit, Older, ElapsedInv, TypeOK, Ages, Unset
  <2>2. (lastActivity = Unset) = (lastActivity' = Unset)
    BY <2>1 DEF Older, TypeOK, Ages, Unset
  <2>. QED BY <1>3, <2>1, <2>2, <1>1 DEF PaceInv, Started, Tested, IdleLimit,
             TypeOK, Ages, Unset
<1>5. ASSUME mode' = "memory_only"
      PROVE  Started(startedAt, age)' /\ Tested(startedAt, Absolute)'
  <2>1. startedAt # Unset =>
          startedAt < Horizon /\ startedAt' = startedAt + 1
    BY <1>5 DEF PaceInv, Tested, Older, ElapsedInv, TypeOK, Ages, Unset
  <2>2. (startedAt = Unset) = (startedAt' = Unset)
    BY <2>1 DEF Older, TypeOK, Ages, Unset
  <2>. QED BY <1>5, <1>3, <2>1, <2>2, <1>1 DEF PaceInv, Started, Tested,
             TypeOK, Ages, Unset
<1>. QED BY <1>1, <1>2, <1>4, <1>5 DEF PaceInv

LEMMA ParentStep ==
  ASSUME Inv, ParentDies
  PROVE  Inv'
BY DEF Inv, ParentDies, authVars, timers, history, TypeOK, ElapsedInv, NoneInv,
       ExitedInv, PaceInv, Started, Tested, IdleLimit

LEMMA InvIsInductive == Inv /\ [Next]_vars => Inv'
<1> SUFFICES ASSUME Inv, [Next]_vars PROVE Inv'
  OBVIOUS
<1>1. CASE Turn        BY <1>1, TurnStep
<1>2. CASE Timeout     BY <1>2, WaitStep
<1>3. CASE EndOfInput
  BY <1>3, ExitStep DEF EndOfInput, timers, Inv, TypeOK
<1>4. CASE Receive     BY <1>4, WaitStep
<1>5. CASE Serve       BY <1>5, ServeStep
<1>6. CASE Page        BY <1>6, PageStep
<1>7. CASE ParentDies  BY <1>7, ParentStep
<1>8. CASE Tick        BY <1>8, TickStep
<1>9. CASE UNCHANGED vars
  BY <1>9 DEF vars, loopVars, authVars, timers, history, Inv, TypeOK,
     ElapsedInv, NoneInv, ExitedInv, PaceInv, Started, Tested, IdleLimit
<1>. QED BY <1>1, <1>2, <1>3, <1>4, <1>5, <1>6, <1>7, <1>8, <1>9 DEF Next, Loop

\* Types, the bounds on the timers and on what they hide, in every state.
THEOREM DaemonTypes == Spec => []TypeOK
<1>1. Inv => TypeOK
  BY DEF Inv
<1>. QED BY <1>1, InitInv, InvIsInductive, PTL DEF Spec

LEMMA Bounds == Inv => AbsoluteLifetime /\ IdleLifetime
<1> SUFFICES ASSUME Inv PROVE AbsoluteLifetime /\ IdleLifetime
  OBVIOUS
<1> USE Constants DEF Inv
<1>1. CASE pc = "exited"
  BY <1>1 DEF ExitedInv, NoneInv, AbsoluteLifetime, IdleLifetime, Slack
<1>2. CASE pc # "exited"
  BY <1>2 DEF TypeOK, Ages, ElapsedInv, PaceInv, Started, Tested, IdleLimit,
       AbsoluteLifetime, IdleLifetime, Slack, Unset
<1>. QED BY <1>1, <1>2

\* A memory_only session outlives its absolute lifetime by no more than two
\* waits and two commands, however long the lifetimes and the commands are.
THEOREM AbsoluteLimit == Spec => []AbsoluteLifetime
BY Bounds, InitInv, InvIsInductive, PTL DEF Spec

\* An unused session outlives the idle lifetime of its mode by no more.
THEOREM IdleLimited == Spec => []IdleLifetime
BY Bounds, InitInv, InvIsInductive, PTL DEF Spec
==============================================================================
