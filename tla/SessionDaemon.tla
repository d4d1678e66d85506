---------------------------- MODULE SessionDaemon ----------------------------
(* The process of a memory_only or one_shot login (_run_daemon): one loop    *)
(* that tests the lifetimes of the session, waits a quarter of a second for  *)
(* a command and runs it to its end, while the local page signs in and out   *)
(* beside it.  WorkerIpc has the pipe; here is what the loop does with time. *)
EXTENDS Integers

CONSTANTS
  Idle,          \* ticks of _MEMORY_ONLY_IDLE_SECONDS
  OneShotIdle,   \* ticks of _ONE_SHOT_IDLE_SECONDS
  Absolute,      \* ticks of _MEMORY_ONLY_ABSOLUTE_SECONDS
  CommandTicks,  \* bound: ticks one command may take
  MaxLogins      \* bound: sessions in one behaviour

ASSUME DaemonAssumption ==
  /\ {Idle, OneShotIdle, Absolute, CommandTicks, MaxLogins} \subseteq Nat \ {0}
  /\ Idle < Absolute

\* The actions of the loop that matter here.  "health" reads the account to
\* report a status; malformed lines and unknown actions are "other".
Actions == {"connect", "disconnect", "health", "account", "market",
            "market_batch", "order_depth", "shutdown", "other"}
Reads    == {"account", "market", "market_batch", "order_depth", "health"}
AuthStates == {"disconnected", "awaiting_approval", "connected",
               "awaiting_disconnect"}

NoSession == 0
Unset     == -1     \* None, in a timer of the loop
Horizon   == Idle + OneShotIdle + Absolute + 2 * (CommandTicks + 1)
Ages      == 0 .. Horizon   \* ages saturate here

VARIABLES
  mode,          \* the mode argument
  pc,            \* "turn", "waiting", "serving" or "exited"
  command,       \* the command being served
  sent,          \* the session the command found
  elapsed,       \* ticks since the wait or the command began
  state,         \* auth.status().state
  session,       \* auth.session: the number of the login, or NoSession
  logins,        \* logins so far
  lastActivity,  \* now - last_activity, or Unset
  startedAt,     \* now - session_started_at, or Unset
  parent,        \* the parent process is alive and holds the pipe
  age,           \* history: the true age of the session
  unused         \* history: ticks since the login or the last counted use

authVars  == <<state, session, logins>>
timers    == <<lastActivity, startedAt>>
history   == <<age, unused>>
loopVars == <<mode, command, sent, parent>>
vars == <<pc, elapsed, loopVars, authVars, timers, history>>

Init ==
  /\ mode \in {"memory_only", "one_shot"}
  /\ pc = "turn" /\ command = "other" /\ sent = NoSession /\ elapsed = 0
  /\ state = "disconnected" /\ session = NoSession /\ logins = 0
  /\ lastActivity = Unset /\ startedAt = Unset
  /\ parent = TRUE
  /\ age = 0 /\ unused = 0

-----------------------------------------------------------------------------
(* BrowserAuth, as far as the loop sees it.                                 *)

\* auth.disconnect() and auth.invalidate_session().
DropSession ==
  /\ session' = NoSession /\ state' = "disconnected"
  /\ age' = 0 /\ unused' = 0
  /\ UNCHANGED logins

NewSession ==
  /\ logins < MaxLogins
  /\ logins' = logins + 1 /\ session' = logins + 1
  /\ state' = "connected"
  /\ age' = 0 /\ unused' = 0

\* The BankID login finishes.  A session that is there is replaced.
PageLogin ==
  /\ pc # "exited" /\ state = "awaiting_approval"
  /\ NewSession
  /\ UNCHANGED <<pc, elapsed, loopVars, timers>>

\* cancel posted from a page that is still open: the session stays.
PageCancel ==
  /\ pc # "exited" /\ state \in {"awaiting_approval", "connected"}
  /\ state' = "disconnected"
  /\ UNCHANGED <<pc, elapsed, loopVars, session, logins, timers, history>>

PageDisconnect ==
  /\ pc # "exited" /\ state = "awaiting_disconnect"
  /\ DropSession
  /\ UNCHANGED <<pc, elapsed, loopVars, timers>>

PageKeep ==
  /\ pc # "exited" /\ state = "awaiting_disconnect" /\ session # NoSession
  /\ state' = "connected"
  /\ UNCHANGED <<pc, elapsed, loopVars, session, logins, timers, history>>

-----------------------------------------------------------------------------
(* The loop.                                                                *)

Set(timer) == IF session = NoSession THEN Unset
              ELSE IF timer = Unset THEN 0 ELSE timer

\* Variant: the absolute lifetime holds in one_shot mode instead.
ExpiredSwapped(activity, started) ==
  \/ /\ activity # Unset
     /\ activity >= IF mode = "memory_only" THEN Idle ELSE OneShotIdle
  \/ mode = "one_shot" /\ started # Unset /\ started >= Absolute

\* _daemon_session_expired.
Expired(activity, started) ==
  \/ /\ activity # Unset
     /\ activity >= IF mode = "memory_only" THEN Idle ELSE OneShotIdle
  \/ mode = "memory_only" /\ started # Unset /\ started >= Absolute

\* Every way out of the loop disconnects first.
Exit ==
  /\ pc' = "exited" /\ elapsed' = 0
  /\ DropSession
  /\ UNCHANGED loopVars

\* The head of the loop, up to the wait for a line.
Turn ==
  /\ pc = "turn"
  /\ IF ~parent THEN Exit /\ UNCHANGED timers
     ELSE /\ lastActivity' = Set(lastActivity)
          /\ startedAt' = Set(startedAt)
          /\ IF session # NoSession /\ Expired(lastActivity', startedAt')
             THEN Exit
             ELSE /\ pc' = "waiting" /\ elapsed' = 0
                  /\ UNCHANGED <<loopVars, authVars, history>>

\* No line within 0.25 s.
Timeout ==
  /\ pc = "waiting"
  /\ pc' = "turn" /\ elapsed' = 0
  /\ UNCHANGED <<loopVars, authVars, timers, history>>

\* The end of the input: the parent closed the pipe or died.
EndOfInput ==
  /\ pc = "waiting" /\ ~parent
  /\ Exit
  /\ UNCHANGED timers

Receive ==
  /\ pc = "waiting" /\ parent
  /\ command' \in Actions /\ sent' = session
  /\ pc' = "serving" /\ elapsed' = 0
  /\ UNCHANGED <<mode, parent, authVars, timers, history>>

Back ==
  /\ pc' = "turn" /\ elapsed' = 0
  /\ UNCHANGED loopVars

Counted ==
  {"account"} \union
  (IF mode = "memory_only" THEN {"market", "market_batch"} ELSE {})

\* Variant: reading order depth resets the clock, too.
TouchesDepth(a) == a \in Counted \union {"order_depth"}

\* The commands that reset last_activity when they succeed.
Touches(a) == a \in Counted

\* A read of the session is answered.  The session may have gone or have been
\* replaced since; one_shot leaves after an account read.
ReadOk ==
  /\ pc = "serving" /\ command \in Reads /\ sent # NoSession
  /\ lastActivity' = IF Touches(command) THEN 0 ELSE lastActivity
  /\ UNCHANGED startedAt
  /\ IF command = "account" /\ mode = "one_shot" THEN Exit
     ELSE /\ unused' = IF command \in Counted THEN 0 ELSE unused
          /\ Back /\ UNCHANGED <<authVars, age>>

\* A read finds no session, is malformed or fails.
ReadFails ==
  /\ pc = "serving" /\ command \in Reads \union {"other"}
  /\ Back /\ UNCHANGED <<authVars, timers, history>>

\* A 401 drops the session that is there now, whichever the read used.
ReadExpired ==
  /\ pc = "serving" /\ command \in Reads /\ sent # NoSession
  /\ DropSession
  /\ Back /\ UNCHANGED timers

\* open_browser.
Connect ==
  /\ pc = "serving" /\ command = "connect"
  /\ state' = IF state = "disconnected" THEN "awaiting_approval" ELSE state
  /\ Back /\ UNCHANGED <<session, logins, timers, history>>

\* open_disconnect_browser.
Disconnect ==
  /\ pc = "serving" /\ command = "disconnect"
  /\ state' \in IF session = NoSession THEN {"disconnected"}
                ELSE {"awaiting_disconnect", "connected"}
  /\ Back /\ UNCHANGED <<session, logins, timers, history>>

Shutdown ==
  /\ pc = "serving" /\ command = "shutdown"
  /\ Exit
  /\ UNCHANGED timers

ParentDies ==
  /\ parent /\ pc # "exited"
  /\ parent' = FALSE
  /\ UNCHANGED <<pc, elapsed, mode, command, sent, authVars, timers, history>>

-----------------------------------------------------------------------------
(* Time: a tick is at least the 0.25 s of a wait, so no wait sees two.      *)

Older(a) == IF a = Unset \/ a = Horizon THEN a ELSE a + 1

Tick ==
  /\ pc \in {"waiting", "serving"}
  /\ elapsed < IF pc = "waiting" THEN 1 ELSE CommandTicks
  /\ elapsed' = elapsed + 1
  /\ lastActivity' = Older(lastActivity)
  /\ startedAt' = Older(startedAt)
  /\ age' = IF session = NoSession THEN 0 ELSE Older(age)
  /\ unused' = IF session = NoSession THEN 0 ELSE Older(unused)
  /\ UNCHANGED <<pc, loopVars, authVars>>

Loop == Turn \/ Timeout \/ EndOfInput
Serve == ReadOk \/ ReadFails \/ ReadExpired \/ Connect \/ Disconnect \/ Shutdown
Page == PageLogin \/ PageCancel \/ PageDisconnect \/ PageKeep

Next == Loop \/ Receive \/ Serve \/ Page \/ ParentDies \/ Tick

Spec == Init /\ [][Next]_vars

\* The loop turns, every request of a command has a timeout, and the clock
\* never stops, though commands may be too short for it to advance in each;
\* nobody has to send a command or use the page.
Fairness == WF_vars(Turn \/ Timeout \/ EndOfInput) /\ WF_vars(Serve)
            /\ SF_vars(Tick)
FairSpec == Spec /\ Fairness

-----------------------------------------------------------------------------
TypeOK ==
  /\ mode \in {"memory_only", "one_shot"}
  /\ pc \in {"turn", "waiting", "serving", "exited"}
  /\ command \in Actions /\ sent \in 0 .. MaxLogins
  /\ elapsed \in 0 .. CommandTicks + 1
  /\ state \in AuthStates
  /\ session \in 0 .. MaxLogins /\ logins \in 0 .. MaxLogins
  /\ lastActivity \in Ages \union {Unset} /\ startedAt \in Ages \union {Unset}
  /\ parent \in BOOLEAN
  /\ age \in Ages /\ unused \in Ages

\* The clocks start at the turn after the login and are read at a turn: a wait
\* and a command may hide the login, another wait and command the expiry.
Slack == 2 * (CommandTicks + 1)

\* No memory_only session lives longer than its absolute lifetime, whatever
\* is read and however often sessions replace each other
\* (_MEMORY_ONLY_ABSOLUTE_SECONDS).
AbsoluteLifetime ==
  mode = "memory_only" => age < Absolute + Slack

\* No session goes unused longer than the idle lifetime of its mode, where
\* only account and market reads count: reading order depth or asking for the
\* status must not keep a session alive.
IdleLifetime ==
  unused < (IF mode = "memory_only" THEN Idle ELSE OneShotIdle) + Slack

\* A session ends even if commands never stop coming: by its absolute lifetime
\* in memory_only mode, and in one_shot mode by the account read it is for or
\* by its idle lifetime, which nothing renews.
SessionEnds ==
  \A s \in 1 .. MaxLogins : session = s ~> session # s
==============================================================================
