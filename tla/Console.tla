------------------------------ MODULE Console ------------------------------
(***************************************************************************)
(* `muro tui' (internal/tui): a list of sandboxes and a console that        *)
(* follows the one that is highlighted, over AttachStream's connections.   *)
(*                                                                         *)
(* Model.Update handles one message at a time.  A command it returns runs  *)
(* in a goroutine of its own and its result comes back as a message, so    *)
(* that sessions answer in any order.  A dialled connection of the console *)
(* is `answered' or `refused' while its sessionOpenedMsg is on the way.    *)
(* Every connection is the console's.                                      *)
(***************************************************************************)
EXTENDS AttachStream

VARIABLES
  sel,       \* the highlighted sandbox
  listed,    \* the attachable ones, as the last statusMsg had it
  sess,      \* Model.sess: a connection, or None
  showing,   \* Model.sessTarget
  pending,   \* Model.pendingTarget
  focus,     \* "list" or "console"
  starting   \* a restart or launch under way: [target, up], or None

consoleVars == <<sel, listed, sess, showing, pending, focus, starting>>
vars == <<streamVars, consoleVars>>

Live(c) == ~conn[c].server
Starting(s) == [target |-> s, up |-> FALSE]

(* switchToCmd. *)
SwitchTo(s) ==
  /\ pending' = s
  /\ \E c \in Conn : Dial(c, s)

(* followSelectionCmd: nothing, if the console shows it or it cannot be
   attached to.  ls is the list the selection is looked up in. *)
FollowSelection(s, ls) ==
  IF showing = s \/ s \notin ls
  THEN UNCHANGED <<streamVars, pending>>
  ELSE SwitchTo(s)

----------------------------------------------------------------------------
(* Keys in the list. *)

MoveSelection(s) ==
  /\ focus = "list" /\ s # sel
  /\ sel' = s
  /\ FollowSelection(s, listed)
  /\ UNCHANGED <<listed, sess, showing, focus, starting>>

Enter ==
  /\ focus = "list"
  /\ \/ /\ sel \notin listed /\ starting = None
        /\ starting' = Starting(sel)
        /\ UNCHANGED <<streamVars, pending, focus>>
     \/ /\ sel \in listed
        /\ focus' = "console"
        /\ IF sess # None /\ showing = sel /\ Live(sess)
           THEN UNCHANGED <<streamVars, pending>>
           ELSE SwitchTo(sel)
        /\ UNCHANGED starting
  /\ UNCHANGED <<sel, listed, sess, showing>>

(* Enter in the launch form, for a sandbox that does not run. *)
LaunchForm(s) ==
  /\ focus = "list" /\ starting = None
  /\ life[s] = "down"
  /\ starting' = Starting(s)
  /\ UNCHANGED <<streamVars, sel, listed, sess, showing, pending, focus>>

----------------------------------------------------------------------------
(* Keys in the console: what is typed goes to the session; F2; and Ctrl-P Ctrl-Q,
   which murod answers. *)

TypeKeys ==
  /\ focus = "console" /\ sess # None
  /\ Type(sess)
  /\ UNCHANGED consoleVars

LeaveConsole ==
  /\ focus = "console"
  /\ focus' = "list"
  /\ UNCHANGED <<streamVars, sel, listed, sess, showing, pending, starting>>

DetachConsole ==
  /\ focus = "console" /\ sess # None
  /\ DetachKeys(sess)
  /\ UNCHANGED consoleVars

----------------------------------------------------------------------------
(* Messages. *)

(* paneTickMsg: the session has ended. *)
PaneTick ==
  /\ focus = "console" /\ sess # None /\ ~Live(sess)
  /\ focus' = "list"
  /\ UNCHANGED <<streamVars, sel, listed, sess, showing, pending, starting>>

(* statusMsg, the poll answered and handled in one step: what is up is listed,
   and what is down may be, while its record is active.  The list keeps its
   cursor's index, so that a sandbox that has come or gone since, whatever else
   the namespace holds, may put it on another one. *)
Up == {s \in Sandbox : life[s] = "up"}

Status ==
  /\ UNCHANGED <<sess, showing, focus, starting>>
  /\ \E ls \in SUBSET Sandbox, s \in Sandbox :
       /\ listed' = ls /\ sel' = s
       /\ Up \subseteq ls
       /\ FollowSelection(s, ls)

(* sessionOpenedMsg.  Slip: the superseded session is dropped and stays open. *)
SupersededLeaks(c) ==
  /\ conn[c].client \in {"answered", "refused"} /\ conn[c].target # pending
  /\ conn' = [conn EXCEPT ![c].client = IF @ = "answered" THEN "open" ELSE "closed"]
  /\ UNCHANGED <<sess, showing>>

(* openSession has closed a connection that was refused. *)
Superseded(c) ==
  /\ conn[c].client \in {"answered", "refused"} /\ conn[c].target # pending
  /\ conn' = Hangup(c)
  /\ UNCHANGED <<sess, showing>>

(* The connections once the console has let go of its session. *)
Released == IF sess = None THEN conn ELSE Hangup(sess)

(* Slip: the answer is shown whatever was asked for since. *)
OpenedAnyhow(c) ==
  /\ conn[c].client = "answered"
  /\ conn' = [Released EXCEPT ![c].client = "open"]
  /\ sess' = c /\ showing' = conn[c].target

Opened(c) ==
  /\ conn[c].client = "answered" /\ conn[c].target = pending
  /\ conn' = [Released EXCEPT ![c].client = "open"]
  /\ sess' = c /\ showing' = pending

(* Slip: the console goes on saying what it shows. *)
OpenFailedKeeps(c) ==
  /\ conn[c].client = "refused" /\ conn[c].target = pending
  /\ conn' = [Released EXCEPT ![c].client = "closed"]
  /\ sess' = None /\ UNCHANGED showing

OpenFailed(c) ==
  /\ conn[c].client = "refused" /\ conn[c].target = pending
  /\ conn' = [Released EXCEPT ![c].client = "closed"]
  /\ sess' = None /\ showing' = None

SessionOpened(c) ==
  /\ Superseded(c) \/ Opened(c) \/ OpenFailed(c)
  /\ UNCHANGED <<life, slot, shim, keys, stops, launches,
                 sel, listed, pending, focus, starting>>

(* restartedMsg and launchedMsg: an error, or the new sandbox is dialled. *)
Started ==
  /\ starting # None
  /\ starting' = None
  /\ \/ /\ ~starting.up
        /\ UNCHANGED <<streamVars, pending, focus>>
     \/ /\ starting.up
        /\ focus' = "console"
        /\ SwitchTo(starting.target)
  /\ UNCHANGED <<sel, listed, sess, showing>>

----------------------------------------------------------------------------
(* The sandboxes, one of which may be coming up because the console asked. *)

LaunchStep(s) ==
  /\ Launch(s)
  /\ starting' = IF starting = Starting(s) THEN [starting EXCEPT !.up = TRUE]
                 ELSE starting
  /\ UNCHANGED <<sel, listed, sess, showing, pending, focus>>

----------------------------------------------------------------------------
Init ==
  /\ StreamInit
  /\ sel \in Sandbox /\ listed = {}
  /\ sess = None /\ showing = None /\ pending = None
  /\ focus = "list" /\ starting = None

Operator ==
  \/ \E s \in Sandbox : MoveSelection(s) \/ LaunchForm(s)
  \/ Enter \/ TypeKeys \/ LeaveConsole \/ DetachConsole

Message == PaneTick \/ Started \/ \E c \in Conn : SessionOpened(c)

Stream ==
  /\ \/ \E c \in Conn : HandlerStep(c)
     \/ \E s \in Sandbox : \/ DrainStep(s) \/ ServeStep(s) \/ TakeKeys(s)
                           \/ ForceDetach(s) \/ Exit(s)
  /\ UNCHANGED consoleVars

Next ==
  \/ Operator \/ Message \/ Status \/ Stream
  \/ \E s \in Sandbox : LaunchStep(s)

Spec == Init /\ [][Next]_vars

(* What the console needs of the others to catch up: handlers and shims are
   scheduled, an answer is handled, and the status is polled for ever. *)
FairSpec ==
  /\ Spec
  /\ \A c \in Conn : WF_vars(\/ UNCHANGED consoleVars /\ HandlerStep(c)
                             \/ SessionOpened(c))
  /\ \A s \in Sandbox : WF_vars(UNCHANGED consoleVars /\ ServeStep(s))
  /\ WF_vars(Status)
=============================================================================
