------------------------------- MODULE Shell -------------------------------
(***************************************************************************)
(* Commands of the shell bridge (bridge/sh.rs): `sh.exec` starts a command *)
(* in a process group of its own and waits for it with a timeout, `sh.kill`*)
(* ends one by its label, and a signal to the host is passed on to all of  *)
(* them.  A command may itself be an agent-block host with commands of its *)
(* own, in groups its parent cannot see: only a signal it can catch lets   *)
(* it end them.                                                            *)
(*                                                                         *)
(* Time passes in ticks.  What is due happens before the next tick.        *)
(***************************************************************************)
EXTENDS Naturals, FiniteSets

CONSTANTS Commands,  \* the commands a run starts; a smaller one has a smaller group id
          Labels,    \* the labels they are started under
          Natures,   \* "plain": ends at SIGTERM; "stubborn": ignores it; "host": passes it on
          Grace,     \* AGENT_BLOCK_TASK_GRACE_MS, in ticks
          MaxTicks   \* bound: ticks

\* cmd: the commands; live: LIVE_GROUPS; kill: the sh.kill under way; signal: the host's own ending;
\* serving: bus.serve is running; ticks: the time.
VARIABLE sh

\* at: the exec; leader, rest: the group's processes; grand: a nested host's own commands; heard: the
\* nested host's timer; answer: what the exec returned; ended: sh.kill has taken it; late: it was not
\* in the registry when the host walked it.
NoCommand == [at |-> "none", label |-> "none", nature |-> "plain", leader |-> FALSE, rest |-> FALSE, grand |-> FALSE,
              heard |-> {}, answer |-> "none", ended |-> FALSE, late |-> FALSE]
Group(label) == [label |-> label, killed |-> FALSE]
Init ==
    \E serving \in BOOLEAN :
        sh = [cmd |-> [c \in Commands |-> NoCommand], live |-> [c \in Commands |-> {}],
              kill |-> [at |-> "idle", of |-> 0, left |-> 0], signal |-> [at |-> "none", left |-> 0],
              serving |-> serving, ticks |-> 0]

Cmd(c) == sh.cmd[c]
Up == sh.signal.at # "exited"
Becomes(c, new) == sh' = [sh EXCEPT !.cmd[c] = new]

----------------------------------------------------------------------------
(* Processes *)

Dead(p) == [p EXCEPT !.leader = FALSE, !.rest = FALSE]
\* SIGKILL to a group reaches what is in the group.
Killed(p) == Dead(p)
\* SIGTERM ends what does not mind it; a nested host sets about ending its own.
Termed(p) ==
    IF ~p.leader THEN IF p.nature = "stubborn" THEN p ELSE [p EXCEPT !.rest = FALSE]
    ELSE CASE p.nature = "plain" -> Dead(p)
           [] p.nature = "host" -> IF p.heard = {} THEN [p EXCEPT !.heard = {Grace}] ELSE p
           [] OTHER -> p

\* The command ends by itself; what it started in the background may run on.
Exits(c) ==
    /\ Cmd(c).leader
    /\ \E rest \in {FALSE, Cmd(c).rest} :
            Becomes(c, [Cmd(c) EXCEPT !.leader = FALSE, !.rest = rest, !.grand = FALSE])
\* A nested host has waited its grace: it kills what it still has and leaves.
HostLeaves(c) ==
    /\ Cmd(c).leader /\ Cmd(c).heard = {0}
    /\ Becomes(c, [Dead(Cmd(c)) EXCEPT !.grand = FALSE])

----------------------------------------------------------------------------
(* sh.exec *)

remember_group(live, c, label) == [live EXCEPT ![c] = {Group(label)}]
forget_group(live, c) == [live EXCEPT ![c] = {}]
WasKilled(c) == \E g \in sh.live[c] : g.killed

Spawn(c, label, nature) ==
    /\ Up /\ Cmd(c).at = "none"
    /\ \A d \in Commands : d < c => Cmd(d).at # "none"
    /\ \/ \E rest \in BOOLEAN :
            Becomes(c, [NoCommand EXCEPT !.at = "spawned", !.label = label, !.nature = nature, !.leader = TRUE,
                                         !.rest = rest, !.grand = nature = "host",
                                         !.late = sh.signal.at = "killed"])
       \/ Becomes(c, [NoCommand EXCEPT !.at = "answered", !.answer = "error"])
Remember(c) ==
    /\ Up /\ Cmd(c).at = "spawned"
    /\ sh' = [sh EXCEPT !.cmd[c].at = "waiting", !.live = remember_group(@, c, Cmd(c).label)]

Answer(c, p, answer) ==
    sh' = [sh EXCEPT !.cmd[c] = [p EXCEPT !.at = "answered", !.answer = answer], !.live = forget_group(@, c)]

\* The command and whoever holds its output are gone.
Finished(c) ==
    /\ Up /\ Cmd(c).at = "waiting" /\ ~Cmd(c).leader
    /\ Answer(c, Cmd(c), IF WasKilled(c) THEN "killed" ELSE "ok")

\* A mistake the runs catch: the timeout leaves it to the dropped child to be killed.
TimeoutDrops(c) ==
    /\ Up /\ Cmd(c).at = "waiting"
    /\ Answer(c, [Cmd(c) EXCEPT !.leader = FALSE], "timed_out")
\* The timeout kills the whole group.  It may come at any time: the caller chose it.
TimedOut(c) ==
    /\ Up /\ Cmd(c).at = "waiting"
    /\ Answer(c, Killed(Cmd(c)), "timed_out")

\* A mistake the runs catch: a dropped exec leaves the registry.
DropForgets(c) ==
    /\ Up /\ Cmd(c).at = "waiting"
    /\ sh' = [sh EXCEPT !.cmd[c] = [@ EXCEPT !.leader = FALSE, !.at = "dropped"], !.live = forget_group(@, c)]
\* The future is dropped where it waits: kill_on_drop reaches the command alone, and nothing behind
\* the wait runs.
Dropped(c) ==
    /\ Up /\ Cmd(c).at = "waiting"
    /\ Becomes(c, [Cmd(c) EXCEPT !.leader = FALSE, !.at = "dropped"])

----------------------------------------------------------------------------
(* sh.kill *)

Labelled(label) == {c \in Commands : \E g \in sh.live[c] : g.label = label}

Terminate(c, live) ==
    sh' = [sh EXCEPT !.live = live, !.cmd[c] = [Termed(Cmd(c)) EXCEPT !.ended = TRUE],
                     !.kill = [at |-> "waiting", of |-> c, left |-> 2 * Grace]]

\* A mistake the runs catch: the group is found and signalled but not marked.
TakenUnmarked(c) == sh.live
\* Marked and found under one lock.
take_labelled(c) == [sh.live EXCEPT ![c] = {[g EXCEPT !.killed = TRUE] : g \in @}]

\* A mistake the runs catch: one grace, as long as the nested host takes to set about it.
KillAtOnce(label) ==
    /\ Up /\ sh.kill.at = "idle" /\ Labelled(label) # {}
    /\ LET c == CHOOSE c \in Labelled(label) : \A d \in Labelled(label) : c <= d
       IN  sh' = [sh EXCEPT !.live = take_labelled(c), !.cmd[c] = [Termed(Cmd(c)) EXCEPT !.ended = TRUE],
                            !.kill = [at |-> "waiting", of |-> c, left |-> 0]]
\* The first group of that label; none is answered with false.
kill_labelled(label) ==
    /\ Up /\ sh.kill.at = "idle" /\ Labelled(label) # {}
    /\ LET c == CHOOSE c \in Labelled(label) : \A d \in Labelled(label) : c <= d
       IN  Terminate(c, take_labelled(c))

\* The group is gone, or twice the grace has passed and it is killed.
KillReturns ==
    /\ Up /\ sh.kill.at = "waiting"
    /\ LET c == sh.kill.of
           gone == ~Cmd(c).leader /\ ~Cmd(c).rest
       IN  /\ gone \/ sh.kill.left = 0
           /\ sh' = [sh EXCEPT !.kill = [at |-> "idle", of |-> 0, left |-> 0],
                               !.cmd[c] = IF gone THEN @ ELSE Killed(@)]

----------------------------------------------------------------------------
(* A signal to the host *)

signal_live_groups(live, signal) ==
    [c \in Commands |-> CASE live[c] = {} -> Cmd(c)
                         [] live[c] # {} /\ signal = "SIGTERM" -> Termed(Cmd(c))
                         [] live[c] # {} /\ signal = "SIGKILL" -> Killed(Cmd(c))]

term_live_groups ==
    /\ Up /\ sh.signal.at = "none"
    /\ sh' = [sh EXCEPT !.cmd = signal_live_groups(sh.live, "SIGTERM"),
                        !.signal = [at |-> "forwarded", left |-> Grace]]
kill_live_groups ==
    /\ sh.signal.at = "forwarded" /\ sh.signal.left = 0
    /\ sh' = [sh EXCEPT !.cmd = [c \in Commands |->
                                    [signal_live_groups(sh.live, "SIGKILL")[c] EXCEPT !.late = @ \/ Cmd(c).at = "spawned"]],
                        !.live = [c \in Commands |-> {}], !.signal.at = "killed"]
\* While bus.serve is running the exit is its.
install_signal_cleanup ==
    /\ sh.signal.at = "killed" /\ ~sh.serving
    /\ sh' = [sh EXCEPT !.signal.at = "exited"]

\* Nothing that is due waits for the next tick.
tick ==
    /\ sh.ticks < MaxTicks
    /\ ~(sh.kill.at = "waiting" /\ sh.kill.left = 0)
    /\ ~(sh.signal.at = "forwarded" /\ sh.signal.left = 0)
    /\ \A c \in Commands : ~(Cmd(c).leader /\ Cmd(c).heard = {0})
    /\ sh' = [sh EXCEPT !.ticks = @ + 1,
                        !.kill.left = IF @ = 0 THEN 0 ELSE @ - 1, !.signal.left = IF @ = 0 THEN 0 ELSE @ - 1,
                        !.cmd = [c \in Commands |-> [Cmd(c) EXCEPT !.heard = {n - 1 : n \in @ \ {0}}]]]

Next ==
    \/ \E c \in Commands :
        \/ \E label \in Labels, nature \in Natures : Spawn(c, label, nature)
        \/ Remember(c) \/ Exits(c) \/ HostLeaves(c) \/ Finished(c) \/ TimedOut(c) \/ Dropped(c)
    \/ \E label \in Labels : kill_labelled(label)
    \/ KillReturns \/ term_live_groups \/ kill_live_groups \/ install_signal_cleanup \/ tick

Spec == Init /\ [][Next]_sh

----------------------------------------------------------------------------
(* Properties *)

\* A command that was ended by sh.kill says so to whoever awaits it, even when it went before the
\* signal came or caught it and left in peace; nobody else's command does.  A timeout may come first,
\* and the walk that kills everything forgets who had been killed before.
KilledIsTold ==
    sh.signal.at \in {"none", "forwarded"} =>
        \A c \in Commands : Cmd(c).answer \in {"ok", "killed"} => (Cmd(c).answer = "killed") = Cmd(c).ended

\* A timeout leaves nothing of the command's group running, whatever else had been sent to it.
TimedOutIsGone ==
    \A c \in Commands : Cmd(c).answer = "timed_out" => ~Cmd(c).leader /\ ~Cmd(c).rest

\* A signalled host that has exited left no command behind that anybody was waiting for, nor what a
\* dropped exec had left running: only what was started while it was already killing, and what an
\* answered command had put in the background.
ExitReachesAll ==
    sh.signal.at = "exited" =>
        \A c \in Commands : (Cmd(c).at # "answered" /\ ~Cmd(c).late) => ~Cmd(c).leader /\ ~Cmd(c).rest

\* A nested host that sh.kill ended has ended its own commands: it was given the time to.  (A signal
\* to the host itself gives it one grace only, and it may then be killed first.)
NestedHostLeavesNothing ==
    \A c \in Commands :
        (Cmd(c).answer = "killed" /\ sh.signal.at = "none") => ~Cmd(c).grand

\* How commands end, whoever ends them.
CommandsEnd == KilledIsTold /\ TimedOutIsGone /\ ExitReachesAll /\ NestedHostLeavesNothing
=============================================================================
