------------------------------ MODULE Serving ------------------------------
(***************************************************************************)
(* Blocks and who serves them: the scan of the block directories           *)
(* (crates/agent-block/src/blocks.rs), `agent-block serve` from its start  *)
(* to its listener (serve/mod.rs), and `agent-block mcp`, which lists and  *)
(* runs blocks and forwards the job tools to a manager over HTTP           *)
(* (mcp_serve/mod.rs, mcp_serve/jobs.rs).  Managers, clients and the user  *)
(* share the directories and the token file.                               *)
(***************************************************************************)
EXTENDS Naturals, Sequences, SequencesExt, FiniteSets

CONSTANTS Tiers,      \* block directories, nearest first
          Names,      \* names of blocks, in the order of a directory listing
          Disks,      \* what the directories may hold at first
          Managers,   \* `agent-block serve` processes
          Clients,    \* `agent-block mcp` processes
          Declared,   \* job.toml: "none", "bad" (does not parse), "own" (no block named), or a name
          MaxChanges, \* bound: changes the user makes to the disk
          MaxStarts   \* bound: starts of managers

\* disk: the entries [tier, name, form] that are there; decl: the job declaration beside each
\* entry; token: the token file, 0 when it is missing or empty; minted: tokens minted; manager,
\* client: the processes; raced, removed: two managers minted at once, the user removed the token.
VARIABLE sv

Forms == {"dir", "file"}
Entries == [tier : Range(Tiers), name : Range(Names), form : Forms]
Down == [at |-> "down", token |-> 0, saw |-> {}, jobs |-> {}]
Quiet == [at |-> "idle", token |-> 0, answer |-> "none", asked |-> {}, listed |-> << >>]

Init ==
    \E disk \in Disks, said \in Declared :
        sv = [disk |-> disk, decl |-> [e \in Entries |-> IF e.form = "dir" THEN said ELSE "own"],
              token |-> 0, minted |-> 0, manager |-> [m \in Managers |-> Down],
              client |-> [c \in Clients |-> Quiet], raced |-> FALSE, removed |-> FALSE,
              changes |-> 0, starts |-> 0]

----------------------------------------------------------------------------
(* Blocks *)

\* The project's directories of blocks before the user's; one that is not there has no entries.
block_roots == Tiers

\* The entry points of one directory by path: <name>/init.lua comes before <name>.lua.
entry_points(disk, tier) ==
    SelectSeq(FlattenSeq([k \in DOMAIN Names |->
                <<[tier |-> tier, name |-> Names[k], form |-> "dir"],
                  [tier |-> tier, name |-> Names[k], form |-> "file"]>>]),
              LAMBDA e : e \in disk)

\* A mistake the runs catch: a later directory replaces what an earlier one registered.
ScanLatest(disk) ==
    FoldLeft(LAMBDA blocks, e : Append(SelectSeq(blocks, LAMBDA b : b.name # e.name), e),
             << >>, FlattenSeq([k \in DOMAIN block_roots |-> entry_points(disk, block_roots[k])]))

\* The first entry of a name is kept and later ones are ignored.
scan(disk) ==
    FoldLeft(LAMBDA blocks, e : IF \E k \in DOMAIN blocks : blocks[k].name = e.name
                                THEN blocks ELSE Append(blocks, e),
             << >>, FlattenSeq([k \in DOMAIN block_roots |-> entry_points(disk, block_roots[k])]))

find(blocks, name) == {b \in Range(blocks) : b.name = name}

\* A declaration that does not parse, for a key it does not know or a timeout it does not give, or
\* that names a block which is not registered, fails the start.
JobFile(e) == sv.decl[e] # "bad"
Target(e) == IF sv.decl[e] = "own" THEN e.name ELSE sv.decl[e]
Unregistered(blocks) ==
    \E b \in Range(blocks) : sv.decl[b] # "none" /\ (~JobFile(b) \/ find(blocks, Target(b)) = {})
JobDecl(b, s) == [name |-> b.name, script |-> s]
scan_jobs(blocks) ==
    {JobDecl(b, s) :
        <<b, s>> \in {p \in Range(blocks) \X Range(blocks) :
                        sv.decl[p[1]] # "none" /\ p[2].name = Target(p[1])}}

----------------------------------------------------------------------------
(* agent-block serve *)

Starting == {m \in Managers : sv.manager[m].at \in {"mint", "fill"}}

\* Bound: what a client makes of the blocks alone is tried before any manager starts.
OfAManager == {"no token", "unreachable", "unauthorized", "answered"}
serve(m) ==
    /\ sv.manager[m].at = "down" /\ sv.starts < MaxStarts
    /\ \A c \in Clients : sv.client[c] = Quiet \/ sv.client[c].answer \in OfAManager
    /\ LET blocks == scan(sv.disk)
       IN  sv' = [sv EXCEPT !.starts = @ + 1,
                            !.manager[m] = IF Unregistered(blocks) THEN Down
                                           ELSE [Down EXCEPT !.at = "token", !.saw = sv.disk,
                                                             !.jobs = scan_jobs(blocks)]]

\* A mistake the runs catch: every start mints a token.
MintAlways(m) ==
    /\ sv.manager[m].at = "token"
    /\ sv' = [sv EXCEPT !.manager[m].at = "mint", !.raced = @ \/ Starting # {}]

\* A token that is there is read back; otherwise one is minted and written.
token_at(m) ==
    /\ sv.manager[m].at = "token"
    /\ sv' = [sv EXCEPT !.manager[m].at = IF sv.token = 0 THEN "mint" ELSE "bind",
                        !.manager[m].token = sv.token,
                        !.raced = @ \/ (sv.token = 0 /\ Starting # {})]

\* The write empties the file before it fills it.
Truncate(m) ==
    /\ sv.manager[m].at = "mint"
    /\ sv' = [sv EXCEPT !.manager[m].at = "fill", !.token = 0]
Fill(m) ==
    /\ sv.manager[m].at = "fill"
    /\ \/ sv' = [sv EXCEPT !.manager[m].at = "bind", !.manager[m].token = sv.minted + 1,
                           !.minted = @ + 1, !.token = sv.minted + 1]
       \/ sv' = [sv EXCEPT !.manager[m] = Down]

\* One address: a second manager fails to bind and ends, after it has gone through its start.
Bind(m) ==
    /\ sv.manager[m].at = "bind"
    /\ sv' = [sv EXCEPT !.manager[m] = IF \E o \in Managers : sv.manager[o].at = "up"
                                       THEN Down ELSE [@ EXCEPT !.at = "up"]]

Stop(m) ==
    /\ sv.manager[m].at = "up"
    /\ sv' = [sv EXCEPT !.manager[m] = Down]

----------------------------------------------------------------------------
(* agent-block mcp *)

list_tools(c) ==
    /\ sv.client[c].at = "idle" /\ sv.starts = 0 /\ sv.client[c].listed # scan(sv.disk)
    /\ sv' = [sv EXCEPT !.client[c].listed = scan(sv.disk)]

\* The directories are scanned again: what runs is what is there now.
run_block(c, name) ==
    /\ find(sv.client[c].listed, name) # {}
    /\ LET found == find(scan(sv.disk), name)
       IN  sv' = [sv EXCEPT !.client[c].asked = {}, !.client[c].listed = << >>, !.client[c].answer =
                    IF found = {} THEN "unknown"
                    ELSE IF found = find(sv.client[c].listed, name) THEN "ran" ELSE "ran another"]

\* The sources behind agent-block://block/<name>, through the registry as well.
list_resources(c) == list_tools(c)
read_uri(c, name) ==
    /\ sv.client[c].at = "idle" /\ sv.client[c].answer = "none" /\ sv.starts = 0
    /\ sv' = [sv EXCEPT !.client[c].answer =
                IF find(scan(sv.disk), name) = {} THEN "unknown" ELSE "source"]

\* The job tools and the arguments their schemas require.
tools == [jobs_list |-> {}, runs_list |-> {}, run_get |-> {"run_id"}, job_run |-> {"job"},
          run_stop |-> {"run_id"}]

\* A mistake the runs catch: the stop is taken to name its job.
StopTheJob(name) ==
    CASE name \in {"jobs_list", "runs_list"} -> {}
      [] name \in {"job_run", "run_stop"}    -> {"job"}
      [] name = "run_get"                    -> {"run_id"}

\* The arguments a job tool reads its request from.
request(name) ==
    CASE name \in {"jobs_list", "runs_list"} -> {}
      [] name = "job_run"                    -> {"job"}
      [] name \in {"run_get", "run_stop"}    -> {"run_id"}

\* Bound: a client is refused at its first call, before a manager is started or the disk changes.
Refused(c, answer, name, args) ==
    /\ sv.client[c].answer = "none" /\ sv.starts = 0 /\ sv.changes = 0
    /\ sv' = [sv EXCEPT !.client[c].answer = answer, !.client[c].asked = {<<name, args>>}]

\* A missing argument is refused before anything is sent.
jobs_call_tool(c, name, args) ==
    /\ name \in DOMAIN tools
    /\ \/ /\ request(name) \subseteq args
          /\ sv' = [sv EXCEPT !.client[c].at = "token", !.client[c].asked = {}]
       \/ ~(request(name) \subseteq args) /\ Refused(c, "invalid", name, args)

\* run_block, a job tool, or no tool of this server.
call_tool(c, name, args) ==
    /\ sv.client[c].at = "idle"
    /\ \/ \E block \in Range(Names) : name = "run_block" /\ run_block(c, block)
       \/ jobs_call_tool(c, name, args)
       \/ /\ name \notin DOMAIN tools \cup {"run_block"}
          /\ Refused(c, "unknown tool", name, args)

token(c) ==
    /\ sv.client[c].at = "token"
    /\ sv' = [sv EXCEPT !.client[c] = IF sv.token = 0 THEN [@ EXCEPT !.at = "idle", !.answer = "no token"]
                                      ELSE [@ EXCEPT !.at = "send", !.token = sv.token]]

\* The request of a job tool and the manager's check of its token.
call(c) ==
    /\ sv.client[c].at = "send"
    /\ LET up == {m \in Managers : sv.manager[m].at = "up"}
       IN  sv' = [sv EXCEPT !.client[c].at = "idle", !.client[c].token = 0,
                            !.client[c].answer =
                                IF up = {} THEN "unreachable"
                                ELSE IF \E m \in up : sv.manager[m].token = sv.client[c].token
                                THEN "answered" ELSE "unauthorized"]

----------------------------------------------------------------------------
(* The user *)

Change(e) ==
    /\ sv.changes < MaxChanges /\ \A c \in Clients : sv.client[c].asked = {}
    /\ sv' = [sv EXCEPT !.changes = @ + 1,
                        !.disk = IF e \in @ THEN @ \ {e} ELSE @ \cup {e}]
RemoveToken ==
    /\ sv.changes < MaxChanges /\ sv.token # 0
    /\ sv' = [sv EXCEPT !.changes = @ + 1, !.token = 0, !.removed = TRUE]

Next ==
    \/ \E m \in Managers :
        serve(m) \/ token_at(m) \/ Truncate(m) \/ Fill(m) \/ Bind(m) \/ Stop(m)
    \/ \E c \in Clients :
        \/ list_tools(c) \/ list_resources(c) \/ token(c) \/ call(c)
        \/ \E name \in {"run_block", "other"} : call_tool(c, name, {})
        \/ \E name \in DOMAIN tools, args \in {{}, {"job"}, {"run_id"}} : call_tool(c, name, args)
        \/ \E name \in Range(Names) : read_uri(c, name)
    \/ \E e \in UNION Disks : Change(e)
    \/ RemoveToken

Spec == Init /\ [][Next]_sv

----------------------------------------------------------------------------
(* Properties *)

\* The entry that stands for a name: the nearest directory's, the directory form before the file.
Nearer(a, b) ==
    LET at(e) == CHOOSE k \in DOMAIN Tiers : Tiers[k] = e.tier
    IN  at(a) < at(b) \/ (at(a) = at(b) /\ a.form = "dir" /\ b.form = "file")
Stands(disk, e) == e \in disk /\ \A o \in disk : (o.name = e.name /\ o # e) => Nearer(e, o)

\* A manager's jobs are those declared beside the blocks that stand for their names when it
\* started, and each runs the block that stands for its target: a shadowed block is neither run
\* nor can its declaration make a job.
JobsRunWhatStands ==
    \A m \in Managers :
        sv.manager[m].jobs = {JobDecl(b, s) : <<b, s>> \in
            {p \in sv.manager[m].saw \X sv.manager[m].saw :
                /\ Stands(sv.manager[m].saw, p[1]) /\ Stands(sv.manager[m].saw, p[2])
                /\ sv.decl[p[1]] # "none" /\ p[2].name = Target(p[1])}}

\* What the server lists it answers: a job tool called with the arguments its schema requires is
\* neither unknown nor refused for its arguments.
ListedIsAnswered ==
    \A c \in Clients : \A made \in sv.client[c].asked :
        ~(made[1] \in DOMAIN tools /\ tools[made[1]] \subseteq made[2])

\* A client that sends the token it found in the file is never turned away, over restarts of the
\* manager and starts of a second one that cannot bind, unless two managers minted at once or the
\* user removed the file.
ClientsAccepted ==
    (~sv.raced /\ ~sv.removed) => \A c \in Clients : sv.client[c].answer # "unauthorized"
=============================================================================
