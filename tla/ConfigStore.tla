---------------------------- MODULE ConfigStore ----------------------------
(***************************************************************************)
(* ~/.netdiag (config.py, server/routes_reports.py): config.json, which    *)
(* the Settings tab writes on the server's event loop and which runs read  *)
(* in threads of their own, and the session files.  Both are truncated and *)
(* then written, without a temporary file.                                 *)
(*                                                                         *)
(* A file is the set of what can be read from it: one content, or none if  *)
(* there is no such file or it was cut off and does not parse.             *)
(***************************************************************************)
EXTENDS Integers

CONSTANTS
    Defaults,     \* CONFIG_DEFAULTS, of the settings this instance has
    LIMITS,       \* CONFIG_LIMITS, of those that have any: <<lowest, highest>>
    Updates,      \* bodies that POST /api/config may get
    Runs,         \* the runs that save a session, 1..n in their order
    Seconds       \* values of the clock, 1..n

Numbers == {"reliability_retries", "reliability_concurrency"}

ASSUME StoreAssumption ==
    /\ Numbers \subseteq DOMAIN Defaults /\ Numbers \subseteq DOMAIN LIMITS
    /\ \A k \in Numbers :
         /\ LIMITS[k] \in Nat \X Nat
         /\ LIMITS[k][1] <= Defaults[k] /\ Defaults[k] <= LIMITS[k][2] /\ Defaults[k] \in Nat
    /\ LIMITS["reliability_concurrency"][1] >= 1
    /\ Runs \subseteq Int /\ 1 \in Seconds

Home == "~/.netdiag"
Directories == {Home, "elsewhere"}

\* The directory of the sessions is a setting without limits.
ASSUME DirectoryAssumption ==
    /\ "history_dir" \in DOMAIN Defaults \ DOMAIN LIMITS
    /\ Defaults.history_dir \in Directories
    /\ \A body \in Updates : "history_dir" \in DOMAIN body => body.history_dir \in Directories

VARIABLES
    disk,      \* config.json in the home directory
    handler,   \* the body and the settings that api_config_post is writing, if any
    up,        \* whether the server runs
    clock,
    sessions,  \* session files by directory and name
    saver,     \* the session that a worker is writing, if any
    wanted,    \* history: the settings as the user made them
    begun,     \* history: sessions whose file was opened
    kept       \* history: those of them that were written

storeVars == <<disk, handler, up, clock, sessions, saver, wanted, begun, kept>>

EmptyStore ==
    /\ disk = {} /\ handler = {} /\ up = TRUE /\ clock = 1 /\ saver = {}
    /\ sessions = [d \in Directories |-> [s \in Seconds |-> {}]]
    /\ wanted = Defaults /\ begun = {} /\ kept = {}

-----------------------------------------------------------------------------
\* config.json of a directory.  Settings are only ever saved at home.
Stored(directory) == IF directory = Home THEN disk ELSE {}

\* Without a file that parses, every setting has its default.
load_config(directory) ==
    IF Stored(directory) = {} THEN Defaults ELSE CHOOSE cfg \in Stored(directory) : TRUE

Between(limits, v) ==
    IF v < limits[1] THEN limits[1] ELSE IF v > limits[2] THEN limits[2] ELSE v

\* What is no number is no value of a setting with limits.
Accepted(body, k) == k \in DOMAIN body /\ (k \in DOMAIN LIMITS => body[k] \in Int)
Within(k, v) == IF k \in DOMAIN LIMITS THEN Between(LIMITS[k], v) ELSE v

\* Mutant: settings that the body does not name get their defaults.
UpdatedFromDefaults(cfg, body) ==
    [k \in DOMAIN Defaults |-> IF Accepted(body, k) THEN Within(k, body[k]) ELSE Defaults[k]]
\* Names that are no settings are ignored.
Updated(cfg, body) ==
    [k \in DOMAIN Defaults |-> IF Accepted(body, k) THEN Within(k, body[k]) ELSE cfg[k]]

\* What the user may expect of a body: the settings it names, and no other.
Meant(cfg, body) ==
    LET named == {k \in DOMAIN cfg : Accepted(body, k)}
    IN [k \in DOMAIN cfg |-> IF k \in named THEN Within(k, body[k]) ELSE cfg[k]]

\* The event loop handles one request at a time.
EventLoopFree == up /\ handler = {}

PostConfig(body) ==
    /\ EventLoopFree
    /\ handler' = {[body |-> body, cfg |-> Updated(load_config(Home), body)]}
    /\ disk' = {}
    /\ UNCHANGED <<up, clock, sessions, saver, wanted, begun, kept>>

WriteConfig ==
    /\ \E h \in handler : disk' = {h.cfg} /\ wanted' = Meant(wanted, h.body)
    /\ handler' = {}
    /\ UNCHANGED <<up, clock, sessions, saver, begun, kept>>

\* The disk is full: the request is answered 500, and every setting is lost.
WriteConfigFails ==
    /\ handler # {}
    /\ handler' = {} /\ wanted' = Defaults
    /\ UNCHANGED <<disk, up, clock, sessions, saver, begun, kept>>

-----------------------------------------------------------------------------
(* Sessions.                                                                *)

Tick ==
    /\ clock + 1 \in Seconds /\ clock' = clock + 1
    /\ UNCHANGED <<disk, handler, up, sessions, saver, wanted, begun, kept>>

\* Mutant: the time without the seconds.
FileNameByTheMinute(second) == 1
FileName(second) == second

\* A file of the same name is written over.
OpenSession(run, directory) ==
    /\ up /\ saver = {}
    /\ LET session == [run |-> run, directory |-> directory, second |-> clock]
       IN saver' = {session} /\ begun' = begun \union {session}
    /\ sessions' = [sessions EXCEPT ![directory][FileName(clock)] = {}]
    /\ UNCHANGED <<disk, handler, up, clock, wanted, kept>>

WriteSession ==
    /\ \E s \in saver : sessions' = [sessions EXCEPT ![s.directory][FileName(s.second)] = {s.run}]
    /\ kept' = kept \union saver /\ saver' = {}
    /\ UNCHANGED <<disk, handler, up, clock, wanted, begun>>

\* The server is killed.  What it was writing stays cut off, and if that is
\* config.json, every setting is lost.
Crash ==
    /\ up /\ up' = FALSE
    /\ handler' = {} /\ saver' = {}
    /\ wanted' = IF handler = {} THEN wanted ELSE Defaults
    /\ UNCHANGED <<disk, clock, sessions, begun, kept>>

Restart ==
    /\ ~up /\ up' = TRUE
    /\ UNCHANGED <<disk, handler, clock, sessions, saver, wanted, begun, kept>>

-----------------------------------------------------------------------------
\* The history tab lists the files of the home directory that parse.
Listed == UNION {sessions[Home][s] : s \in Seconds}

StoreTypeOK ==
    /\ \A cfg \in disk : \A k \in Numbers : cfg[k] \in LIMITS[k][1]..LIMITS[k][2]
    /\ up \in BOOLEAN /\ clock \in Seconds
    /\ Listed \subseteq Runs
    /\ handler # {} => up /\ disk = {}

\* A session that was saved is listed, whatever crashed afterwards, unless it
\* was saved elsewhere or another session was saved within the same second.
SessionsListed ==
    \A k \in kept :
        \/ k.run \in Listed
        \/ k.directory # Home
        \/ \E b \in begun : b.run > k.run /\ b.second = k.second
=============================================================================
