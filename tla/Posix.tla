-------------------------------- MODULE Posix --------------------------------
(***************************************************************************)
(* util.pposix (util-src/pposix.c) as util.startup uses it.  A program is  *)
(* started from a shell: prosody refuses to run as root and detaches       *)
(* itself (check_user, posix_daemonize), prosodyctl gives up root's rights *)
(* (switch_user).  Every system call may fail.  The processes of one start *)
(* run side by side: the one the shell started, the child of its fork, and *)
(* the child's child.                                                      *)
(***************************************************************************)
EXTENDS Naturals, FiniteSets

Proc == 1..3

VARIABLES
  program,      \* "prosody" or "prosodyctl"
  options,      \* the configuration options that are set
  at,           \* at[p]: where process p is; "none" before its fork
  sid,          \* sid[p]: the process that leads its session, 0 for another program
  console,      \* console[p]: whether its descriptors 0 to 2 are the console's
  orphan,       \* getppid() = 1 for the process the shell started
  uid, gid,     \* of the program: "root" or "prosody"
  groups,       \* whose supplementary groups it has
  names         \* what the user database says prosody_user and prosody_group are

sessionVars == <<sid, console>>
daemonVars  == <<at, sessionVars, orphan>>
userVars    == <<uid, gid, groups, names>>
posixVars   == <<program, options, daemonVars, userVars>>

(* A name may be unknown, or have an id that the int variable of lc_setuid and
   lc_setgid turns into a negative number. *)
Lookup == {"known", "unknown", "above int"}

PosixInit ==
  /\ program \in {"prosody", "prosodyctl"}
  /\ options \in SUBSET {"daemonize", "run_as_root"}
  /\ at = [p \in Proc |-> IF p = 1 THEN "started" ELSE "none"]
  /\ sid \in {[p \in Proc |-> 0], [p \in Proc |-> IF p = 1 THEN 1 ELSE 0]}
  /\ console = [p \in Proc |-> TRUE] /\ orphan \in BOOLEAN
  /\ uid \in {"root", "prosody"} /\ gid = uid /\ groups = uid
  /\ names \in [user : Lookup, group : Lookup]

Goes(p, where) == at' = [at EXCEPT ![p] = where]

-----------------------------------------------------------------------------
(* startup.check_user, and startup.posix_daemonize without the option *)
check_user ==
  /\ program = "prosody" /\ at[1] = "started"
  /\ Goes(1, IF uid = "root" /\ "run_as_root" \notin options THEN "exited"
             ELSE IF "daemonize" \in options THEN "daemonize" ELSE "serving")
  /\ UNCHANGED <<program, options, sessionVars, orphan, userVars>>

(* fork(): child c of p starts in its parent's session, with its descriptors *)
Fork(p, after, c, first) ==
  /\ at' = [at EXCEPT ![p] = after, ![c] = first]
  /\ sid' = [sid EXCEPT ![c] = sid[p]] /\ console' = [console EXCEPT ![c] = console[p]]

(* lc_daemonize up to the first fork.  When it fails posix_daemonize logs it
   and goes on in the foreground. *)
lc_daemonize ==
  /\ at[1] = "daemonize"
  /\ \/ Goes(1, "serving") /\ UNCHANGED sessionVars   \* already-daemonized, fork-failed
     \/ ~orphan /\ Fork(1, "leaving", 2, "forked")
  /\ UNCHANGED <<program, options, orphan, userVars>>

(* the child: setsid and freopen *)
lc_daemonize_setsid ==
  /\ at[2] = "forked"
  /\ \/ Goes(2, "serving") /\ UNCHANGED sessionVars   \* setsid-failed
     \/ Goes(2, "leads") /\ sid' = [sid EXCEPT ![2] = 2] /\ console' = [console EXCEPT ![2] = FALSE]
  /\ UNCHANGED <<program, options, orphan, userVars>>

(* Mutant: the session leader does not exit. *)
lc_daemonize_fork_both ==
  /\ at[2] = "leads" /\ Fork(2, "serving", 3, "serving")
  /\ UNCHANGED <<program, options, orphan, userVars>>

(* "Final fork": it returns to the grandchild, which goes on as the server,
   and with the grandchild's pid or -1 to the child, which is to leave *)
lc_daemonize_fork ==
  /\ at[2] = "leads"
  /\ \/ Goes(2, "leaving") /\ UNCHANGED sessionVars   \* the fork failed
     \/ Fork(2, "leaving", 3, "serving")
  /\ UNCHANGED <<program, options, orphan, userVars>>

(* A parent exits some time after its fork: the first one when posix_daemonize
   got the child's pid, the child by exit(0). *)
ParentExits(p) ==
  /\ at[p] = "leaving" /\ Goes(p, "exited")
  /\ UNCHANGED <<program, options, sessionVars, orphan, userVars>>

-----------------------------------------------------------------------------
(* startup.switch_user, one system call a step.  Only root may change its ids
   to another's, and any call may fail for another reason as well.  A failure
   ends the sequence with a warning, and prosodyctl goes on. *)
lc_getuid ==
  /\ program = "prosodyctl" /\ at[1] = "started"
  /\ Goes(1, IF uid = "root" /\ "run_as_root" \notin options THEN "setgid" ELSE "commands")
  /\ UNCHANGED <<program, options, sessionVars, orphan, userVars>>

(* Mutant: a failed setgid is passed over. *)
lc_setgid_ignored ==
  /\ at[1] = "setgid" /\ Goes(1, "initgroups")
  /\ gid' \in {gid, IF names.group = "known" THEN "prosody" ELSE gid}
  /\ UNCHANGED <<program, options, sessionVars, orphan, uid, groups, names>>

lc_setgid ==
  /\ at[1] = "setgid"
  /\ \/ /\ names.group = "known" /\ uid = "root"
        /\ gid' = "prosody" /\ Goes(1, "initgroups")
     \/ Goes(1, "warned") /\ UNCHANGED gid
  /\ UNCHANGED <<program, options, sessionVars, orphan, uid, groups, names>>

lc_initgroups ==
  /\ at[1] = "initgroups"
  /\ \/ /\ names.user # "unknown" /\ uid = "root"
        /\ groups' = "prosody" /\ Goes(1, "setuid")
     \/ Goes(1, "warned") /\ UNCHANGED groups
  /\ UNCHANGED <<program, options, sessionVars, orphan, uid, gid, names>>

lc_setuid ==
  /\ at[1] = "setuid"
  /\ \/ /\ names.user = "known" /\ uid = "root"
        /\ uid' = "prosody" /\ Goes(1, "commands")
     \/ Goes(1, "warned") /\ UNCHANGED uid
  /\ UNCHANGED <<program, options, sessionVars, orphan, gid, groups, names>>

PosixNext ==
  \/ check_user \/ lc_daemonize \/ lc_daemonize_setsid \/ lc_daemonize_fork
  \/ \E p \in {1, 2} : ParentExits(p)
  \/ lc_getuid \/ lc_setgid \/ lc_initgroups \/ lc_setuid

PosixSpec == PosixInit /\ [][PosixNext]_posixVars

-----------------------------------------------------------------------------
(* One start leaves at most one server, however the parent, the child and the
   grandchild are scheduled and whichever system call fails: when one serves
   every other process is about to exit and has no more to do.  The server that
   came out of both forks, which may run before its parents are gone, is in a
   session that one of those parents leads and not itself, so that it cannot be
   given a terminal once they are gone; it shares neither the session nor the
   console of the program that was started. *)
OneDetachedServer ==
  \A p \in Proc : at[p] = "serving" =>
    /\ \A q \in Proc \ {p} : at[q] \in {"none", "leaving", "exited"}
    /\ p = 3 => sid[p] \in {1, 2} \ {sid[1]} /\ at[sid[p]] \in {"leaving", "exited"} /\ ~console[p]

(* prosodyctl never keeps root's group or root's supplementary groups once it
   has given up root's uid, whichever call of switch_user fails: it is then
   either the prosody user in full or still root. *)
PrivilegesDropTogether == uid = "prosody" => gid = "prosody" /\ groups = "prosody"
=============================================================================
