--------------------------- MODULE ApprovalTokens ---------------------------
(***************************************************************************)
(* The approvals that wait for the user: ApprovalTokenStore, used by the    *)
(* email.schedule tool (EmailScheduleExecutor) and by the remediation       *)
(* methods of the gateway's governance.  Each of the two has a store object *)
(* of its own over one file, approvals.json; every operation reads the      *)
(* file, and one that changes it writes a temporary file and renames it,    *)
(* under a mutex that both objects find by the path.                        *)
(*                                                                         *)
(* A call is a list of such operations; threads interleave between them and *)
(* inside them, files fail and the process may crash.  The token of a call  *)
(* is made of its type, the time and how long it lasts, so two calls of one *)
(* instant may share it: the session of the later one then replaces that of *)
(* the other.  Of a message only its identity is kept.                      *)
(***************************************************************************)
EXTENDS Naturals, Sequences, SequencesExt

CONSTANTS
    Threads, Mails,
    Lifetimes,   \* how long a token may last
    DiskFaults,  \* of {"read", "open", "write", "rename"}: what may fail
    NoMail,      \* the payload of a remediation
    Torn,        \* the content of a file that was cut off
    MaxClock     \* bound on the time

ASSUME ApprovalAssumption ==
    /\ Lifetimes \subseteq Nat \ {0}
    /\ DiskFaults \subseteq {"read", "open", "write", "rename"}
    /\ NoMail \notin Mails

Types == {"email", "remediation"}
Tokens == [type : Types, at : Nat, lasts : Lifetimes]
Sessions == [mail : Mails \cup {NoMail}, expires : Nat]
NoToken == [type |-> "none", at |-> 0, lasts |-> 0]
Steps == {"init", "save", "prune", "load", "deliver", "remove"}

\* What a file may hold: sessions by token, or a text that was cut off.
Content(f) == DOMAIN f \subseteq Tokens /\ \A k \in DOMAIN f : f[k] \in Sessions

VARIABLES
    clock,
    file,     \* approvals.json
    temp,     \* approvals.json.tmp
    ready,    \* the store objects that know their file, by who owns them
    job,      \* of a thread: whose call, its token, session and time, and what the user said
    todo,     \* of a thread: the operations left, the one under way first
    at,       \* of a thread: where in that operation it is
    root,     \* of a thread: the JSON it read
    blind,    \* history: the threads about to write what they did not read from the file
    closed,   \* history: the tokens of messages used or cancelled, and not saved again
    kept,     \* history: those of them that could not be removed
    sent      \* history: what was delivered

threadVars == <<job, todo, at, root>>
ghosts == <<blind, closed, kept, sent>>
approvalVars == <<clock, file, temp, ready, threadVars, ghosts>>

NoJob == [owner |-> "none", token |-> NoToken, session |-> [mail |-> NoMail, expires |-> 0],
          time |-> 0, yes |-> FALSE, late |-> FALSE]
Empty == [k \in {} |-> NoJob.session]

ApprovalInit ==
    /\ clock = 1
    /\ file \in {Empty, Torn} /\ temp = Empty
    /\ ready = {}
    /\ job = [t \in Threads |-> NoJob]
    /\ todo = [t \in Threads |-> <<>>]
    /\ at = [t \in Threads |-> "read"]
    /\ root = [t \in Threads |-> Empty]
    /\ blind = {} /\ closed = {} /\ kept = {} /\ sent = {}

-----------------------------------------------------------------------------
(* Calls. *)

Starting(owner) == \E t \in Threads : job[t].owner = owner /\ "init" \in ToSet(todo[t])

Begin(t, j, steps) ==
    /\ todo[t] = <<>>
    /\ job' = [job EXCEPT ![t] = j]
    /\ todo' = [todo EXCEPT ![t] = steps]
    /\ UNCHANGED <<clock, file, temp, ready, at, root, ghosts>>

\* The tool's store is initialised by the first call that needs it; others wait for it.
WhenReady(steps) == IF "email" \in ready THEN steps ELSE <<"init">> \o steps

\* StartRuntimeServices; the gateway is started once in a process.
StartServices(t) ==
    /\ "gateway" \notin ready /\ ~Starting("gateway")
    /\ Begin(t, [NoJob EXCEPT !.owner = "gateway"], <<"init">>)

\* email.schedule, action "prepare".
Prepare(t, mail, lasts) ==
    /\ ~Starting("email")
    /\ Begin(t, [NoJob EXCEPT !.owner = "email",
                              !.token = [type |-> "email", at |-> clock, lasts |-> lasts],
                              !.session = [mail |-> mail, expires |-> clock + lasts],
                              !.time = clock],
             WhenReady(<<"save", "prune">>))

\* email.schedule, action "approve".
Approve(t, token, yes) ==
    /\ ~Starting("email")
    /\ Begin(t, [NoJob EXCEPT !.owner = "email", !.token = token, !.time = clock, !.yes = yes],
             WhenReady(IF yes THEN <<"load", "deliver", "remove">> ELSE <<"load", "remove">>))

\* gateway.runtime.governance.remediationPlan.
RemediationPlan(t, lasts) ==
    /\ "gateway" \in ready
    /\ Begin(t, [NoJob EXCEPT !.owner = "gateway",
                              !.token = [type |-> "remediation", at |-> clock, lasts |-> lasts],
                              !.session = [mail |-> NoMail, expires |-> clock + lasts],
                              !.time = clock],
             <<"save", "prune">>)

\* gateway.runtime.governance.executeRemediation.
ExecuteRemediation(t, token) ==
    /\ "gateway" \in ready
    /\ Begin(t, [NoJob EXCEPT !.owner = "gateway", !.token = token, !.time = clock, !.yes = TRUE],
             <<"load", "remove">>)

-----------------------------------------------------------------------------
(* Operations of the store. *)

Under(t, step) == todo[t] # <<>> /\ Head(todo[t]) = step

\* Fault: each store object has a mutex of its own and no more.
OwnMutex(t) == {job[t].owner}

\* The mutexes of an operation: that of its store object, and that of the path.
Mutexes(t) == {job[t].owner, "file"}

Locked(t) == at[t] # "read"
Free(t) == \A u \in Threads : Locked(u) => Mutexes(u) \cap Mutexes(t) = {}

\* The sessions of the file; a text that cannot be parsed has none.
Stored == IF file = Torn THEN Empty ELSE file

\* What a read may give: a file that cannot be opened reads as one without sessions.
ReadStoreJson == {Stored} \cup (IF "read" \in DiskFaults THEN {Empty} ELSE {})

\* Fault: no session is erased.
EraseNothing(r, ks) == r

Restricted(r, ks) == [k \in ks |-> r[k]]

Over(s, time) == time >= s.expires

\* The JSON that the operation of t makes of what it read.
Changed(t, r) ==
    CASE Under(t, "init") -> r
      [] Under(t, "save") ->
            [k \in DOMAIN r \cup {job[t].token} |->
                IF k = job[t].token THEN job[t].session ELSE r[k]]
      [] Under(t, "prune") ->
            Restricted(r, {k \in DOMAIN r : ~Over(r[k], job[t].time)})
      [] Under(t, "remove") -> Restricted(r, DOMAIN r \ {job[t].token})

\* The operation ends; the call goes on with the operations in rest.
Finish(t, rest) ==
    /\ at' = [at EXCEPT ![t] = "read"]
    /\ root' = [root EXCEPT ![t] = Empty]
    /\ blind' = blind \ {t}
    /\ todo' = [todo EXCEPT ![t] = rest]
    /\ job' = IF rest = <<>> THEN [job EXCEPT ![t] = NoJob] ELSE job

\* What follows an operation that failed: email.schedule answers with an error when its
\* token could not be saved; everything else is done as well as it can be.
AfterFailure(t) ==
    IF Under(t, "save") /\ job[t].owner = "email" THEN <<>> ELSE Tail(todo[t])

\* The object knows its file in any case.
Initialized(t) == ready' = IF Under(t, "init") THEN ready \cup {job[t].owner} ELSE ready

\* The caller of email.schedule is told that its token was used or cancelled, whether it is
\* gone or not; a token that was saved again is a new one.
Told(t, gone) ==
    CASE job[t].owner = "email" /\ Under(t, "remove") ->
            /\ closed' = closed \cup {job[t].token}
            /\ kept' = IF gone THEN kept \ {job[t].token} ELSE kept \cup {job[t].token}
      [] job[t].owner = "email" /\ Under(t, "save") /\ gone ->
            closed' = closed \ {job[t].token} /\ kept' = kept \ {job[t].token}
      [] OTHER -> UNCHANGED <<closed, kept>>

\* Lock, read and change; nothing is written when no session is removed.
ReadStore(t) ==
    /\ \E s \in {"init", "save", "prune", "remove"} : Under(t, s)
    /\ at[t] = "read" /\ Free(t)
    /\ \E read \in ReadStoreJson :
          IF (Under(t, "prune") \/ Under(t, "remove")) /\ Changed(t, read) = read
          THEN /\ Told(t, read = Stored)
               /\ Finish(t, Tail(todo[t]))
          ELSE /\ at' = [at EXCEPT ![t] = "write"]
               /\ root' = [root EXCEPT ![t] = Changed(t, read)]
               /\ blind' = IF read = Stored THEN blind ELSE blind \cup {t}
               /\ UNCHANGED <<job, todo, closed, kept>>
    /\ UNCHANGED <<clock, file, temp, ready, sent>>

\* WriteFileAtomic, the temporary file: whether all of it was written is not looked at.
WriteTemp(t) ==
    /\ at[t] = "write"
    /\ at' = [at EXCEPT ![t] = "rename"]
    /\ temp' \in {root[t]} \cup (IF "write" \in DiskFaults THEN {Torn} ELSE {})
    /\ UNCHANGED <<clock, file, ready, job, todo, root, ghosts>>

\* WriteFileAtomic, the rename.
Rename(t) ==
    /\ at[t] = "rename"
    /\ file' = temp /\ temp' = Empty
    /\ Told(t, TRUE)
    /\ Initialized(t)
    /\ Finish(t, Tail(todo[t]))
    /\ UNCHANGED <<clock, sent>>

\* The temporary file cannot be opened, or not renamed; nobody reads what is left of it.
WriteFails(t) ==
    /\ \/ at[t] = "write" /\ "open" \in DiskFaults
       \/ at[t] = "rename" /\ "rename" \in DiskFaults
    /\ temp' = Empty
    /\ Told(t, FALSE)
    /\ Initialized(t)
    /\ Finish(t, AfterFailure(t))
    /\ UNCHANGED <<clock, file, sent>>

\* IsTokenValid, and the type of the session that the caller asks for.
Accepted(t, r) ==
    /\ job[t].token \in DOMAIN r
    /\ ~Over(r[job[t].token], job[t].time)
    /\ job[t].token.type = IF job[t].owner = "email" THEN "email" ELSE "remediation"

\* A remediation is also refused when its tenant is no longer the configured one.
Load(t) ==
    /\ Under(t, "load") /\ Free(t)
    /\ \E r \in ReadStoreJson :
          \/ /\ Accepted(t, r)
             /\ todo' = [todo EXCEPT ![t] = Tail(@)]
             /\ job' = [job EXCEPT ![t].session = r[job[t].token],
                                   ![t].late = job[t].token \in closed \ kept]
             /\ UNCHANGED <<at, root, blind>>
          \/ /\ ~Accepted(t, r) \/ job[t].owner = "gateway"
             /\ Finish(t, <<>>)
    /\ UNCHANGED <<clock, file, temp, ready, closed, kept, sent>>

\* DeliverEmailWithFallback: a message that was not delivered keeps its token.
Deliver(t) ==
    /\ Under(t, "deliver")
    /\ \/ /\ sent' = sent \cup {[token |-> job[t].token, mail |-> job[t].session.mail,
                                 yes |-> job[t].yes, late |-> job[t].late,
                                 inTime |-> job[t].time < job[t].session.expires]}
          /\ todo' = [todo EXCEPT ![t] = Tail(@)]
          /\ UNCHANGED <<job, at, root, blind>>
       \/ Finish(t, <<>>) /\ UNCHANGED sent
    /\ UNCHANGED <<clock, file, temp, ready, closed, kept>>

-----------------------------------------------------------------------------
(* The process ends, anywhere.  Only the temporary file may be cut off by that. *)

Crash ==
    /\ ready' = {}
    /\ job' = [t \in Threads |-> NoJob]
    /\ todo' = [t \in Threads |-> <<>>]
    /\ at' = [t \in Threads |-> "read"]
    /\ root' = [t \in Threads |-> Empty]
    /\ temp' = Empty /\ blind' = {}
    /\ UNCHANGED <<clock, file, closed, kept, sent>>

Pass == clock < MaxClock /\ clock' = clock + 1 /\ UNCHANGED <<file, temp, ready, threadVars, ghosts>>

\* The tokens a caller may name: those of the store and those that left it.
Known == DOMAIN Stored \cup closed

Call(t) ==
    \/ StartServices(t)
    \/ \E m \in Mails, l \in Lifetimes : Prepare(t, m, l)
    \/ \E l \in Lifetimes : RemediationPlan(t, l)
    \/ \E k \in Known : ExecuteRemediation(t, k) \/ \E yes \in BOOLEAN : Approve(t, k, yes)

ApprovalNext ==
    \/ Crash
    \/ Pass
    \/ \E t \in Threads :
        \/ Call(t)
        \/ ReadStore(t) \/ WriteTemp(t) \/ Rename(t) \/ WriteFails(t)
        \/ Load(t) \/ Deliver(t)

ApprovalSpec == ApprovalInit /\ [][ApprovalNext]_approvalVars

-----------------------------------------------------------------------------
(* Properties. *)

ApprovalTypeOK ==
    /\ clock \in Nat
    /\ file = Torn \/ Content(file)
    /\ temp = Torn \/ Content(temp)
    /\ ready \subseteq {"email", "gateway"}
    /\ todo \in [Threads -> Seq(Steps)]
    /\ at \in [Threads -> {"read", "write", "rename"}]
    /\ \A t \in Threads : Content(root[t])
    /\ blind \subseteq Threads /\ kept \subseteq closed /\ closed \subseteq Tokens

\* No two threads are between the read and the rename of the file.
OneWriter == \A t, u \in Threads : Locked(t) /\ Locked(u) => t = u

\* A message goes out only for a session of its kind, when the user said yes before the
\* session expired.  And once a caller was told that its token was used or cancelled, no
\* later call on it sends anything, unless the token was saved again or the disk failed
\* when it was to be removed, which the code does not look at
\* (EmailScheduleExecutor.cpp:1787, 1831): no other thread, store object or crash brings
\* a token back.  Until the caller is told, a token that was used is still good.
SentAsApproved == \A d \in sent : d.mail \in Mails /\ d.yes /\ d.inTime /\ ~d.late

\* The step writes the file for an operation of this kind on token k.
Writes(step, k) == \E t \in Threads : at[t] = "rename" /\ Under(t, step) /\ job[t].token = k

\* The step writes the file for a thread that could not read it.
WritesBlind == \E t \in Threads : at[t] = "rename" /\ t \in blind

\* As long as the file holds a text that can be parsed, a session appears or changes in it
\* only because it is saved, and goes only because it is removed or too old, or because a
\* writer could not open the file to read it and took it for empty
\* (ApprovalTokenStore.cpp:43-50, 71-73, 147-149).  The two store objects never undo each
\* other, and a crash undoes nothing.
NoLostUpdate ==
    [][file # Torn /\ file' # Torn =>
        /\ \A k \in DOMAIN file' :
              \/ k \in DOMAIN file /\ file'[k] = file[k]
              \/ Writes("save", k)
        /\ \A k \in DOMAIN file \ DOMAIN file' :
              Over(file[k], clock) \/ Writes("remove", k) \/ WritesBlind]_approvalVars

=============================================================================
