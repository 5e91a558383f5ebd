---- MODULE NewRepo ----
(***************************************************************************)
(* "any new": check the directory, render every template into it, then git *)
(* init, go mod tidy and gh repo create, in that order (cli/new.go). The   *)
(* files are written one by one: the command can be killed between any two *)
(* steps, another program can create a file meanwhile, and the user can    *)
(* run it again over what is left.                                         *)
(***************************************************************************)
EXTENDS Naturals, Sequences, FiniteSets

CONSTANTS
    Templates,   \* the template paths in walk order, each a sequence of path tokens
    SiteNames,   \* the names a site may be given
    Binaries,    \* values of --binary, "" when it is left out
    MaxRuns,     \* bound: times the command is run
    MaxForeign   \* bound: files another program creates

VARIABLES
    pc,      \* "idle", or the step the command is at
    site,    \* NewSite: what the paths depend on
    opts,    \* [git, tidy, remote]: --no-git and --no-tidy negated, --remote
    at,      \* index of the template being rendered
    disk,    \* from the paths written so far to "torn" | "ours" | "foreign"
    late,    \* the paths another program created between Stat and WriteFile
    git,     \* "none" | "init" | "staged" | "committed"
    tree,    \* the files staged or committed, as they were
    remote,  \* the files pushed, or nothing
    exit,    \* how the last run ended: "none" | "success" | "failure" | "killed"
    runs, foreigns

vars == <<pc, site, opts, at, disk, late, git, tree, remote, exit, runs, foreigns>>
repo == <<git, tree, remote>>
user == <<late, runs, foreigns>>

\* NewSite: the library is named for the site, the binary too unless --binary says otherwise.
NewSite(name, binary) ==
    [LIBPKG |-> name, BINARY |-> IF binary = "" THEN name ELSE binary]
Tokens == {"LIBPKG", "BINARY"}
RelPath(t, s) == [k \in DOMAIN t |-> IF t[k] \in Tokens THEN s[t[k]] ELSE t[k]]
Sum == <<"go.sum">>
Theme == <<"docs", "themes">>
Paths(s) == {RelPath(Templates[i], s) : i \in DOMAIN Templates}
Sites == {NewSite(n, b) : n \in SiteNames, b \in Binaries}

ASSUME NewRepoAssumption ==
    /\ Templates \in Seq(Seq(STRING)) /\ Templates # <<>>
    /\ \A s \in Sites : Sum \notin Paths(s)

Options == [git : BOOLEAN, tidy : BOOLEAN, remote : BOOLEAN]
Nothing == [p \in {} |-> "ours"]
Put(p, how) == [q \in DOMAIN disk \cup {p} |-> IF q = p THEN how ELSE disk[q]]
Out == RelPath(Templates[at], site)

RepoInit ==
    /\ pc = "idle" /\ at = 1 /\ disk = Nothing /\ late = {}
    /\ site \in Sites /\ opts \in Options
    /\ git = "none" /\ tree = Nothing /\ remote = Nothing
    /\ exit = "none" /\ runs = 0 /\ foreigns = 0

End(code) == pc' = "idle" /\ exit' = code
Goto(step) == pc' = step /\ UNCHANGED exit

Run ==
    /\ pc = "idle" /\ runs < MaxRuns
    /\ runs' = runs + 1 /\ pc' = "check" /\ exit' = "none" /\ at' = 1 /\ late' = {}
    /\ UNCHANGED <<site, opts, disk, repo, foreigns>>

Check ==
    /\ pc = "check"
    /\ IF DOMAIN disk = {} THEN Goto("stat") ELSE End("failure")
    /\ UNCHANGED <<site, opts, at, disk, repo, user>>

\* Slip: the file is written whatever is there.
StatBlind ==
    /\ pc = "stat"
    /\ IF at > Len(Templates) THEN Goto("init") ELSE Goto("open")
    /\ UNCHANGED <<site, opts, at, disk, repo, user>>

Stat ==
    /\ pc = "stat"
    /\ IF at > Len(Templates) THEN Goto("init")
       ELSE IF Out \in DOMAIN disk THEN End("failure") ELSE Goto("open")
    /\ UNCHANGED <<site, opts, at, disk, repo, user>>

\* MkdirAll or WriteFile's open fails, or the file is there, empty.
Open ==
    /\ pc = "open"
    /\ \/ End("failure") /\ UNCHANGED disk
       \/ disk' = Put(Out, "torn") /\ Goto("write")
    /\ UNCHANGED <<site, opts, at, repo, user>>

Write ==
    /\ pc = "write"
    /\ \/ End("failure") /\ UNCHANGED <<at, disk>>
       \/ disk' = Put(Out, "ours") /\ Goto("stat") /\ at' = at + 1
    /\ UNCHANGED <<site, opts, repo, user>>

(***************************************************************************)
(* InitGit. Any failure but the submodule's ends it, with a note.          *)
(***************************************************************************)
\* Slip: a failure of git starts it over.
GitRetries == opts.git /\ Goto("init")
GitFails == opts.git /\ Goto("tidy")

GitInit ==
    /\ pc = "init"
    /\ \/ ~opts.git /\ Goto("tidy") /\ UNCHANGED git
       \/ GitFails /\ UNCHANGED git
       \/ opts.git /\ Goto("theme") /\ git' = "init"
    /\ UNCHANGED <<site, opts, at, disk, tree, remote, user>>

Submodule ==
    /\ pc = "theme" /\ Goto("add")
    /\ UNCHANGED disk \/ disk' = Put(Theme, "ours")
    /\ UNCHANGED <<site, opts, at, repo, user>>

GitAdd ==
    /\ pc = "add"
    /\ \/ GitFails /\ UNCHANGED <<git, tree>>
       \/ Goto("commit") /\ git' = "staged" /\ tree' = disk
    /\ UNCHANGED <<site, opts, at, disk, remote, user>>

GitCommit ==
    /\ pc = "commit"
    /\ \/ GitFails /\ UNCHANGED git
       \/ Goto("tidy") /\ git' = "committed"
    /\ UNCHANGED <<site, opts, at, disk, tree, remote, user>>

\* Slip: the tidied module is folded into the commit.
TidyAmends ==
    /\ pc = "tidy" /\ Goto("remote")
    /\ \/ UNCHANGED <<disk, tree>>
       \/ opts.tidy /\ disk' = Put(Sum, "ours") /\ tree' = disk'
    /\ UNCHANGED <<site, opts, at, git, remote, user>>

\* Tidy, with a note when it fails.
Tidy ==
    /\ pc = "tidy" /\ Goto("remote")
    /\ \/ UNCHANGED <<disk, tree>>
       \/ opts.tidy /\ disk' = Put(Sum, "ours") /\ UNCHANGED tree
    /\ UNCHANGED <<site, opts, at, git, remote, user>>

\* Slip: a failure of gh is a note as well.
CreateRemoteSoft ==
    /\ pc = "remote" /\ End("success")
    /\ UNCHANGED remote \/ (opts.remote /\ git = "committed" /\ remote' = tree)
    /\ UNCHANGED <<site, opts, at, disk, git, tree, user>>

\* CreateRemote: gh has a commit to push, or fails.
CreateRemote ==
    /\ pc = "remote"
    /\ \/ ~opts.remote /\ End("success") /\ UNCHANGED remote
       \/ opts.remote /\ End("failure") /\ UNCHANGED remote
       \/ opts.remote /\ git = "committed" /\ End("success") /\ remote' = tree
    /\ UNCHANGED <<site, opts, at, disk, git, tree, user>>

Command == Check \/ Stat \/ Open \/ Write \/ GitInit \/ Submodule \/ GitAdd \/ GitCommit
           \/ Tidy \/ CreateRemote

(***************************************************************************)
(* Around it: a kill, another program, and the user clearing the ground.   *)
(***************************************************************************)
Kill == pc # "idle" /\ End("killed") /\ UNCHANGED <<site, opts, at, disk, repo, user>>

Foreign(p) ==
    /\ p \notin DOMAIN disk /\ foreigns < MaxForeign
    /\ foreigns' = foreigns + 1 /\ disk' = Put(p, "foreign")
    /\ late' = IF pc = "open" /\ p = Out THEN late \cup {p} ELSE late
    /\ UNCHANGED <<pc, site, opts, at, repo, exit, runs>>

Clear ==
    /\ pc = "idle" /\ DOMAIN disk # {}
    /\ disk' = Nothing /\ git' = "none" /\ tree' = Nothing /\ exit' = "none"
    /\ UNCHANGED <<pc, site, opts, at, remote, user>>

RepoNext == Run \/ Command \/ Kill \/ (\E p \in Paths(site) : Foreign(p)) \/ Clear

RepoSpec == RepoInit /\ [][RepoNext]_vars

\* The command goes on unless it is killed: git, go and gh come back.
FairRepoSpec == RepoSpec /\ WF_vars(Command)

----
RepoTypeOK ==
    /\ site \in Sites /\ opts \in Options /\ at \in 1..Len(Templates) + 1
    /\ DOMAIN disk \subseteq Paths(site) \cup {Sum, Theme}
    /\ \A p \in DOMAIN disk : disk[p] \in {"torn", "ours", "foreign"}
    /\ exit \in {"none", "success", "failure", "killed"}

Lost(p) == disk[p] = "foreign" /\ (p \in DOMAIN disk' => disk'[p] # "foreign")

\* Render's own promise (scaffold.go:91-93): it never overwrites an existing file.  The check
\* and the write are two steps, so it does not hold of a file that appears between them.
RenderNeverOverwrites == [][\A p \in DOMAIN disk : Lost(p) => Clear]_vars

\* What does hold: of all steps, in all runs over one directory, only the WriteFile of a
\* path can cost another program's file, its own, and only one that was created after the
\* Stat of that path in the same run (scaffold.go:109-125); the rest is the user's clearing.
ForeignIsKept == [][\A p \in DOMAIN disk :
    Lost(p) => (Open /\ p = Out /\ p \in late) \/ Clear]_vars

\* Half a file never gets into a commit, whatever was killed and run again before it: the
\* next run refuses a directory that is not empty, and Render stops at a file it cannot write.
TornIsNeverCommitted == \A p \in DOMAIN tree : tree[p] # "torn"

\* Success means every template was written by the command, none by somebody else, and
\* a remote that was asked for holds them.
SuccessIsWhole ==
    exit = "success" =>
        /\ \A p \in Paths(site) : p \in DOMAIN disk /\ disk[p] = "ours"
        /\ opts.remote => Paths(site) \subseteq DOMAIN remote

\* git and go are best effort: once every file is written the command can fail only for the
\* remote it was asked to create (new.go:63-77).
OnlyRemoteFails == (exit = "failure" /\ at = Len(Templates) + 1) => opts.remote

\* Tidy runs after the commit, so the repository that is pushed has no go.sum even when the
\* one on disk has (new.go:63-77, repo.go:56-57).
SumStaysLocal == Sum \notin DOMAIN tree \cup DOMAIN remote

\* Two templates that land on one path stop every run before git, at the second of them: no
\* repository is ever made of such a site (a site named "domain", whose library is domain.go).
CollisionIsFatal ==
    Cardinality(Paths(site)) < Len(Templates) => git = "none" /\ exit # "success"

\* What git holds is whole and as first rendered, through kills and later runs.
RepoInv == RepoTypeOK /\ TornIsNeverCommitted /\ SumStaysLocal

\* How the command ended tells what it left: success a whole repository, failure only a
\* remote that was asked for or files that could not be laid out (new.go:45-83).
ExitTellsDisk == SuccessIsWhole /\ OnlyRemoteFails /\ CollisionIsFatal

\* A run always comes to an end.
RunsEnd == pc # "idle" ~> pc = "idle"
====
