----------------------------- MODULE RepoProofs -----------------------------
(* Theorems about NewRepo, for any templates, sites, options and number of  *)
(* runs, kills and files of other programs.                                 *)
EXTENDS NewRepo, FiniteSetTheorems, TLAPS

Path(j) == RelPath(Templates[j], site)
N == Len(Templates)
Working == pc \notin {"idle", "check"}
Late == {"init", "theme", "add", "commit", "tidy", "remote"}

Steps == {"idle", "check", "stat", "open", "write"} \union Late
Gits == {"none", "init", "staged", "committed"}
Exits == {"none", "success", "failure", "killed"}

RepoTypes ==
    /\ pc \in Steps
    /\ site \in Sites /\ opts \in Options /\ at \in 1..N + 1
    /\ DOMAIN disk \subseteq Paths(site) \union {Sum, Theme}
    /\ \A p \in DOMAIN disk : disk[p] \in {"torn", "ours", "foreign"}
    /\ git \in Gits /\ exit \in Exits

(* How far the command has come: the templates before at are laid down, each *)
(* on a path of its own.                                                     *)
Progress ==
    /\ pc = "check" => at = 1
    /\ Working => \A j \in 1..at - 1 : Path(j) \in DOMAIN disk /\ disk[Path(j)] = "ours"
    /\ Working => \A i, j \in 1..at - 1 : i # j => Path(i) # Path(j)
    /\ pc \in {"open", "write"} => at <= N /\ \A j \in 1..at - 1 : Path(j) # Path(at)
    /\ pc = "write" => Path(at) \in DOMAIN disk /\ disk[Path(at)] = "torn"
    /\ pc \in Late => at = N + 1

(* What lies on the disk of a run that is under way. *)
DiskOK ==
    /\ Working => \A p \in DOMAIN disk : disk[p] = "torn" => pc = "write" /\ p = Path(at)
    /\ Working /\ pc # "remote" => Sum \notin DOMAIN disk
    /\ \A p \in DOMAIN disk : disk[p] = "foreign" => p \in Paths(site)
    /\ pc = "open" /\ Path(at) \in DOMAIN disk => Path(at) \in late

(* What git holds is what a whole rendering left. *)
GitOK ==
    /\ \A p \in DOMAIN tree : tree[p] # "torn"
    /\ Sum \notin DOMAIN tree \union DOMAIN remote
    /\ pc = "commit" => git = "staged"
    /\ git \in {"staged", "committed"} => Paths(site) \subseteq DOMAIN tree
    /\ git # "none" \/ exit = "success" =>
           \A i, j \in DOMAIN Templates : i # j => Path(i) # Path(j)

ExitOK ==
    /\ pc # "idle" => exit = "none"
    /\ SuccessIsWhole /\ OnlyRemoteFails

RepoIInv == RepoTypes /\ Progress /\ DiskOK /\ GitOK /\ ExitOK

LEMMA TemplatesType == N \in Nat /\ N >= 1 /\ DOMAIN Templates = 1..N
BY NewRepoAssumption DEF N

LEMMA PathsAre == Paths(site) = {Path(j) : j \in 1..N}
BY TemplatesType DEF Paths, Path

LEMMA PathsStay ==
    ASSUME site' = site
    PROVE  /\ \A j : Path(j)' = Path(j)
           /\ Paths(site)' = Paths(site)
BY DEF Path, Paths

LEMMA SumIsNoPath ==
    ASSUME RepoTypes
    PROVE  Sum \notin Paths(site)
BY NewRepoAssumption DEF RepoTypes

(* What writing a file leaves on the disk. *)
LEMMA PutWrites ==
    ASSUME NEW p, NEW how, disk' = Put(p, how)
    PROVE  /\ DOMAIN disk' = DOMAIN disk \union {p}
           /\ disk'[p] = how
           /\ \A q \in DOMAIN disk \ {p} : disk'[q] = disk[q]
BY DEF Put

LEMMA TypesStay ==
    ASSUME RepoTypes, UNCHANGED <<site, opts>>,
           pc' \in Steps, at' \in 1..N + 1, exit' \in Exits, git' \in Gits,
           DOMAIN disk' \subseteq Paths(site) \union {Sum, Theme},
           \A p \in DOMAIN disk' : disk'[p] \in {"torn", "ours", "foreign"}
    PROVE  RepoTypes'
<1>1. site' \in Sites /\ opts' \in Options
    BY DEF RepoTypes
<1>2. Paths(site)' = Paths(site)
    BY PathsStay
<1>. QED BY <1>1, <1>2 DEF RepoTypes

LEMMA RepoInitInv == RepoInit => RepoIInv
<1>. SUFFICES ASSUME RepoInit PROVE RepoIInv
    OBVIOUS
<1>1. DOMAIN Nothing = {}
    BY DEF Nothing
<1>2. RepoTypes
    BY <1>1, TemplatesType DEF RepoInit, RepoTypes, Steps, Gits, Exits
<1>3. Progress /\ DiskOK
    BY <1>1 DEF RepoInit, Progress, DiskOK, Working, Late
<1>4. GitOK
    BY <1>1 DEF RepoInit, GitOK
<1>5. ExitOK
    BY DEF RepoInit, ExitOK, SuccessIsWhole, OnlyRemoteFails
<1>. QED BY <1>2, <1>3, <1>4, <1>5 DEF RepoIInv

LEMMA RunKeeps ==
    ASSUME RepoIInv, Run
    PROVE  RepoIInv'
<1>. USE PathsStay DEF RepoIInv
<1>1. RepoTypes'
  <2>1. pc' \in Steps /\ exit' \in Exits /\ at' \in 1..N + 1
      BY TemplatesType DEF Run, Steps, Exits
  <2>2. /\ UNCHANGED <<site, opts, disk, git>>
        /\ git' \in Gits
        /\ DOMAIN disk' \subseteq Paths(site) \union {Sum, Theme}
        /\ \A p \in DOMAIN disk' : disk'[p] \in {"torn", "ours", "foreign"}
      BY DEF Run, RepoTypes, repo
  <2>. QED BY <2>1, <2>2, TypesStay
<1>2. Progress'
    BY DEF Run, Progress, Working, Late
<1>3. DiskOK'
    BY DEF Run, DiskOK, Working
<1>4. GitOK'
    BY DEF Run, GitOK, repo
<1>5. ExitOK'
    BY DEF Run, ExitOK, SuccessIsWhole, OnlyRemoteFails
<1>. QED BY <1>1, <1>2, <1>3, <1>4, <1>5

LEMMA CheckKeeps ==
    ASSUME RepoIInv, Check
    PROVE  RepoIInv'
<1>. USE PathsStay DEF RepoIInv, Goto, End
<1>1. RepoTypes'
    BY TypesStay DEF Check, RepoTypes, repo, Steps, Late, Gits, Exits
<1>2. Progress'
    BY TemplatesType DEF Check, Progress, Working, Late
<1>3. DiskOK'
    BY DEF Check, DiskOK, Working, user
<1>4. GitOK'
    BY DEF Check, GitOK, repo
<1>5. ExitOK'
    BY TemplatesType DEF Check, ExitOK, SuccessIsWhole, OnlyRemoteFails, Progress, repo, N
<1>. QED BY <1>1, <1>2, <1>3, <1>4, <1>5

LEMMA StatKeeps ==
    ASSUME RepoIInv, Stat
    PROVE  RepoIInv'
<1>. USE PathsStay DEF RepoIInv, Goto, End
<1>0. Out = Path(at) /\ at \in Nat /\ at <= N + 1 /\ N \in Nat /\ N = Len(Templates)
    BY TemplatesType DEF Out, Path, RepoTypes, N
<1>1. RepoTypes'
    BY TypesStay DEF Stat, RepoTypes, repo, Steps, Late, Gits, Exits
<1>2. Progress'
    BY <1>0 DEF Stat, Progress, Working, Late
<1>3. DiskOK'
    BY <1>0 DEF Stat, DiskOK, Working, user
<1>4. GitOK'
    BY DEF Stat, GitOK, repo
<1>5. ExitOK'
    BY <1>0 DEF Stat, ExitOK, SuccessIsWhole, OnlyRemoteFails, repo
<1>. QED BY <1>1, <1>2, <1>3, <1>4, <1>5

LEMMA OpenKeeps ==
    ASSUME RepoIInv, Open
    PROVE  RepoIInv'
<1>. USE PathsStay DEF RepoIInv, Goto, End
<1>0. /\ Out = Path(at) /\ at \in Nat /\ at <= N /\ N \in Nat /\ N = Len(Templates)
      /\ Path(at) \in Paths(site)
    BY TemplatesType, PathsAre DEF Open, Out, Path, RepoTypes, N, Progress
<1>6. CASE End("failure") /\ UNCHANGED disk
  <2>1. RepoTypes' /\ Progress' /\ DiskOK' /\ GitOK'
      BY <1>6 DEF Open, RepoTypes, Steps, Exits, Progress, DiskOK, GitOK, Working, Late, repo
  <2>2. ExitOK'
      BY <1>0, <1>6 DEF Open, ExitOK, SuccessIsWhole, OnlyRemoteFails, repo
  <2>. QED BY <2>1, <2>2
<1>7. CASE disk' = Put(Out, "torn") /\ Goto("write")
  <2>0. /\ DOMAIN disk' = DOMAIN disk \union {Path(at)} /\ disk'[Path(at)] = "torn"
        /\ \A q \in DOMAIN disk \ {Path(at)} : disk'[q] = disk[q]
      BY <1>0, <1>7, PutWrites
  <2>1. RepoTypes'
    <3>1. pc' \in Steps /\ exit' \in Exits /\ at' \in 1..N + 1
        BY <1>0, <1>7 DEF Open, RepoTypes, Steps
    <3>2. UNCHANGED <<site, opts, git>> /\ git' \in Gits
        BY DEF Open, RepoTypes, repo
    <3>3. /\ DOMAIN disk' \subseteq Paths(site) \union {Sum, Theme}
          /\ \A p \in DOMAIN disk' : disk'[p] \in {"torn", "ours", "foreign"}
        BY <1>0, <2>0 DEF RepoTypes
    <3>. QED BY <3>1, <3>2, <3>3, TypesStay DEF RepoIInv
  <2>2. Progress'
      BY <1>0, <1>7, <2>0 DEF Open, Progress, Working, Late
  <2>3. DiskOK'
      BY <1>0, <1>7, <2>0, SumIsNoPath DEF Open, DiskOK, Working
  <2>4. GitOK'
      BY <1>7 DEF Open, GitOK, repo, ExitOK
  <2>5. ExitOK'
      BY <1>7 DEF Open, ExitOK, SuccessIsWhole, OnlyRemoteFails
  <2>. QED BY <2>1, <2>2, <2>3, <2>4, <2>5
<1>. QED BY <1>6, <1>7 DEF Open

LEMMA WriteKeeps ==
    ASSUME RepoIInv, Write
    PROVE  RepoIInv'
<1>. USE PathsStay DEF RepoIInv, Goto, End
<1>0. /\ Out = Path(at) /\ at \in Nat /\ at <= N /\ N \in Nat /\ N = Len(Templates)
      /\ Path(at) \in Paths(site)
    BY TemplatesType, PathsAre DEF Write, Out, Path, RepoTypes, N, Progress
<1>6. CASE End("failure") /\ UNCHANGED <<at, disk>>
  <2>1. RepoTypes' /\ Progress' /\ DiskOK' /\ GitOK'
      BY <1>6 DEF Write, RepoTypes, Steps, Exits, Progress, DiskOK, GitOK, Working, Late, repo
  <2>2. ExitOK'
      BY <1>0, <1>6 DEF Write, ExitOK, SuccessIsWhole, OnlyRemoteFails, repo
  <2>. QED BY <2>1, <2>2
<1>7. CASE disk' = Put(Out, "ours") /\ Goto("stat") /\ at' = at + 1
  <2>0. /\ DOMAIN disk' = DOMAIN disk \union {Path(at)} /\ disk'[Path(at)] = "ours"
        /\ \A q \in DOMAIN disk \ {Path(at)} : disk'[q] = disk[q]
      BY <1>0, <1>7, PutWrites
  <2>1. RepoTypes'
    <3>1. pc' \in Steps /\ exit' \in Exits /\ at' \in 1..N + 1
        BY <1>0, <1>7 DEF Write, RepoTypes, Steps
    <3>2. UNCHANGED <<site, opts, git>> /\ git' \in Gits
        BY DEF Write, RepoTypes, repo
    <3>3. /\ DOMAIN disk' \subseteq Paths(site) \union {Sum, Theme}
          /\ \A p \in DOMAIN disk' : disk'[p] \in {"torn", "ours", "foreign"}
        BY <1>0, <2>0 DEF RepoTypes
    <3>. QED BY <3>1, <3>2, <3>3, TypesStay DEF RepoIInv
  <2>2. Progress'
    <3>1. \A j \in 1..at' - 1 : j = at \/ j \in 1..at - 1
        BY <1>0, <1>7
    <3>. QED BY <1>0, <1>7, <2>0, <3>1 DEF Write, Progress, Working, Late
  <2>3. DiskOK'
      BY <1>0, <1>7, <2>0, SumIsNoPath DEF Write, DiskOK, Working
  <2>4. GitOK'
      BY <1>7 DEF Write, GitOK, repo, ExitOK
  <2>5. ExitOK'
      BY <1>7 DEF Write, ExitOK, SuccessIsWhole, OnlyRemoteFails
  <2>. QED BY <2>1, <2>2, <2>3, <2>4, <2>5
<1>. QED BY <1>6, <1>7 DEF Write

(* Once every template is laid down, each has a path of its own, and nothing *)
(* on the disk is torn or missing.                                           *)
LEMMA LateIsWhole ==
    ASSUME RepoIInv, pc \in Late
    PROVE  /\ \A p \in Paths(site) : p \in DOMAIN disk /\ disk[p] = "ours"
           /\ \A p \in DOMAIN disk : disk[p] # "torn"
           /\ \A i, j \in DOMAIN Templates : i # j => Path(i) # Path(j)
           /\ at = N + 1
<1>1. at = N + 1 /\ Working /\ pc # "write"
    BY DEF RepoIInv, Progress, Late, Working
<1>2. at - 1 = N
    BY <1>1, TemplatesType
<1>. QED BY <1>1, <1>2, TemplatesType, PathsAre DEF RepoIInv, Progress, DiskOK

LEMMA GitInitKeeps ==
    ASSUME RepoIInv, GitInit
    PROVE  RepoIInv'
<1>. USE PathsStay DEF RepoIInv, Goto
<1>0. pc \in Late /\ pc' \in {"tidy", "theme"} /\ exit' = exit /\ git' \in {git, "init"}
    BY DEF GitInit, GitFails, Late
<1>1. RepoTypes'
    BY <1>0, TypesStay DEF GitInit, RepoTypes, Steps, Late, Gits, Exits
<1>2. Progress'
    BY <1>0 DEF GitInit, Progress, Working, Late
<1>3. DiskOK'
    BY <1>0 DEF GitInit, DiskOK, Working, Late
<1>4. GitOK'
    BY <1>0, LateIsWhole DEF GitInit, GitOK
<1>5. ExitOK'
    BY <1>0 DEF GitInit, ExitOK, SuccessIsWhole, OnlyRemoteFails, Late
<1>. QED BY <1>1, <1>2, <1>3, <1>4, <1>5

LEMMA SubmoduleKeeps ==
    ASSUME RepoIInv, Submodule
    PROVE  RepoIInv'
<1>. USE PathsStay DEF RepoIInv, Goto
<1>0. /\ pc \in Late /\ pc = "theme" /\ pc' = "add" /\ exit' = exit /\ exit = "none"
      /\ DOMAIN disk' \subseteq DOMAIN disk \union {Theme} /\ DOMAIN disk \subseteq DOMAIN disk'
      /\ \A p \in DOMAIN disk' : disk'[p] = "ours" \/ (p \in DOMAIN disk /\ disk'[p] = disk[p])
    BY PutWrites DEF Submodule, Late, ExitOK
<1>6. Theme # Sum
    BY DEF Theme, Sum
<1>1. RepoTypes'
  <2>1. pc' \in Steps /\ exit' \in Exits /\ at' \in 1..N + 1
      BY <1>0 DEF Submodule, RepoTypes, Steps, Late
  <2>2. UNCHANGED <<site, opts, git>> /\ git' \in Gits
      BY DEF Submodule, RepoTypes, repo
  <2>3. /\ DOMAIN disk' \subseteq Paths(site) \union {Sum, Theme}
        /\ \A p \in DOMAIN disk' : disk'[p] \in {"torn", "ours", "foreign"}
      BY <1>0 DEF RepoTypes
  <2>. QED BY <2>1, <2>2, <2>3, TypesStay
<1>2. Progress'
    BY <1>0 DEF Submodule, Progress, Working, Late
<1>3. DiskOK'
    BY <1>0, <1>6 DEF Submodule, DiskOK, Working
<1>4. GitOK'
    BY <1>0 DEF Submodule, GitOK, repo
<1>5. ExitOK'
    BY <1>0 DEF Submodule, ExitOK, SuccessIsWhole, OnlyRemoteFails
<1>. QED BY <1>1, <1>2, <1>3, <1>4, <1>5

LEMMA GitAddKeeps ==
    ASSUME RepoIInv, GitAdd
    PROVE  RepoIInv'
<1>. USE PathsStay DEF RepoIInv, Goto
<1>0. /\ pc \in Late /\ pc = "add" /\ pc' \in {"tidy", "commit"} /\ exit' = exit /\ exit = "none"
    BY DEF GitAdd, GitFails, Late, ExitOK
<1>1. RepoTypes'
    BY <1>0, TypesStay DEF GitAdd, RepoTypes, Steps, Late, Gits, Exits
<1>2. Progress'
    BY <1>0 DEF GitAdd, Progress, Working, Late
<1>3. DiskOK'
    BY <1>0 DEF GitAdd, DiskOK, Working
<1>4. GitOK'
    BY <1>0, LateIsWhole DEF GitAdd, GitFails, GitOK, DiskOK, Working
<1>5. ExitOK'
    BY <1>0 DEF GitAdd, ExitOK, SuccessIsWhole, OnlyRemoteFails
<1>. QED BY <1>1, <1>2, <1>3, <1>4, <1>5

LEMMA GitCommitKeeps ==
    ASSUME RepoIInv, GitCommit
    PROVE  RepoIInv'
<1>. USE PathsStay DEF RepoIInv, Goto
<1>0. /\ pc \in Late /\ pc = "commit" /\ pc' = "tidy" /\ exit' = exit /\ exit = "none"
      /\ git' = git \/ git' = "committed"
    BY DEF GitCommit, GitFails, Late, ExitOK
<1>1. RepoTypes'
    BY <1>0, TypesStay DEF GitCommit, RepoTypes, Steps, Late, Gits, Exits
<1>2. Progress'
    BY <1>0 DEF GitCommit, Progress, Working, Late
<1>3. DiskOK'
    BY <1>0 DEF GitCommit, DiskOK, Working
<1>4. GitOK'
    BY <1>0, LateIsWhole DEF GitCommit, GitFails, GitOK
<1>5. ExitOK'
    BY <1>0 DEF GitCommit, ExitOK, SuccessIsWhole, OnlyRemoteFails
<1>. QED BY <1>1, <1>2, <1>3, <1>4, <1>5

LEMMA TidyKeeps ==
    ASSUME RepoIInv, Tidy
    PROVE  RepoIInv'
<1>. USE PathsStay DEF RepoIInv, Goto
<1>0. /\ pc \in Late /\ pc = "tidy" /\ pc' = "remote" /\ exit' = exit /\ exit = "none"
      /\ DOMAIN disk' \subseteq DOMAIN disk \union {Sum} /\ DOMAIN disk \subseteq DOMAIN disk'
      /\ \A p \in DOMAIN disk' : disk'[p] = "ours" \/ (p \in DOMAIN disk /\ disk'[p] = disk[p])
    BY PutWrites DEF Tidy, Late, ExitOK
<1>1. RepoTypes'
  <2>1. pc' \in Steps /\ exit' \in Exits /\ at' \in 1..N + 1
      BY <1>0 DEF Tidy, RepoTypes, Steps, Late
  <2>2. UNCHANGED <<site, opts, git>> /\ git' \in Gits
      BY DEF Tidy, RepoTypes
  <2>3. /\ DOMAIN disk' \subseteq Paths(site) \union {Sum, Theme}
        /\ \A p \in DOMAIN disk' : disk'[p] \in {"torn", "ours", "foreign"}
      BY <1>0 DEF RepoTypes
  <2>. QED BY <2>1, <2>2, <2>3, TypesStay
<1>2. Progress'
    BY <1>0 DEF Tidy, Progress, Working, Late
<1>3. DiskOK'
    BY <1>0 DEF Tidy, DiskOK, Working
<1>4. GitOK'
    BY <1>0 DEF Tidy, GitOK
<1>5. ExitOK'
    BY <1>0 DEF Tidy, ExitOK, SuccessIsWhole, OnlyRemoteFails
<1>. QED BY <1>1, <1>2, <1>3, <1>4, <1>5

LEMMA CreateRemoteKeeps ==
    ASSUME RepoIInv, CreateRemote
    PROVE  RepoIInv'
<1>. USE PathsStay DEF RepoIInv, End
<1>0. /\ pc \in Late /\ pc' = "idle" /\ UNCHANGED <<site, opts, at, disk, git, tree>>
      /\ \/ exit' = "success" /\ remote' = remote /\ ~opts.remote
         \/ exit' = "failure" /\ remote' = remote /\ opts.remote
         \/ exit' = "success" /\ remote' = tree /\ git = "committed"
    BY DEF CreateRemote, Late
<1>1. RepoTypes'
    BY <1>0, TypesStay DEF RepoTypes, Steps, Exits
<1>2. Progress'
    BY <1>0 DEF Progress, Working, Late
<1>3. DiskOK'
    BY <1>0 DEF DiskOK, Working
<1>4. GitOK'
    BY <1>0, LateIsWhole DEF GitOK
<1>5. ExitOK'
    BY <1>0, LateIsWhole DEF ExitOK, SuccessIsWhole, OnlyRemoteFails, GitOK
<1>. QED BY <1>1, <1>2, <1>3, <1>4, <1>5

LEMMA KillKeeps ==
    ASSUME RepoIInv, Kill
    PROVE  RepoIInv'
<1>. USE PathsStay DEF RepoIInv
<1>0. /\ pc' = "idle" /\ exit' = "killed" /\ UNCHANGED <<site, opts, at, disk, git, tree, remote>>
    BY DEF Kill, End, repo
<1>1. RepoTypes'
    BY <1>0, TypesStay DEF RepoTypes, Steps, Exits
<1>2. Progress'
    BY <1>0 DEF Progress, Working, Late
<1>3. DiskOK'
    BY <1>0 DEF DiskOK, Working
<1>4. GitOK'
    BY <1>0 DEF GitOK
<1>5. ExitOK'
    BY <1>0 DEF ExitOK, SuccessIsWhole, OnlyRemoteFails
<1>. QED BY <1>1, <1>2, <1>3, <1>4, <1>5

LEMMA ForeignKeeps ==
    ASSUME RepoIInv, NEW p \in Paths(site), Foreign(p)
    PROVE  RepoIInv'
<1>. USE PathsStay DEF RepoIInv
<1>0. /\ UNCHANGED <<pc, site, opts, at, git, tree, remote, exit>>
      /\ p \notin DOMAIN disk
      /\ DOMAIN disk' = DOMAIN disk \union {p} /\ disk'[p] = "foreign"
      /\ \A q \in DOMAIN disk : disk'[q] = disk[q]
      /\ late \subseteq late' /\ (pc = "open" /\ p = Out => p \in late')
    BY PutWrites DEF Foreign, repo
<1>6. Out = Path(at)
    BY DEF Out, Path
<1>1. RepoTypes'
  <2>1. /\ DOMAIN disk' \subseteq Paths(site) \union {Sum, Theme}
        /\ \A q \in DOMAIN disk' : disk'[q] \in {"torn", "ours", "foreign"}
      BY <1>0 DEF RepoTypes
  <2>. QED BY <1>0, <2>1, TypesStay DEF RepoTypes
<1>2. Progress'
    BY <1>0 DEF Progress, Working, Late
<1>3. DiskOK'
    BY <1>0, <1>6, SumIsNoPath DEF DiskOK, Working
<1>4. GitOK'
    BY <1>0 DEF GitOK
<1>5. ExitOK'
    BY <1>0 DEF ExitOK, SuccessIsWhole, OnlyRemoteFails
<1>. QED BY <1>1, <1>2, <1>3, <1>4, <1>5

LEMMA ClearKeeps ==
    ASSUME RepoIInv, Clear
    PROVE  RepoIInv'
<1>. USE PathsStay DEF RepoIInv
<1>0. /\ pc = "idle" /\ DOMAIN disk' = {} /\ git' = "none" /\ DOMAIN tree' = {} /\ exit' = "none"
      /\ UNCHANGED <<pc, site, opts, at, remote>>
    BY DEF Clear, Nothing
<1>1. RepoTypes'
    BY <1>0, TypesStay DEF RepoTypes, Gits, Exits
<1>2. Progress'
    BY <1>0 DEF Progress, Working, Late
<1>3. DiskOK'
    BY <1>0 DEF DiskOK, Working
<1>4. GitOK'
    BY <1>0 DEF GitOK
<1>5. ExitOK'
    BY <1>0 DEF ExitOK, SuccessIsWhole, OnlyRemoteFails
<1>. QED BY <1>1, <1>2, <1>3, <1>4, <1>5

LEMMA RepoStep == RepoIInv /\ [RepoNext]_vars => RepoIInv'
<1>. SUFFICES ASSUME RepoIInv, [RepoNext]_vars PROVE RepoIInv'
    OBVIOUS
<1>1. CASE UNCHANGED vars
  <2>. USE PathsStay DEF RepoIInv
  <2>0. UNCHANGED <<pc, site, opts, at, disk, late, git, tree, remote, exit>>
      BY <1>1 DEF vars
  <2>1. RepoTypes'
      BY <2>0, TypesStay DEF RepoTypes
  <2>2. Progress'
      BY <2>0 DEF Progress, Working, Late
  <2>3. DiskOK'
      BY <2>0 DEF DiskOK, Working
  <2>4. GitOK'
      BY <2>0 DEF GitOK
  <2>5. ExitOK'
      BY <2>0 DEF ExitOK, SuccessIsWhole, OnlyRemoteFails
  <2>. QED BY <2>1, <2>2, <2>3, <2>4, <2>5
<1>2. CASE Command
    BY <1>2, CheckKeeps, StatKeeps, OpenKeeps, WriteKeeps, GitInitKeeps, SubmoduleKeeps,
       GitAddKeeps, GitCommitKeeps, TidyKeeps, CreateRemoteKeeps DEF Command
<1>3. CASE Run \/ Kill \/ Clear
    BY <1>3, RunKeeps, KillKeeps, ClearKeeps
<1>4. CASE \E p \in Paths(site) : Foreign(p)
    BY <1>4, ForeignKeeps
<1>. QED BY <1>1, <1>2, <1>3, <1>4 DEF RepoNext

(* The inductive invariant: how far the command is tells what lies on the    *)
(* disk and in git.                                                          *)
THEOREM RepoStays == RepoSpec => []RepoIInv
BY RepoInitInv, RepoStep, PTL DEF RepoSpec

(* Half a file never gets into a commit and go.sum never into the remote,    *)
(* through any number of kills, files of others and later runs.              *)
THEOREM RepoCorrect == RepoSpec => []RepoInv
<1>1. RepoIInv => RepoInv
    BY DEF RepoIInv, RepoTypes, GitOK, RepoInv, RepoTypeOK, TornIsNeverCommitted, SumStaysLocal,
           N, Exits
<1>. QED BY <1>1, RepoStays, PTL

(* A site none of whose templates collide has as many paths as templates.    *)
LEMMA PathsCount ==
    ASSUME \A i, j \in DOMAIN Templates : i # j => Path(i) # Path(j)
    PROVE  Cardinality(Paths(site)) = Len(Templates)
<1>. DEFINE f == [j \in 1..N |-> Path(j)]
<1>1. f \in Bijection(1..N, Paths(site))
  <2>1. f \in Injection(1..N, Paths(site))
      BY TemplatesType, PathsAre DEF Injection, IsInjective
  <2>2. f \in Surjection(1..N, Paths(site))
      BY TemplatesType, PathsAre DEF Surjection
  <2>. QED BY <2>1, <2>2 DEF Bijection
<1>2. ExistsBijection(1..N, Paths(site))
    BY <1>1 DEF ExistsBijection
<1>. QED BY <1>2, TemplatesType, FS_CountingElements DEF N

(* How the command ended tells what it left: success is a whole repository,  *)
(* a late failure is the remote's, and a site whose templates collide never  *)
(* becomes a repository.                                                     *)
THEOREM ExitTells == RepoSpec => []ExitTellsDisk
<1>1. RepoIInv => ExitTellsDisk
  <2>. SUFFICES ASSUME RepoIInv, Cardinality(Paths(site)) < Len(Templates)
                PROVE  git = "none" /\ exit # "success"
      BY DEF RepoIInv, ExitOK, ExitTellsDisk, CollisionIsFatal
  <2>1. ~ \A i, j \in DOMAIN Templates : i # j => Path(i) # Path(j)
      BY PathsCount, TemplatesType DEF N
  <2>. QED BY <2>1 DEF RepoIInv, GitOK
<1>. QED BY <1>1, RepoStays, PTL

(* A step costs another program its file only if it is the write of that     *)
(* very path and the file appeared after its Stat, which is the race that    *)
(* breaks Render's promise (scaffold.go:91-93), or the user's clearing.      *)
THEOREM ForeignKept == RepoSpec => ForeignIsKept
<1>. DEFINE Kept == \A p \in DOMAIN disk : Lost(p) => (Open /\ p = Out /\ p \in late) \/ Clear
<1>1. RepoIInv /\ [RepoNext]_vars => [Kept]_vars
  <2>. SUFFICES ASSUME RepoIInv, RepoNext, NEW p \in DOMAIN disk, Lost(p)
                PROVE  (Open /\ p = Out /\ p \in late) \/ Clear
      BY DEF vars
  <2>0. disk[p] = "foreign" /\ (p \in DOMAIN disk' => disk'[p] # "foreign")
      BY DEF Lost
  <2>1. ASSUME UNCHANGED disk PROVE FALSE
      BY <2>0, <2>1
  <2>2. ASSUME NEW q, NEW how, disk' = Put(q, how), q # p PROVE FALSE
    <3>1. p \in DOMAIN disk' /\ disk'[p] = disk[p]
        BY <2>2 DEF Put
    <3>. QED BY <2>0, <3>1
  <2>3. p \in Paths(site)
      BY <2>0 DEF RepoIInv, DiskOK
  <2>4. CASE Open
    <3>1. Out = Path(at)
        BY DEF Out, Path
    <3>2. disk' = Put(Out, "torn") /\ pc = "open"
        BY <2>1, <2>4 DEF Open
    <3>3. p = Out
        BY <2>2, <3>2
    <3>. QED BY <2>4, <3>1, <3>2, <3>3 DEF RepoIInv, DiskOK, Progress
  <2>5. CASE Write
    <3>1. Out = Path(at)
        BY DEF Out, Path
    <3>2. disk' = Put(Out, "ours") /\ pc = "write"
        BY <2>1, <2>5 DEF Write
    <3>3. p = Out
        BY <2>2, <3>2
    <3>. QED BY <2>0, <3>1, <3>2, <3>3 DEF RepoIInv, Progress
  <2>6. CASE Submodule
    <3>1. disk[p] = "ours"
        BY <2>3, <2>6, LateIsWhole DEF Submodule, Late
    <3>. QED BY <2>0, <3>1
  <2>7. CASE Tidy
    <3>1. disk[p] = "ours"
        BY <2>3, <2>7, LateIsWhole DEF Tidy, Late
    <3>. QED BY <2>0, <3>1
  <2>8. ASSUME NEW q \in Paths(site), Foreign(q) PROVE FALSE
      BY <2>2, <2>8 DEF Foreign
  <2>9. CASE Run \/ Check \/ Stat \/ GitInit \/ GitAdd \/ GitCommit \/ CreateRemote \/ Kill
      BY <2>1, <2>9 DEF Run, Check, Stat, GitInit, GitAdd, GitCommit, CreateRemote, Kill
  <2>. QED BY <2>4, <2>5, <2>6, <2>7, <2>8, <2>9 DEF RepoNext, Command
<1>. QED BY <1>1, RepoStays, PTL DEF RepoSpec, ForeignIsKept
====
