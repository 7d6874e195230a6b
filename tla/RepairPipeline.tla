--------------------------- MODULE RepairPipeline ---------------------------
(***************************************************************************)
(* The repair agent: from the failed tests of a nightly build to branches  *)
(* and pull requests.                                                      *)
(*                                                                         *)
(* Six nodes run in a row over one state that lives in memory; the local   *)
(* clone and the remote outlive the process.  Any call to git, GitHub, the *)
(* file system or a model may raise, or the process die, and then the run  *)
(* is over and the next one starts from what it left in the clone.         *)
(*                                                                         *)
(* One repository, in whose clone the agent is started, and one commit.    *)
(* What the models answer is a free choice, and so is whether a test       *)
(* passes.                                                                 *)
(***************************************************************************)
EXTENDS FilePatches

CONSTANTS
  Tests, Files,
  TestFile,       \* testCaseFilePath
  Method,         \* methodName
  Span,           \* <<startLine, endLine>>
  Services,       \* the files that an analysis may name for a service
  Base,           \* the files at currentCommitSha
  Branches, Branch, \* branch_name, from the file's name
  Replacements,   \* what the repair task may answer
  MaxBatch,       \* bound: the failed tests of a run
  MaxRuns,        \* bound: the runs
  MaxLines,       \* bound: the lines of the files that are compared
  NoFile, NoPatch, NoBranch, Absent

Lines == {Blank} \cup UNION {{Base[f][i] : i \in DOMAIN Base[f]} : f \in Files}
         \cup UNION {{r[i] : i \in DOMAIN r} : r \in Replacements}

ASSUME RepairAssumption ==
  /\ TestFile \in [Tests -> Files] /\ Services \subseteq Files
  /\ Branch \in [Files -> Branches] /\ NoBranch \notin Branches
  /\ Base \in [Files -> Seq(Lines)] /\ Replacements \subseteq Seq(Lines)
  /\ \A t \in Tests : \E i, j \in 1..Len(Base[TestFile[t]]) : i <= j /\ Span[t] = <<i, j>>
  /\ NoFile \notin Files /\ NoPatch \notin Replacements
  /\ {MaxBatch, MaxRuns, MaxLines} \subseteq Nat

VARIABLES
  runs,          \* how often the agent was started
  phase, at,     \* the node that runs, and the item or group it is at
  items, groups, \* repair_items and repair_groups
  updated,       \* updated_patches of the group
  failed,        \* failed_validations of the group
  tree, index,   \* the working tree and the index of the clone
  head,          \* the branch that is checked out, or NoBranch
  branches,      \* the local branches
  remote, prs    \* the branches pushed, and the pull requests

run == <<runs, phase, at, items, groups, updated, failed>>
clone == <<tree, index, head, branches>>
vars == <<run, clone, remote, prs>>

Phases == {"off", "context", "analysis", "repair", "grouping", "branch", "patch",
           "validate", "undo", "add", "commit", "push", "pr"}

Committed == IF head = NoBranch THEN Base ELSE branches[head]

Skipped(item) == item.target = "NONE"
Patchable(item) == ~Skipped(item) /\ item.target # "SERVICE"
Group == groups[at]
-----------------------------------------------------------------------------
Init ==
  /\ runs = 0 /\ phase = "off" /\ at = 1 /\ items = <<>> /\ groups = <<>>
  /\ updated = <<>> /\ failed = {}
  /\ tree = Base /\ index = Base /\ head = NoBranch
  /\ branches = [b \in Branches |-> Absent]
  /\ remote = branches /\ prs = {}

Item(t) == [test |-> t, target |-> "NONE", service |-> NoFile, patch |-> NoPatch]

Batches == UNION {{s \in [1..n -> Tests] : \A i, j \in 1..n : s[i] = s[j] => i = j} : n \in 1..MaxBatch}

\* main: the documents of the failed tests.
Start ==
  /\ phase = "off" /\ runs < MaxRuns /\ runs' = runs + 1
  /\ \E s \in Batches : items' = [i \in DOMAIN s |-> Item(s[i])]
  /\ phase' = "context" /\ at' = 1
  /\ UNCHANGED <<groups, updated, failed, clone, remote, prs>>

\* A call raises or the process dies: what was in memory is gone.
Raise ==
  /\ phase # "off"
  /\ phase' = "off" /\ at' = 1 /\ items' = <<>> /\ groups' = <<>>
  /\ updated' = <<>> /\ failed' = {}
  /\ UNCHANGED <<runs, clone, remote, prs>>

\* A checkout takes what is not committed along, where the two commits agree.
Carries(content) == \A f \in Files : {tree[f], index[f]} # {Committed[f]} => content[f] = Committed[f]
Carried(work, content) == [f \in Files |-> IF work[f] = Committed[f] THEN content[f] ELSE work[f]]

\* Faulty variant: without the reset.
CheckoutKeeps ==
  /\ phase = "context" /\ phase' = "analysis"
  /\ Carries(Base)
  /\ tree' = Carried(tree, Base) /\ index' = Carried(index, Base) /\ head' = NoBranch
  /\ UNCHANGED <<runs, at, items, groups, updated, failed, branches, remote, prs>>

\* checkout_commit: reset --hard, then checkout.
CheckoutCommit ==
  /\ phase = "context" /\ phase' = "analysis"
  /\ tree' = Base /\ index' = Base /\ head' = NoBranch
  /\ UNCHANGED <<runs, at, items, groups, updated, failed, branches, remote, prs>>

\* The loops go on to the next item or group, and then to the next node.
Onward(list, again, next) ==
  IF at < Len(list) THEN at' = at + 1 /\ phase' = again ELSE at' = 1 /\ phase' = next

\* An analysis that fails leaves the item not reproducible.
Analyse ==
  /\ phase = "analysis"
  /\ \/ items' = items
     \/ items' = [items EXCEPT ![at].target = "TEST"]
     \/ \E f \in Services : items' = [items EXCEPT ![at].target = "SERVICE", ![at].service = f]
  /\ Onward(items, "analysis", "repair")
  /\ UNCHANGED <<runs, groups, updated, failed, clone, remote, prs>>

\* The loop breaks after the first item for which a patch is generated.
Repair ==
  /\ phase = "repair"
  /\ LET todo == {i \in DOMAIN items : Patchable(items[i])}
     IN \/ todo = {} /\ UNCHANGED items
        \/ \E i \in todo, r \in Replacements :
             /\ \A j \in todo : i <= j
             /\ items' = [items EXCEPT ![i].patch = r]
  /\ phase' = "grouping"
  /\ UNCHANGED <<runs, at, groups, updated, failed, clone, remote, prs>>

KeyOf(item) == IF item.target = "TEST" THEN TestFile[item.test] ELSE item.service

\* Faulty variant: no item is left out.
InGroupsAll(i) == TRUE

InGroups(i) == ~Skipped(items[i])

\* The items that open a group: the first for their file.
Openers ==
  {i \in DOMAIN items : InGroups(i) /\ \A j \in 1..(i - 1) : InGroups(j) => KeyOf(items[j]) # KeyOf(items[i])}

NewGroup(key, item) ==
  [key |-> key, skeleton |-> item.target # "TEST",
   tests |-> {items[j].test : j \in {l \in DOMAIN items : InGroups(l) /\ KeyOf(items[l]) = key}}]

\* One group for each file, in the order in which they are first met.
Grouping ==
  /\ phase = "grouping"
  /\ \E opens \in [1..Cardinality(Openers) -> Openers] :
       /\ \A g, h \in DOMAIN opens : g < h => opens[g] < opens[h]
       /\ groups' = [g \in DOMAIN opens |-> NewGroup(KeyOf(items[opens[g]]), items[opens[g]])]
  /\ phase' = IF Openers = {} THEN "off" ELSE "branch"
  /\ items' = IF Openers = {} THEN <<>> ELSE items
  /\ UNCHANGED <<runs, at, updated, failed, clone, remote, prs>>

\* checkout_branch: switch to the group's branch, or create it here.
CheckoutBranch ==
  /\ phase = "branch" /\ phase' = "patch"
  /\ LET b == Branch[Group.key]
     IN /\ head' = b
        /\ \/ /\ branches[b] = Absent
              /\ branches' = [branches EXCEPT ![b] = Committed] /\ UNCHANGED <<tree, index>>
           \/ /\ branches[b] # Absent /\ Carries(branches[b])
              /\ tree' = Carried(tree, branches[b]) /\ index' = Carried(index, branches[b])
              /\ UNCHANGED branches
  /\ UNCHANGED <<runs, at, items, groups, updated, failed, remote, prs>>

Original(t) == Text(SubSeq(Base[TestFile[t]], Span[t][1], Span[t][2]))

Patch(item) ==
  [method |-> Method[item.test], start |-> Span[item.test][1], end |-> Span[item.test][2],
   replacement |-> item.patch, original |-> Original(item.test)]

\* The patches of all groups are made in the file of this one; without a
\* generated patch, or when two overlap, the call raises.
PatchFile ==
  /\ phase = "patch" /\ phase' = "validate"
  /\ LET P   == {Patch(items[i]) : i \in {j \in DOMAIN items : Patchable(items[j])}}
         new == Replaced(tree[Group.key], P)
     IN /\ \A p \in P : p.replacement # NoPatch
        /\ Apart(P)
        /\ tree' = [tree EXCEPT ![Group.key] = Written(new.lines)]
        /\ updated' = new.updated
  /\ UNCHANGED <<runs, at, items, groups, failed, index, head, branches, remote, prs>>

\* run_test for each item of the group
Validate ==
  /\ phase = "validate" /\ phase' = "undo"
  /\ \E T \in SUBSET Group.tests : failed' = {Method[t] : t \in T}
  /\ UNCHANGED <<runs, at, items, groups, updated, clone, remote, prs>>

Undo ==
  /\ phase = "undo" /\ phase' = "add"
  /\ tree' = [tree EXCEPT ![Group.key] =
       Written(Removed(@, Picked(updated, {p \in Range(updated) : p.method \in failed})))]
  /\ updated' = <<>> /\ failed' = {}
  /\ UNCHANGED <<runs, at, items, groups, index, head, branches, remote, prs>>

Add ==
  /\ phase = "add" /\ phase' = "commit"
  /\ index' = [index EXCEPT ![Group.key] = tree[Group.key]]
  /\ UNCHANGED <<runs, at, items, groups, updated, failed, tree, head, branches, remote, prs>>

\* With nothing to commit the call raises.
Commit ==
  /\ phase = "commit" /\ index # Committed
  /\ branches' = [branches EXCEPT ![head] = index]
  /\ Onward(groups, "branch", "push")
  /\ UNCHANGED <<runs, items, groups, updated, failed, tree, index, head, remote, prs>>

Pushed(b) == [remote EXCEPT ![b] = branches[b]]

Push ==
  /\ phase = "push" /\ phase' = "pr"
  /\ remote' = Pushed(Branch[Group.key])
  /\ UNCHANGED <<runs, at, items, groups, updated, failed, clone, prs>>

\* current_branch, which is the last group's.
Target == head

\* GitHub refuses a pull request of a branch for itself, for a branch it does
\* not have, and the same one twice.
Accepted(pr) == pr.source # pr.target /\ remote[pr.target] # Absent /\ pr \notin prs

\* That of the last group is never accepted.
OpenPullRequest ==
  /\ phase = "pr" /\ phase' = "push" /\ at < Len(groups) /\ at' = at + 1
  /\ LET pr == [source |-> Branch[Group.key], target |-> Target]
     IN Accepted(pr) /\ prs' = prs \cup {pr}
  /\ UNCHANGED <<runs, items, groups, updated, failed, clone, remote>>

Next ==
  \/ Start \/ Raise \/ CheckoutCommit \/ Analyse \/ Repair \/ Grouping
  \/ CheckoutBranch \/ PatchFile \/ Validate \/ Undo \/ Add \/ Commit
  \/ Push \/ OpenPullRequest

Spec == Init /\ [][Next]_vars
-----------------------------------------------------------------------------
(* Properties.                                                             *)

TypeOK ==
  /\ runs \in 0..MaxRuns /\ phase \in Phases
  /\ items \in Seq([test : Tests, target : {"NONE", "TEST", "SERVICE"},
                    service : Services \cup {NoFile}, patch : Replacements \cup {NoPatch}])
  /\ at \in 1..(1 + Len(items)) /\ failed \subseteq {Method[t] : t \in Tests}
  /\ groups \in Seq([key : Files, skeleton : BOOLEAN, tests : SUBSET Tests])
  /\ updated \in Seq([method : {Method[t] : t \in Tests}, start : Nat \ {0}, end : Nat,
                      replacement : Replacements, original : Seq(Lines)])
  /\ {tree, index} \subseteq [Files -> Seq(Lines)] /\ head \in Branches \cup {NoBranch}
  /\ branches \in [Branches -> [Files -> Seq(Lines)] \cup {Absent}]
  /\ remote \in [Branches -> [Files -> Seq(Lines)] \cup {Absent}]
  /\ prs \subseteq [source : Branches, target : Branches]

\* Any patches of a file that do not overlap.
SpanSets == [k \in 0..MaxLines |->
  {R \in SUBSET {[start |-> i, end |-> j] : i \in 1..k, j \in 1..k} :
     (\A p \in R : p.start <= p.end) /\ Apart(R)}]

PatchSets(lines) ==
  UNION {{{[method |-> p, start |-> p.start, end |-> p.end, replacement |-> r[p],
            original |-> Text(SubSeq(lines, p.start, p.end))] : p \in R} :
          r \in [R -> Replacements]} : R \in SpanSets[Len(lines)]}

\* Whatever patches a run may make in the file it is about to patch, each one
\* replaces its own lines and moves no other (replace_lines).
PatchesLandInPlace ==
  phase = "patch" =>
    LET lines == tree[Group.key] IN
    Len(lines) <= MaxLines =>
      \A P \in PatchSets(lines) : Replaced(lines, P).lines = Meant(lines, P)

\* Such patches can be taken back by themselves, if none of them replaced an
\* empty line at its end and no two begin in the same place, as an empty one
\* and the one below it do.
Removable(undo, lines) ==
  /\ \A i \in DOMAIN undo : lines[undo[i].method.end] # Blank
  /\ \A i, j \in DOMAIN undo : undo[i].start = undo[j].start => i = j

\* When the patches that failed validation are taken back, the file is as if
\* only the others had been made (remove_lines).
UndoRestores ==
  phase = "patch" =>
    LET lines == tree[Group.key] IN
    Len(lines) <= MaxLines =>
      \A P \in PatchSets(lines) :
        LET new == Replaced(lines, P) IN
        \A F \in SUBSET P :
          LET undo == Picked(new.updated, {u \in Range(new.updated) : \E p \in F : p.method = u.method})
          IN Removable(undo, lines) => Removed(new.lines, undo) = Meant(lines, P \ F)

\* A commit changes the file of its group only: what a run that died left in
\* the working tree or the index is never committed by a later one.
CommitIsOwnFile ==
  [][\A b \in Branches :
       branches[b] # Absent /\ branches'[b] # branches[b] =>
         \A f \in Files \ {Group.key} : branches'[b][f] = branches[b][f]]_vars
=============================================================================
