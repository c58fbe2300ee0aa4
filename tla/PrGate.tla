------------------------------- MODULE PrGate -------------------------------
(***************************************************************************)
(* The path check of .github/workflows/pr-gate.yml.  A path is the         *)
(* sequence of its components; the list of changed paths comes in pages,   *)
(* and gh may fail at any of them: after a lost connection it has printed  *)
(* the pages before, after an HTTP error the answer's body too.            *)
(***************************************************************************)
EXTENDS Integers, Sequences

CONSTANTS
    Paths, \* paths that a pull request may touch
    Moves, \* renames: <<old path, new path>>
    Errors,\* what a page may end in: a subset of {"network", "http"}
    PageLen, MaxChanges \* files of a page, and bound of the model on a pull request

AllowedDirs == {"chips", "drivers", "crypto", "arch", "soc", "toolchains", "integrations"}

GateAssumption ==
    /\ Paths \subseteq Seq(STRING) \ {<<>>} /\ Moves \subseteq Paths \X Paths
    /\ Errors \subseteq {"network", "http"}
    /\ PageLen \in Nat \ {0} /\ MaxChanges \in Nat

VARIABLES
    changes,   \* of the pull request: old and new path of each
    pc,
    fetched,   \* changes that gh has printed
    failed,    \* how the list ended
    files,     \* FILES
    at,        \* lines of FILES that the loop has read
    forbidden, \* FORBIDDEN
    errors,    \* the annotations: line of FILES and why
    exit

vars == <<changes, pc, fetched, failed, files, at, forbidden, errors, exit>>

Body == <<"{message}">>
Changes == {<<p, p>> : p \in Paths} \cup Moves

Init ==
    /\ changes \in UNION {[1 .. n -> Changes] : n \in 1 .. MaxChanges}
    /\ pc = "fetch" /\ fetched = 0 /\ failed = "no" /\ files = <<>> /\ at = 0
    /\ forbidden = FALSE /\ errors = <<>> /\ exit = "none"

-----------------------------------------------------------------------------
(* gh api --paginate, by --jq the new path of each change *)

PageEnd == IF fetched + PageLen < Len(changes) THEN fetched + PageLen ELSE Len(changes)

Page ==
    /\ pc = "fetch"
    /\ fetched' = PageEnd
    /\ files' = files \o [i \in 1 .. PageEnd - fetched |-> changes[fetched + i][2]]
    /\ pc' = IF fetched' = Len(changes) THEN "listed" ELSE "fetch"
    /\ UNCHANGED <<changes, failed, at, forbidden, errors, exit>>

PrintedAfter(error) == IF error = "http" THEN Append(files, Body) ELSE files

PageFails ==
    /\ pc = "fetch" /\ pc' = "listed"
    /\ failed' \in Errors /\ files' = PrintedAfter(failed')
    /\ UNCHANGED <<changes, fetched, at, forbidden, errors, exit>>

-----------------------------------------------------------------------------
(* The check *)

Done(code) == pc' = "done" /\ exit' = code

Exit0IfEmpty ==
    /\ pc = "listed"
    /\ IF files = <<>> THEN Done("warning") ELSE pc' = "loop" /\ UNCHANGED exit
    /\ UNCHANGED <<changes, fetched, failed, files, at, forbidden, errors>>

\* Fault: the pattern has no slash, and a file named like a directory passes.
InsideByName(dir, path) == path[1] = dir

Inside(dir, path) == path[1] = dir /\ Len(path) > 1

Why(path) ==
    IF path \in {<<"registry.json">>, <<"compatibility_matrix.json">>} THEN "generated"
    ELSE IF Inside(".github", path) THEN "workflow"
    ELSE "outside"

Forbidden(match) == forbidden \/ ~match

CheckFile ==
    /\ pc = "loop" /\ at < Len(files)
    /\ at' = at + 1
    /\ LET file == files[at']
           match == \E dir \in AllowedDirs : Inside(dir, file)
       IN  /\ forbidden' = Forbidden(match)
           /\ errors' = IF match THEN errors ELSE Append(errors, <<at', Why(file)>>)
    /\ UNCHANGED <<changes, pc, fetched, failed, files, exit>>

Finish ==
    /\ pc = "loop" /\ at = Len(files)
    /\ IF forbidden THEN Done("1") ELSE Done("0")
    /\ UNCHANGED <<changes, fetched, failed, files, at, forbidden, errors>>

Next == Page \/ PageFails \/ Exit0IfEmpty \/ CheckFile \/ Finish
Spec == Init /\ [][Next]_vars

-----------------------------------------------------------------------------
(* Properties *)

IsAllowed(path) == Len(path) > 1 /\ path[1] \in AllowedDirs

\* The list names a file by its new path only: a file moved in is not seen to be
\* one that was taken from outside.
NoneMovedIn == \A i \in DOMAIN changes : IsAllowed(changes[i][2]) => IsAllowed(changes[i][1])

\* With the whole list fetched and no file moved in, the gate fails exactly for a
\* pull request with a path outside, and says of each such path, once and of no
\* other, why (pr-gate.yml:58-94).  Of files moved in, lines 5 and 89 say what
\* PassOnlyAllowed says, and the gate does not keep it.
VerdictIsOfPaths ==
    pc = "done" /\ failed = "no" /\ NoneMovedIn =>
        LET out == {i \in DOMAIN changes : ~IsAllowed(changes[i][2])}
        IN  /\ exit = IF out = {} THEN "0" ELSE "1"
            /\ {errors[j][1] : j \in DOMAIN errors} = out
            /\ \A j, k \in DOMAIN errors : errors[j][1] = errors[k][1] => j = k
            /\ \A j \in DOMAIN errors :
                LET path == changes[errors[j][1]][2]
                IN  errors[j][2] = "workflow" <=> path[1] = ".github" /\ Len(path) > 1

\* A list cut short by an HTTP error never passes: the answer's body counts as
\* a path (pr-gate.yml:50-51 and 61-85).
ErrorBodyFails == pc = "done" /\ failed = "http" => exit = "1"

\* What pr-gate.yml:5 and :89 say: a pull request that passes only touches the
\* allowed directories (a warning says that nothing was checked).  Two things
\* break it: a list that a lost connection cut short, and a file moved in.
PassOnlyAllowed ==
    pc = "done" /\ exit = "0" =>
        \A i \in DOMAIN changes : IsAllowed(changes[i][1]) /\ IsAllowed(changes[i][2])
=============================================================================
