--------------------------- MODULE InventoryScan ---------------------------
(***************************************************************************)
(* The status that discovery gives to a skill: what the scans of its       *)
(* copies, each within limits, amount to. The copies of one name are       *)
(* modelled; names are grouped apart from each other. A copy's directory   *)
(* holds files under numbers in the order of their names, each with its    *)
(* kind ("file", "unreadable" or "link"), its size and its content. A      *)
(* directory in it is walked in the same way and is left out.              *)
(***************************************************************************)
EXTENDS Naturals, FiniteSets, Sequences

CONSTANTS
    Shared,          \* places in the source, numbered in the order of their paths
    Targets,
    Directories,     \* [files, front, listed]: the files, whether the frontmatter can
                     \* be parsed, and whether the directories can be listed
    Filters,         \* [include, exclude]: what the patterns of a target match
    Limits,          \* [files, file, total]: max_files, max_file_bytes, max_total_bytes
    None

Statuses == {"scan_warning", "diverged", "missing", "consistent", "local_only"}

SharedAssumption == Shared \subseteq Nat /\ None \notin Statuses
FiltersAssumption ==
    Filters \subseteq [include : {"no pattern", "matches", "other"}, exclude : BOOLEAN]
LimitsAssumption == Limits \subseteq [files : Nat, file : Nat, total : Nat]
DirectoriesAssumption ==
    \A d \in Directories :
        /\ d.files \in Seq({d.files[f] : f \in DOMAIN d.files})
        /\ {d.front, d.listed} \subseteq BOOLEAN
        /\ \A f \in DOMAIN d.files :
              d.files[f].kind \in {"file", "unreadable", "link"} /\ d.files[f].size \in Nat

VARIABLES
    shared,     \* per place in the source, the directory of a copy, or None
    target,     \* per target, the directory of its copy, or None
    filter,     \* per target, what its patterns match
    limits,
    status      \* what discovery reports of the skill, or None

vars == <<shared, target, filter, limits, status>>

Init ==
    /\ shared \in [Shared -> Directories \cup {None}]
    /\ target \in [Targets -> Directories \cup {None}]
    /\ {shared[p] : p \in Shared} \cup {target[t] : t \in Targets} # {None}
    /\ filter \in [Targets -> Filters]
    /\ limits \in Limits
    /\ status = None

----------------------------------------------------------------------------
(* _directory_digest and _scan_skill                                       *)

Links(d) == {f \in DOMAIN d.files : d.files[f].kind = "link"}

\* The walk lists what is not a link from the last name to the first and
\* stops when it has one too many.
Listed(d) == DOMAIN d.files \ Links(d)
Kept(d) == {f \in Listed(d) : Cardinality({g \in Listed(d) : g > f}) < limits.files}

Unread(d) == [read |-> <<>>, total |-> 0, stopped |-> FALSE,
              complete |-> Links(d) = {} /\ Kept(d) = Listed(d)]

\* Mutant: the total limit ends the scan without a warning.
ReadOnQuietly(d, scan, f) ==
    LET file == d.files[f]
        remaining == limits.total - scan.total
    IN  CASE scan.stopped -> scan
          [] ~scan.stopped /\ file.kind = "unreadable" -> [scan EXCEPT !.complete = FALSE]
          [] ~scan.stopped /\ file.kind = "file" /\ file.size > remaining ->
                [scan EXCEPT !.stopped = TRUE]
          [] ~scan.stopped /\ file.kind = "file" /\ file.size \in limits.file + 1..remaining ->
                [scan EXCEPT !.complete = FALSE]
          [] OTHER -> [scan EXCEPT !.read = Append(@, <<f, file>>), !.total = @ + file.size]

ReadOn(d, scan, f) ==
    LET file == d.files[f]
        remaining == limits.total - scan.total
        over == file.kind = "file" /\ (file.size > limits.file \/ file.size > remaining)
    IN  CASE scan.stopped -> scan
          [] ~scan.stopped /\ file.kind = "unreadable" -> [scan EXCEPT !.complete = FALSE]
          [] ~scan.stopped /\ over ->
                [scan EXCEPT !.complete = FALSE, !.stopped = remaining < limits.file]
          [] OTHER -> [scan EXCEPT !.read = Append(@, <<f, file>>), !.total = @ + file.size]

Scan(d) ==
    LET upto[f \in 0..Len(d.files)] ==
            IF f = 0 THEN Unread(d)
            ELSE IF f \in Kept(d) THEN ReadOn(d, upto[f - 1], f) ELSE upto[f - 1]
    IN  upto[Len(d.files)]

\* The digest is that of what was read; its hash is taken as injective.
Instance(d) ==
    [digest |-> IF d.listed THEN Scan(d).read ELSE None,
     warned |-> ~d.front \/ ~d.listed \/ ~Scan(d).complete]

----------------------------------------------------------------------------
(* _missing_targets, _asset_status, _aggregate_assets                      *)

Expects(t) == filter[t].include # "other" /\ ~filter[t].exclude

Copies(places) == {p \in DOMAIN places : places[p] # None}

HasSource == Copies(shared) # {}
Source == CHOOSE p \in Copies(shared) : \A q \in Copies(shared) : p <= q

MissingTargets ==
    IF HasSource THEN {t \in Targets : Expects(t) /\ target[t] = None} ELSE {}

AssetStatus ==
    IF \E d \in {shared[p] : p \in Copies(shared)} \cup {target[t] : t \in Copies(target)} :
          Instance(d).warned THEN "scan_warning"
    ELSE IF HasSource /\ \E t \in Copies(target) :
              Instance(target[t]).digest # Instance(shared[Source]).digest THEN "diverged"
    ELSE IF MissingTargets # {} THEN "missing"
    ELSE IF HasSource THEN "consistent" ELSE "local_only"

Aggregate ==
    /\ status = None
    /\ status' = AssetStatus
    /\ UNCHANGED <<shared, target, filter, limits>>

Next == Aggregate

Spec == Init /\ [][Next]_vars

----------------------------------------------------------------------------
(* Properties                                                              *)

\* All of a copy's content can be read within the limits.
Total(files) ==
    LET upto[f \in 0..Len(files)] == IF f = 0 THEN 0 ELSE upto[f - 1] + files[f].size
    IN  upto[Len(files)]
Readable(d) ==
    /\ d.front /\ d.listed
    /\ \A f \in DOMAIN d.files : d.files[f].kind = "file" /\ d.files[f].size <= limits.file
    /\ Cardinality(DOMAIN d.files) <= limits.files
    /\ Total(d.files) <= limits.total

(* The status is what one would say of the files themselves, without       *)
(* digests, limits or an order of scanning: a copy that was read only in   *)
(* part never counts as consistent or diverged, copies count as equal only *)
(* if all of their files are, and of a skill that is missing somewhere all *)
(* the copies that exist are equal to the first source.                    *)
StatusIsOfTheFiles ==
    LET here == {t \in Targets : target[t] # None}
        sources == {p \in Shared : shared[p] # None}
        all == {shared[p] : p \in sources} \cup {target[t] : t \in here}
        first == {p \in sources : \A q \in sources : p <= q}
        equal == \A t \in here, p \in first : target[t].files = shared[p].files
        lacking == {t \in Targets \ here : filter[t].include # "other" /\ ~filter[t].exclude}
        whole == \A d \in all : Readable(d)
    IN  /\ status = "scan_warning" => ~whole
        /\ status = "diverged" => whole /\ ~equal
        /\ status = "missing" => whole /\ equal /\ sources # {} /\ lacking # {}
        /\ status = "consistent" => whole /\ equal /\ sources # {} /\ lacking = {}
        /\ status = "local_only" => whole /\ sources = {}

=============================================================================
