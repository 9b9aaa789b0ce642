------------------------------ MODULE Sandbox ------------------------------
(***************************************************************************)
(* The path side of crates/vfs: names of a container, normalisation of a   *)
(* guest path and its translation to a host path.                          *)
(*                                                                         *)
(* A path is the sequence of its components, the strings between slashes:  *)
(* "/a/b" is <<"", "a", "b">>, "a/" is <<"a", "">>, and the empty string   *)
(* is <<"">>.  A host path is a sequence of plain names below the data     *)
(* directory of the Android app.                                           *)
(***************************************************************************)
EXTENDS Integers, Sequences, SequencesExt

CONSTANTS
  Padded,       \* [name that ends in a blank -> the name without it]
  NulNames      \* names with a NUL in them

Component == STRING
Empty == ""     \* the component between two slashes
Blank == " "    \* a component of blanks only

ASSUME NamesAssumption ==
  /\ {Empty, Blank, "var", "mobile", "Applications", "System", "usr", "Library", "private", "db"}
       \subseteq Component
  /\ Padded \in [DOMAIN Padded -> Component]
  /\ NulNames \cap {Empty, ".", ".."} = {}

\* The names that a file may have.
PlainNames == Component \ ({Empty, ".", ".."} \cup NulNames)
EmptyString == <<Empty>>
IsAbsolute(path) == Len(path) > 1 /\ path[1] = Empty

-----------------------------------------------------------------------------
(* Sandbox::prepare: the names of a container. *)

(* sanitize_component: separators become underscores; a name is given here as
   the pieces between its separators. *)
SanitizeComponent(pieces) ==
  LET cleaned == FoldLeft(LAMBDA l, r : l \o "_" \o r, Head(pieces), Tail(pieces))
  IN  IF cleaned \in {Empty, ".", ".."} THEN "App" ELSE cleaned

HostRoot(uuid) == <<"Containers", "Applications", uuid>>
SystemRoot == <<"System">>
IosPrefix(uuid) == <<Empty, "var", "mobile", "Applications", uuid>>
BundleName(app) == SanitizeComponent(app) \o ".app"

\* The directories that prepare creates, in this order.
SandboxLayout(uuid, app) ==
  <<HostRoot(uuid) \o <<BundleName(app)>>, HostRoot(uuid) \o <<"Documents">>,
    HostRoot(uuid) \o <<"Library", "Caches">>, HostRoot(uuid) \o <<"Library", "Preferences">>,
    HostRoot(uuid) \o <<"tmp">>>>
BundleIosPath(uuid, app) == IosPrefix(uuid) \o <<BundleName(app)>>

-----------------------------------------------------------------------------
(* normalize_ios_path: one component after the other onto the clean ones. *)

Bad == [ok |-> FALSE, out |-> << >>]

\* Mutant: ".." at the root stays at the root.
PushComponent_Clamped(acc, c) ==
  CASE ~ acc.ok \/ c \in {Empty, "."} -> acc
    [] acc.ok /\ c = ".." -> [acc EXCEPT !.out = IF @ = << >> THEN @ ELSE Front(@)]
    [] acc.ok /\ c \in NulNames -> Bad
    [] OTHER -> [acc EXCEPT !.out = Append(@, c)]

PushComponent(acc, c) ==
  CASE ~ acc.ok \/ c \in {Empty, "."} -> acc
    [] acc.ok /\ c = ".." -> IF acc.out = << >> THEN Bad ELSE [acc EXCEPT !.out = Front(@)]
    [] acc.ok /\ c \in NulNames -> Bad
    [] OTHER -> [acc EXCEPT !.out = Append(@, c)]

\* What the loop holds after each component.
Normalized(path) ==
  LET norm[k \in 0 .. Len(path)] ==
        IF k = 0 THEN [ok |-> TRUE, out |-> << >>] ELSE PushComponent(norm[k - 1], path[k])
  IN  norm

NormalizeIosPath(path) ==
  IF path = EmptyString THEN Bad ELSE Normalized(path)[Len(path)]

-----------------------------------------------------------------------------
(* Sandbox::translate *)

(* str::trim: blanks at both ends of the whole path. *)
Trim(path) ==
  [i \in DOMAIN path |->
     IF i \in {1, Len(path)} /\ path[i] = Blank THEN Empty
     ELSE IF i = Len(path) /\ path[i] \in DOMAIN Padded THEN Padded[path[i]]
     ELSE path[i]]

\* strip_prefix_dir, for a path that IsPrefix of.
RestAfter(prefix, path) ==
  IF path = prefix THEN EmptyString ELSE SubSeq(path, Len(prefix) + 1, Len(path))

ReadOnlyTrees ==
  {<<Empty, "System">>, <<Empty, "usr">>, <<Empty, "Library">>, <<Empty, "private", "var", "db">>,
   <<Empty, "Applications">>}

Refused == [ok |-> FALSE, host |-> << >>, read_only |-> FALSE]

JoinChecked(base, rest, read_only) ==
  LET norm == NormalizeIosPath(rest)
  IN  IF norm.ok THEN [ok |-> TRUE, host |-> base \o norm.out, read_only |-> read_only]
      ELSE Refused

Absolute(uuid, app, path) ==
  IF IsAbsolute(Trim(path)) THEN Trim(path) ELSE BundleIosPath(uuid, app) \o Trim(path)

\* The container first, then the trees of the system image; no two of these
\* prefixes contain each other.
Translate(uuid, app, path) ==
  LET abs == Absolute(uuid, app, path)
      trees == {t \in ReadOnlyTrees : IsPrefix(t, abs)}
  IN  IF IsPrefix(IosPrefix(uuid), abs)
      THEN JoinChecked(HostRoot(uuid), RestAfter(IosPrefix(uuid), abs), FALSE)
      ELSE IF trees = {} THEN Refused
      ELSE LET t == CHOOSE t \in trees : TRUE
           IN  JoinChecked(SystemRoot \o Tail(t), RestAfter(t, abs), TRUE)

-----------------------------------------------------------------------------
(* Reference: how a kernel with these trees mounted would resolve a path. *)

Names(path, n) == {k \in 1 .. n : path[k] \notin {Empty, ".", ".."}}
Ups(path, n) == {k \in 1 .. n : path[k] = ".."}

\* How far below its start the walk is after n components.
Depth(path, n) == Cardinality(Names(path, n)) - Cardinality(Ups(path, n))
NeverAbove(path) == \A n \in DOMAIN path : Depth(path, n) >= 0

\* The name at each depth: the last one by which the walk came down to it.
Kept(path) ==
  [d \in 1 .. Depth(path, Len(path)) |->
     path[Max({k \in Names(path, Len(path)) : Depth(path, k) = d})]]

\* The mounts that the comment of translate names; the code has one tree more.
ApplicationsTree == <<Empty, "Applications">>
Mounts(uuid) ==
  {[at |-> IosPrefix(uuid), root |-> HostRoot(uuid), read_only |-> FALSE]}
    \cup {[at |-> t, root |-> SystemRoot \o Tail(t), read_only |-> TRUE] :
            t \in ReadOnlyTrees \ {ApplicationsTree}}
MountsOf(uuid, abs) == {m \in Mounts(uuid) : IsPrefix(m.at, abs)}
\* The walk stays in its mount, and a kernel knows all the names.
Resolvable(rest) == NeverAbove(rest) /\ Range(rest) \cap NulNames = {}
=============================================================================
