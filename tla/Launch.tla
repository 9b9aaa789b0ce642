------------------------------- MODULE Launch -------------------------------
(***************************************************************************)
(* The launch session: crates/jni/src/session.rs with the parts of crates  *)
(* ipa and vfs that it drives.  A scan lists the apps of the directory of  *)
(* archives.  Every tap of the user on the list launches an app on a       *)
(* thread of its own: inspect the archive, make a container, unzip the     *)
(* bundle into it, read the executable, load and run it.  Meanwhile the    *)
(* user may replace an archive or remove it.                               *)
(*                                                                         *)
(* Abstraction.  An archive is the sequence of its entries, [path, data];  *)
(* the data of an Info.plist is a document, and what plist::parse makes of *)
(* it (Plist) is a parameter here.  Icons and version strings are left     *)
(* out.  A running guest stores files through the sandbox; the rest of     *)
(* what it does is in Machine and Syscalls.                                *)
(***************************************************************************)
EXTENDS Sandbox, FiniteSets

CONSTANTS
  Launches,         \* the threads of the taps
  IpaPaths,         \* names in the directory of archives
  Archives,         \* what the user may put there, or NoArchive
  Directories,      \* the directory when the app starts: [IpaPaths -> archive]
  NoArchive,
  AppNames,         \* [directory name that ends in .app -> its stem]
  SortKey,          \* [name of an app -> its place in lower-case order]
  GuestPaths,       \* paths that a guest may name
  SavePaths,        \* the ones it stores to
  Parsed,           \* [document -> what plist::parse answers]
  HostData,         \* what files of the host outside the containers may hold
  Clock, Pid, UuidWord, UuidOdd,    \* words of the container id
  BitXor(_, _),        \* bitwise, of two words
  MaxChanges        \* bound: changes of the directory by the user

VARIABLES
  archives,         \* the directory: [IpaPaths -> archive]
  changes,          \* how often the user changed it
  launch,           \* the locals of launch_inner on each thread
  counter,          \* COUNTER of generate_uuid
  dirs, files,      \* the host's directories and files below the data directory
  scan              \* the locals of scan_directory

vars == <<archives, changes, launch, counter, dirs, files, scan>>

NoUuid == Empty
Bytes(content) == [bytes |-> content]       \* the data of a plain file
Saved == Bytes("saved")
Idle == [phase |-> "idle", ipa |-> Empty, bundle |-> << >>, app |-> << >>, exe |-> << >>,
         uuid |-> NoUuid, source |-> << >>, i |-> 1, code |-> Bytes(Empty)]

Init ==
  /\ archives \in Directories
  /\ changes = 0
  /\ launch = [t \in Launches |-> Idle]
  /\ counter = 0
  /\ dirs = {} /\ files = << >>
  /\ scan = [phase |-> "idle", todo |-> {}, found |-> << >>, steady |-> {}]

-----------------------------------------------------------------------------
(* inspect_ipa *)

Entries(archive) == IF archive = NoArchive THEN {} ELSE Range(archive)
InfoOf(dir) == dir \o <<"Info.plist">>

\* Directories of find_bundle_dir: Payload/.../*.app with an Info.plist.
BundleDirs(archive) ==
  {Front(e.path) : e \in {x \in Entries(archive) :
     /\ Len(x.path) > 2 /\ x.path[1] = "Payload" /\ Last(x.path) = "Info.plist"
     /\ x.path[Len(x.path) - 1] \in DOMAIN AppNames}}

\* The shallowest ones; file_names has no order that decides between them.
MainBundles(archive) ==
  {d \in BundleDirs(archive) : \A e \in BundleDirs(archive) : Len(d) <= Len(e)}

\* read_entry gives the last entry of a name.
EntryData(archive, path) ==
  archive[Max({i \in DOMAIN archive : archive[i].path = path})].data

DefaultExecutableName(dir) == <<AppNames[Last(dir)]>>

Known == Archives \cup UNION {Range(d) : d \in Directories}
KnownEntries == UNION {Entries(a) : a \in Known}
Documents == {e.data : e \in {x \in KnownEntries : Last(x.path) = "Info.plist"}}
InfoPlist(archive, dir) == Parsed[EntryData(archive, InfoOf(dir))]

(* PlistValue::get and as_str, with "" for a string that is not there. *)
GetString(value, key) ==
  IF /\ value.tag = "dict" /\ key \in DOMAIN value.map
     /\ value.map[key].tag = "string"
  THEN value.map[key].text ELSE EmptyString

\* metadata_from_plist, and the fallback for the executable.
Metadata(plist, dir) ==
  LET display == GetString(plist, <<"CFBundleDisplayName">>)
      exe == GetString(plist, <<"CFBundleExecutable">>)
  IN  [bundle |-> dir,
       app |-> IF display # EmptyString THEN display ELSE GetString(plist, <<"CFBundleName">>),
       exe |-> IF exe # EmptyString THEN exe ELSE DefaultExecutableName(dir)]

Readable(archive, dir) == InfoPlist(archive, dir).tag # "failed"

\* What inspect_ipa may answer: bundle directory, name and executable.
Inspections(archive) ==
  {Metadata(InfoPlist(archive, d), d) : d \in {b \in MainBundles(archive) : Readable(archive, b)}}

\* inspect_ipa fails: no archive, no bundle, or an Info.plist that cannot be read.
MayBeRefused(archive) ==
  MainBundles(archive) = {} \/ \E d \in MainBundles(archive) : ~ Readable(archive, d)

\* The archives are sequences of entries with paths.  The strings of a plist are
\* strings, of which SanitizeComponent makes a name and which SortKey orders.
ASSUME ArchiveAssumption ==
  /\ \A d \in Directories : d \in [IpaPaths -> Known]
  /\ \A a \in Known \ {NoArchive} : a \in Seq(Range(a))
  /\ \A e \in KnownEntries : e.path \in Seq(Component) \ {<< >>}
  /\ \A a \in Known : \A b \in Inspections(a) :
       /\ b.app \in Seq(Component) /\ b.exe \in Seq(Component) \ {<< >>}
       /\ BundleName(b.app) \in PlainNames /\ SortKey[b.app] \in Int
  /\ GuestPaths \cup SavePaths \subseteq Seq(Component) \ {<< >>}
  /\ MaxChanges \in Nat

-----------------------------------------------------------------------------
(* launch_inner, step by step *)

At(t, phase) == launch[t].phase = phase
\* launch answers and its locals are gone; the container stays on disk.
Leave(t) ==
  /\ launch' = [launch EXCEPT ![t] = [Idle EXCEPT !.phase = "done", !.uuid = launch[t].uuid]]
  /\ UNCHANGED <<archives, changes, counter, dirs, files, scan>>

(* A tap on an app of the list: nativeLaunch on a thread of its own. *)
Tap(t) ==
  /\ At(t, "idle") /\ scan.phase = "done"
  /\ \E app \in Range(scan.found) :
       launch' = [launch EXCEPT ![t].phase = "inspect", ![t].ipa = app.ipa]
  /\ UNCHANGED <<archives, changes, counter, dirs, files, scan>>

Inspect(t) ==
  /\ At(t, "inspect")
  /\ \E b \in Inspections(archives[launch[t].ipa]) :
       launch' = [launch EXCEPT ![t].phase = "uuid", ![t].bundle = b.bundle,
                                ![t].app = b.app, ![t].exe = b.exe]
  /\ UNCHANGED <<archives, changes, counter, dirs, files, scan>>

InspectFails(t) == At(t, "inspect") /\ MayBeRefused(archives[launch[t].ipa]) /\ Leave(t)

Words == 0 .. UuidWord - 1
FormatUuid(a, b) == ToString(<<a, b>>)      \* every digit of both words
RotateLeft(word) == (2 * word + word \div (UuidWord \div 2)) % UuidWord

\* Mutant: time and process id only.
ContainerId_NoCounter(nanos, seq) ==
  FormatUuid(BitXor(nanos, (Pid * 4) % UuidWord), RotateLeft(nanos))

\* Two words: the clock with the process id above it, and the clock rotated
\* with the counter times an odd number.
ContainerId(nanos, seq) ==
  FormatUuid(BitXor(nanos, (Pid * 4) % UuidWord),
             BitXor(RotateLeft(nanos), (seq * UuidOdd) % UuidWord))

\* A counter below the word size is enough for every launch of a process; the
\* multiplier is odd, and so has an inverse; the digits say what the words are.
ASSUME UuidAssumption ==
  /\ UuidWord \in Nat \ {0, 1} /\ Clock \subseteq Words /\ Pid \in Nat /\ UuidOdd \in Nat
  /\ \E inverse \in Words : (UuidOdd * inverse) % UuidWord = 1
  /\ IsFiniteSet(Launches) /\ Cardinality(Launches) <= UuidWord
  /\ \A a, b \in Words :
       /\ BitXor(a, b) \in Words /\ BitXor(a, b) = BitXor(b, a) /\ BitXor(BitXor(a, b), b) = a
       /\ FormatUuid(a, b) \in Component \ {NoUuid}
       /\ \A c, d \in Words : FormatUuid(a, b) = FormatUuid(c, d) => a = c /\ b = d

GenerateUuid(t) ==
  /\ At(t, "uuid")
  /\ \E nanos \in Clock :
       launch' = [launch EXCEPT ![t].phase = "prepare",
                                ![t].uuid = ContainerId(nanos, counter)]
  /\ counter' = counter + 1
  /\ UNCHANGED <<archives, changes, dirs, files, scan>>

Layout(t) == SandboxLayout(launch[t].uuid, launch[t].app)

(* The host's file system, external: create_dir_all and write need every parent
   to be a directory, and a file is not written over a directory. *)
Parents(path) == {SubSeq(path, 1, n) : n \in 1 .. Len(path) - 1}
CanCreateDir(path) == (Parents(path) \cup {path}) \cap DOMAIN files = {}
CreateDirAll(path) == dirs' = dirs \cup Parents(path) \cup {path}
Store(path, t, data) ==
  files' = [f \in DOMAIN files \cup {path} |->
              IF f = path THEN [by |-> t, data |-> data] ELSE files[f]]

(* Sandbox::prepare.  A failure leaves some of the directories, of which the
   launch is the only reader, so they are not told apart. *)
Prepare(t) ==
  /\ At(t, "prepare")
  /\ \A d \in Range(Layout(t)) : CanCreateDir(d)
  /\ dirs' = dirs \cup UNION {Parents(d) \cup {d} : d \in Range(Layout(t))}
  /\ launch' = [launch EXCEPT ![t].phase = "open"]
  /\ UNCHANGED <<archives, changes, counter, files, scan>>

(* extract_app opens the archive again. *)
OpenArchive(t) ==
  /\ At(t, "open") /\ archives[launch[t].ipa] # NoArchive
  /\ launch' = [launch EXCEPT ![t].phase = "extract", ![t].i = 1,
                              ![t].source = archives[launch[t].ipa]]
  /\ UNCHANGED <<archives, changes, counter, dirs, files, scan>>

Entry(t) == launch[t].source[launch[t].i]
InBundle(t, path) == IsPrefix(launch[t].bundle, path) /\ Len(path) > Len(launch[t].bundle)
Rel(t, path) == RestAfter(launch[t].bundle, path)
Unsafe(rel) == IsAbsolute(rel) \/ ".." \in Range(rel)
Skipped(t, e) == ~ InBundle(t, e.path) \/ Rel(t, e.path) = EmptyString
IsDirEntry(e) == Last(e.path) = Empty
\* Joined to the bundle directory, as the host resolves it.
HostNames(rel) ==
  LET names[k \in 0 .. Len(rel)] ==
        IF k = 0 THEN << >>
        ELSE IF rel[k] \in {Empty, "."} THEN names[k - 1] ELSE Append(names[k - 1], rel[k])
  IN  names
OutPath(t, rel) == Layout(t)[1] \o HostNames(rel)[Len(rel)]
Extracting(t) == At(t, "extract") /\ launch[t].i <= Len(launch[t].source)

\* Mutant: the loop goes back to the same entry.
SkipEntry_Stay(t) == Extracting(t) /\ Skipped(t, Entry(t)) /\ UNCHANGED vars
SkipEntry(t) ==
  /\ Extracting(t) /\ Skipped(t, Entry(t))
  /\ launch' = [launch EXCEPT ![t].i = @ + 1]
  /\ UNCHANGED <<archives, changes, counter, dirs, files, scan>>

\* Mutant: the first entry of a name wins.
ExtractEntry_KeepFirst(t) ==
  /\ Extracting(t) /\ ~ Skipped(t, Entry(t))
  /\ LET rel == Rel(t, Entry(t).path)
         out == OutPath(t, rel) IN
       /\ ~ Unsafe(rel)
       /\ \/ IsDirEntry(Entry(t)) /\ CanCreateDir(out) /\ CreateDirAll(out) /\ UNCHANGED files
          \/ /\ ~ IsDirEntry(Entry(t)) /\ CanCreateDir(Front(out)) /\ out \notin dirs
             /\ CreateDirAll(Front(out))
             /\ IF out \in DOMAIN files THEN UNCHANGED files ELSE Store(out, t, Entry(t).data)
  /\ launch' = [launch EXCEPT ![t].i = @ + 1]
  /\ UNCHANGED <<archives, changes, counter, scan>>

ExtractEntry(t) ==
  /\ Extracting(t) /\ ~ Skipped(t, Entry(t))
  /\ LET rel == Rel(t, Entry(t).path)
         out == OutPath(t, rel) IN
       /\ ~ Unsafe(rel)
       /\ \/ IsDirEntry(Entry(t)) /\ CanCreateDir(out) /\ CreateDirAll(out) /\ UNCHANGED files
          \/ /\ ~ IsDirEntry(Entry(t)) /\ CanCreateDir(Front(out)) /\ out \notin dirs
             /\ CreateDirAll(Front(out)) /\ Store(out, t, Entry(t).data)
  /\ launch' = [launch EXCEPT ![t].i = @ + 1]
  /\ UNCHANGED <<archives, changes, counter, scan>>

\* The unzip cannot go on: the archive is gone, an entry is unsafe, or what is
\* on disk is in its way.  What was written stays on disk.
ExtractFails(t) ==
  LET Blocked(e) ==
        LET rel == Rel(t, e.path)
            out == OutPath(t, rel)
        IN  \/ Unsafe(rel)
            \/ ~ CanCreateDir(IF IsDirEntry(e) THEN out ELSE Front(out))
            \/ ~ IsDirEntry(e) /\ out \in dirs
  IN  /\ IF At(t, "open") THEN archives[launch[t].ipa] = NoArchive
         ELSE Extracting(t) /\ ~ Skipped(t, Entry(t)) /\ Blocked(Entry(t))
      /\ Leave(t)

ExtractDone(t) ==
  /\ At(t, "extract") /\ launch[t].i > Len(launch[t].source)
  /\ launch' = [launch EXCEPT ![t].phase = "read"]
  /\ UNCHANGED <<archives, changes, counter, dirs, files, scan>>

(* bundle_dir.join(executable), and fs::read of it.  A relative name is walked
   from the bundle directory, and stays in the container or leaves it; an
   absolute one takes the place of the bundle directory. *)
ExeRest(t) == <<BundleName(launch[t].app)>> \o launch[t].exe     \* below the container
ExeInside(t) == ~ IsAbsolute(launch[t].exe) /\ NeverAbove(ExeRest(t))
ExePath(t) == HostRoot(launch[t].uuid) \o Kept(ExeRest(t))
\* The host walks through directories that are there, and through no file.
ExeReachable(t) ==
  \A n \in 1 .. Len(ExeRest(t)) - 1 :
    HostRoot(launch[t].uuid) \o Kept(SubSeq(ExeRest(t), 1, n)) \in dirs

\* What the read may give; outside the container that is up to the host.
ReadableCode(t) ==
  LET found == IF ~ ExeInside(t) THEN DOMAIN files
               ELSE IF ExeReachable(t) THEN {ExePath(t)} \cap DOMAIN files ELSE {}
  IN  IF Range(launch[t].exe) \cap NulNames # {} THEN {}
      ELSE {files[f].data : f \in found} \cup (IF ExeInside(t) THEN {} ELSE HostData)

ReadExecutable(t) ==
  /\ At(t, "read")
  /\ \E data \in ReadableCode(t) :
       launch' = [launch EXCEPT ![t].phase = "load", ![t].code = data]
  /\ UNCHANGED <<archives, changes, counter, dirs, files, scan>>

ReadExecutableFails(t) ==
  At(t, "read") /\ (ReadableCode(t) = {} \/ ~ ExeInside(t)) /\ Leave(t)

(* Machine::load (ProcessLoad) and start_environment. *)
Load(t) ==
  /\ At(t, "load")
  /\ launch' = [launch EXCEPT ![t].phase = "running"]
  /\ UNCHANGED <<archives, changes, counter, dirs, files, scan>>

LoadFails(t) == At(t, "load") /\ Leave(t)

(* The host may refuse any file operation of a launch, a full disk for one. *)
HostRefuses(t) ==
  launch[t].phase \in {"inspect", "prepare", "open", "extract", "read"} /\ Leave(t)

(* Machine::run: the guest stores a file through the sandbox (sys_open).  A path
   of CONSTANTS has UUID in the place of the container id. *)
GuestPath(t, path) == Translate(launch[t].uuid, launch[t].app, path)
Named(t, path) == [i \in DOMAIN path |-> IF path[i] = "UUID" THEN launch[t].uuid ELSE path[i]]

GuestSaves(t, path) ==
  LET to == GuestPath(t, Named(t, path)) IN
  /\ At(t, "running") /\ to.ok /\ ~ to.read_only
  /\ to.host \notin dirs /\ Front(to.host) \in dirs
  /\ Store(to.host, t, Saved)
  /\ UNCHANGED <<archives, changes, launch, counter, dirs, scan>>

(* The run ends with an exit code or with a fault; both are answers. *)
RunEnds(t) == At(t, "running") /\ Leave(t)

\* What the thread of a launch does by itself; HostRefuses is not something that
\* it can count on.
LaunchStep(t) ==
  \/ Inspect(t) \/ InspectFails(t) \/ GenerateUuid(t) \/ Prepare(t) \/ OpenArchive(t)
  \/ SkipEntry(t) \/ ExtractEntry(t) \/ ExtractFails(t) \/ ExtractDone(t)
  \/ ReadExecutable(t) \/ ReadExecutableFails(t) \/ Load(t) \/ LoadFails(t)

-----------------------------------------------------------------------------
(* scan_directory.  steady, a history: the archives that have not changed since
   the scan began, and that the host did not refuse to read. *)

StartScan ==
  /\ scan.phase = "idle"
  /\ LET present == {p \in IpaPaths : archives[p] # NoArchive} IN
       scan' = [phase |-> "scanning", todo |-> present, found |-> << >>, steady |-> present]
  /\ UNCHANGED <<archives, changes, launch, counter, dirs, files>>

Listed(p, b) == [ipa |-> p, name |-> b.app]

ScanEntry(p) ==
  /\ scan.phase = "scanning" /\ p \in scan.todo
  /\ \E b \in Inspections(archives[p]) :
       scan' = [scan EXCEPT !.todo = @ \ {p}, !.found = Append(@, Listed(p, b))]
  /\ UNCHANGED <<archives, changes, launch, counter, dirs, files>>

\* Mutant: the scan ends at the first archive that cannot be read.
ScanSkips_Ends(p) ==
  /\ scan.phase = "scanning" /\ p \in scan.todo /\ MayBeRefused(archives[p])
  /\ scan' = [scan EXCEPT !.todo = {}]
  /\ UNCHANGED <<archives, changes, launch, counter, dirs, files>>
\* inspect_ipa fails: on what the archive is, or as the host refuses to read it.
ScanSkips(p) ==
  /\ scan.phase = "scanning" /\ p \in scan.todo
  /\ scan' = [scan EXCEPT !.todo = @ \ {p},
                          !.steady = IF MayBeRefused(archives[p]) THEN @ ELSE @ \ {p}]
  /\ UNCHANGED <<archives, changes, launch, counter, dirs, files>>

\* read_dir itself fails: session::scan answers an empty list.
ScanFails ==
  /\ scan.phase = "scanning"
  /\ scan' = [scan EXCEPT !.phase = "failed", !.found = << >>]
  /\ UNCHANGED <<archives, changes, launch, counter, dirs, files>>

\* sort_by, which is stable, by the lower-case name.
Before(apps, i, j) ==
  \/ SortKey[apps[i].name] < SortKey[apps[j].name]
  \/ SortKey[apps[i].name] = SortKey[apps[j].name] /\ i < j
SortOrders(apps) ==
  {order \in Bijection(DOMAIN apps, DOMAIN apps) :
     \A i, j \in DOMAIN apps : i < j => Before(apps, order[i], order[j])}

ScanDone ==
  /\ scan.phase = "scanning" /\ scan.todo = {}
  /\ \E order \in SortOrders(scan.found) :
       scan' = [scan EXCEPT !.phase = "done",
                  !.found = [i \in DOMAIN @ |-> @[order[i]]]]
  /\ UNCHANGED <<archives, changes, launch, counter, dirs, files>>

(* The user replaces or removes an archive. *)
ChangeArchive ==
  /\ changes < MaxChanges
  /\ changes' = changes + 1
  /\ \E p \in IpaPaths, a \in Archives \cup {NoArchive} :
       /\ a # archives[p]
       /\ archives' = [archives EXCEPT ![p] = a]
       /\ scan' = [scan EXCEPT !.steady = @ \ {p}]
  /\ UNCHANGED <<launch, counter, dirs, files>>

Next ==
  \/ \E t \in Launches :
       \/ Tap(t) \/ LaunchStep(t) \/ HostRefuses(t) \/ RunEnds(t)
       \/ \E p \in SavePaths : GuestSaves(t, p)
  \/ StartScan \/ ScanFails \/ ScanDone
  \/ \E p \in IpaPaths : ScanEntry(p) \/ ScanSkips(p)
  \/ ChangeArchive

Spec == Init /\ [][Next]_vars /\ \A t \in Launches : WF_vars(LaunchStep(t))

-----------------------------------------------------------------------------
(* Properties *)

TypeOK ==
  /\ archives \in [IpaPaths -> Known \cup {NoArchive}]
  /\ changes \in 0 .. MaxChanges /\ counter \in 0 .. Cardinality(Launches)
  /\ \A t \in Launches :
       /\ DOMAIN launch[t] = DOMAIN Idle
       /\ launch[t].phase \in {"idle", "inspect", "uuid", "prepare", "open", "extract",
                              "read", "load", "running", "done"}
       /\ launch[t].ipa \in IpaPaths \cup {Empty}
       /\ launch[t].i \in 1 .. Len(launch[t].source) + 1
       /\ launch[t].uuid = NoUuid => launch[t].phase \in {"idle", "inspect", "uuid", "done"}
  /\ \A f \in DOMAIN files : files[f].by \in Launches /\ Parents(f) \subseteq dirs
  /\ dirs \cap DOMAIN files = {}
  /\ scan.phase \in {"idle", "scanning", "done", "failed"}
  /\ scan.todo \subseteq IpaPaths /\ scan.steady \subseteq IpaPaths
  /\ \A i \in DOMAIN scan.found : scan.found[i].ipa \in IpaPaths \ scan.todo

(* Sandbox::translate, which tests the prefix of a path first and resolves ".."
   afterwards, gives a path below the container or below a system tree the host
   path that a kernel with these mounts would give it, and with the mount's own
   access; and it refuses the paths outside the mounts, and those that leave
   their mount, even for a moment, or hold a NUL.  Nothing is said where the code
   and its comments differ: of a mount point itself, which the code refuses; of
   /Applications, which it accepts; and of the bundle, which it lets a guest
   write. *)
TranslateExact ==
  \A t \in Launches : At(t, "load") =>
    \A p \in {Named(t, g) : g \in GuestPaths} :
      LET got == GuestPath(t, p)
          abs == Absolute(launch[t].uuid, launch[t].app, p)
          in == MountsOf(launch[t].uuid, abs)
      IN  IF in = {} THEN IsPrefix(ApplicationsTree, abs) \/ ~ got.ok
          ELSE \E m \in in :
                 LET rest == RestAfter(m.at, abs) IN
                 rest # EmptyString =>
                   IF Resolvable(rest)
                   THEN /\ got.ok /\ got.host = m.root \o Kept(rest)
                        /\ ~ IsPrefix(Layout(t)[1], got.host) => got.read_only = m.read_only
                   ELSE ~ got.ok

(* Launches at the same time keep to themselves, whatever clock each reads:
   their containers differ, and every file below the data directory lies in the
   container of the launch that wrote it, so none is in the system image. *)
ContainersIsolated ==
  /\ TypeOK
  /\ \A t, u \in Launches : t # u /\ launch[t].uuid # NoUuid => launch[t].uuid # launch[u].uuid
  /\ \A f \in DOMAIN files : IsPrefix(HostRoot(launch[files[f].by].uuid), f)

\* The names of the executables have no blanks around them: translate trims a
\* path, join does not.
TrimmedNames == \A a \in Known : \A b \in Inspections(a) : Trim(b.exe) = b.exe

(* When the unzip is done, the bundle of the container holds every file of the
   archive's bundle, the last one of its name; and where the executable has a
   relative name that the sandbox accepts, as every name below the bundle is, the
   code that is loaded is the one that the guest itself finds under it.  Of an
   absolute name, or one that leaves the container, nothing is said: join follows
   it, translate does not. *)
BundleComplete ==
  \A t \in Launches : launch[t].phase \in {"load", "running"} =>
    LET source == launch[t].source
        file == {i \in DOMAIN source :
                   InBundle(t, source[i].path) /\ ~ IsDirEntry(source[i])}
        out == [i \in file |-> OutPath(t, Rel(t, source[i].path))]
        exe == GuestPath(t, launch[t].exe)
    IN  /\ \A i \in file :
             LET last == Max({j \in file : out[j] = out[i]})
             IN  out[i] \in DOMAIN files /\ files[out[i]].data \in {source[last].data, Saved}
        /\ launch[t].exe \in Seq(PlainNames) => exe.ok
        /\ exe.ok /\ ~ IsAbsolute(launch[t].exe) =>
             exe.host \in DOMAIN files /\ files[exe.host].data \in {launch[t].code, Saved}

(* Every tap comes to an end: the app runs, or the launch answers. *)
LaunchAnswers ==
  \A t \in Launches : At(t, "inspect") ~> launch[t].phase \in {"running", "done"}

(* A bad archive hides no other: a scan lists every archive that could be read,
   that nobody touched since it began and the host did not refuse, once, by name. *)
ScanListsSteady ==
  scan.phase = "done" =>
    /\ \A p \in scan.steady :
         ~ MayBeRefused(archives[p]) =>
           \E i \in DOMAIN scan.found :
             /\ scan.found[i] \in {Listed(p, b) : b \in Inspections(archives[p])}
             /\ \A j \in DOMAIN scan.found \ {i} : scan.found[j].ipa # p
    /\ \A i, j \in DOMAIN scan.found :
         i < j => SortKey[scan.found[i].name] <= SortKey[scan.found[j].name]
=============================================================================
