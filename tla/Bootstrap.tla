----------------------------- MODULE Bootstrap -----------------------------
(***************************************************************************)
(* hyperdb-bootstrap: install() resolves a pinned release, downloads its   *)
(* wheel with curl, checks the digest, unpacks the hyperd tree into        *)
(* <root>/<version>/ and mirrors that directory to <root>/current/;        *)
(* verify_release() compares the pins with what PyPI publishes.            *)
(*                                                                         *)
(* One installer runs at a time.  Every step can fail, and the process can *)
(* be killed before every step: the disk stays as it is and the next       *)
(* install starts from there.                                              *)
(***************************************************************************)
EXTENDS Integers, Sequences, FiniteSets, SequencesExt

CONSTANTS
    Releases,   \* the PinnedReleases a caller may name: version, wheel_tag, sha256
    Plain,      \* the versions that are one plain path component
    Wheels,     \* the contents of each wheel file, by the digest of its bytes
    Published   \* the digest of the wheel PyPI publishes for a version

VARIABLES
    root,    \* the directories <root>/<version>/: what each file holds
    current, \* <root>/current/: its files and its VERSION
    inst,    \* the install() that runs, or the last one
    verdict, \* the verify_release() of the release that is installed next
    marks    \* history: versions last unpacked in part, or without a pinned digest

bootVars == <<root, current, inst, verdict, marks>>

Platforms == {"host", "other"}
Host == "host"
Unpinned == <<>>
Lower(d) == IF d = Unpinned THEN "" ELSE d[1]  \* a digest and the case it is written in
ExeName == <<"hyperd">>
NoFiles == <<>>                     \* an empty directory: a function with no file
NoVersion == "none"
PlainVersions == {r.version : r \in Releases} \cap Plain

Quiet == [pc |-> "idle"]
NoVerdict == [release |-> Quiet]

BootInit ==
    /\ root = [v \in PlainVersions |-> NoFiles]
    /\ current = [files |-> NoFiles, version |-> NoVersion]
    /\ inst = Quiet
    /\ verdict = NoVerdict
    /\ marks = [torn |-> {}, loose |-> {}, currentLoose |-> FALSE]

-----------------------------------------------------------------------------
(* Releases, file names and archives                                       *)

\* A blank entry of the pin file counts as absent
Lookup(table) == IF table[1] = "" THEN Unpinned ELSE table
Sha256For(r, p) == Lookup(r.sha256[p])
HasWheelTag(r, p) == r.wheel_tag[p] # ""
WheelFilename(r, p) == <<r.version, r.wheel_tag[p]>>

\* The tree under <package>/bin/hyper/ (or lib/, or without the package): no
\* element for an entry outside of it
StripLibHyperPrefix(path) ==
    LET Top(c) == c \in {"lib", "bin"}
        skip == IF path # <<>> /\ Top(Head(path)) THEN 0 ELSE 1
    IN  IF Len(path) < skip + 2 \/ ~Top(path[skip + 1]) \/ path[skip + 2] # "hyper"
        THEN <<>>
        ELSE <<SubSeq(path, skip + 3, Len(path))>>

\* The file an entry of the archive is written to: no element when it is skipped
Target(entry) ==
    LET rel == StripLibHyperPrefix(entry.path)
    IN  IF rel = <<>> \/ rel = <<<<>>>> \/ entry.dir THEN <<>> ELSE rel

IsHyperd(rel) == Last(rel) \in {"hyperd", "hyperd.exe"}
PutFile(files, f, c) == [g \in DOMAIN files \cup {f} |-> IF g = f THEN c ELSE files[g]]
Targets(entries) == UNION {ToSet(Target(e)) : e \in ToSet(entries)}
Unpacked(w) == [f \in Targets(Wheels[w]) |-> <<w, "whole">>]

\* A wheel is a list of entries, and one with a hyperd has it at the top of the
\* tree: extract_hyperd accepts it in any directory, install looks for it there
ASSUME WheelsAssumption ==
    \A w \in DOMAIN Wheels :
        /\ Wheels[w] \in Seq(ToSet(Wheels[w]))
        /\ (\E f \in Targets(Wheels[w]) : IsHyperd(f)) => ExeName \in Targets(Wheels[w])

-----------------------------------------------------------------------------
(* install()                                                               *)

Running == inst.pc \notin {"idle", "ok", "err"}
InstAt(pc) == inst.pc = pc
Fail(why) == inst' = [pc |-> "err", why |-> why, release |-> inst.release,
                      wheel |-> IF why = "checksum" THEN inst.wheel ELSE ""]
InstGo(pc) == inst' = [inst EXCEPT !.pc = pc]

ValidateVersion(r) == r.version \in Plain

\* Only the executable's presence is looked at
CacheHit(r, force) == ExeName \in DOMAIN root[r.version] /\ ~force

Install(r, force) ==
    /\ ~Running
    /\ IF ValidateVersion(r)
       THEN inst' = [pc |-> IF CacheHit(r, force) THEN "refresh" ELSE "clear",
                     release |-> r, wheel |-> "", left |-> <<>>, found |-> FALSE]
       ELSE inst' = [pc |-> "err", release |-> r, why |-> "version", wheel |-> ""]
    /\ verdict' = IF verdict.release = r THEN verdict ELSE NoVerdict
    /\ UNCHANGED <<root, current, marks>>

ResolveFails ==
    /\ ~Running
    /\ inst' = [pc |-> "err", why |-> "platform or version file", release |-> Quiet, wheel |-> ""]
    /\ UNCHANGED <<root, current, verdict, marks>>

V == inst.release.version

\* The old tree goes before the URL is even built
ClearVersion ==
    /\ InstAt("clear")
    /\ root' = [root EXCEPT ![V] = NoFiles]
    /\ marks' = [marks EXCEPT !.torn = @ \ {V}, !.loose = @ \ {V}]
    /\ IF HasWheelTag(inst.release, Host) THEN InstGo("download") ELSE Fail("wheel tag")
    /\ UNCHANGED <<current, verdict>>

\* curl ends well with the published file or with other bytes
Download(w) ==
    /\ InstAt("download")
    /\ inst' = [inst EXCEPT !.pc = "verify", !.wheel = w]
    /\ UNCHANGED <<root, current, verdict, marks>>

\* Mutant: a digest that is pinned is compared with another platform's.
MatchesAnyPlatform(expected, actual) ==
    expected = Unpinned \/ actual \in {Lower(Sha256For(inst.release, p)) : p \in Platforms}

\* eq_ignore_ascii_case; without a pinned digest the check is skipped
Verified(expected, actual) == expected = Unpinned \/ Lower(expected) = actual

VerifyWheel ==
    /\ InstAt("verify")
    /\ IF Verified(Sha256For(inst.release, Host), inst.wheel)
       THEN inst' = [inst EXCEPT !.pc = "extract", !.left = Wheels[inst.wheel]]
       ELSE Fail("checksum")
    /\ UNCHANGED <<root, current, verdict, marks>>

\* File::create, then io::copy: the file is there, in part, before it is whole
ExtractEntry ==
    /\ InstAt("extract") /\ inst.left # <<>>
    /\ LET rel == Target(Head(inst.left))
       IN  IF rel = <<>>
           THEN /\ inst' = [inst EXCEPT !.left = Tail(@)]
                /\ UNCHANGED <<root, marks>>
           ELSE /\ inst' = [inst EXCEPT !.pc = "copying"]
                /\ root' = [root EXCEPT ![V] = PutFile(@, rel[1], <<inst.wheel, "part">>)]
                /\ marks' = [marks EXCEPT !.torn = @ \cup {V},
                        !.loose = IF Sha256For(inst.release, Host) = Unpinned THEN @ \cup {V} ELSE @]
    /\ UNCHANGED <<current, verdict>>

CopyEntry ==
    /\ InstAt("copying")
    /\ LET rel == Target(Head(inst.left))[1]
       IN  /\ root' = [root EXCEPT ![V][rel] = <<inst.wheel, "whole">>]
           /\ inst' = [inst EXCEPT !.pc = "extract", !.left = Tail(@),
                                   !.found = @ \/ IsHyperd(rel)]
    /\ UNCHANGED <<current, verdict, marks>>

ExtractEnds ==
    /\ InstAt("extract") /\ inst.left = <<>>
    /\ IF inst.found
       THEN InstGo("refresh") /\ marks' = [marks EXCEPT !.torn = @ \ {V}]
       ELSE Fail("no hyperd in archive") /\ UNCHANGED marks
    /\ UNCHANGED <<root, current, verdict>>

\* Mutant: current/ is filled again without being cleared.
RefreshKeepsFiles ==
    /\ InstAt("refresh")
    /\ InstGo("mirror")
    /\ UNCHANGED <<root, current, verdict, marks>>

RefreshCurrent ==
    /\ InstAt("refresh")
    /\ current' = [files |-> NoFiles, version |-> NoVersion]
    /\ marks' = [marks EXCEPT !.currentLoose = V \in marks.loose]
    /\ InstGo("mirror")
    /\ UNCHANGED <<root, verdict>>

Mirrored(f) == f \in DOMAIN current.files /\ current.files[f] = root[V][f]

\* copy_dir_contents: the files in the directory's own order
CopyToCurrent(f) ==
    /\ InstAt("mirror") /\ f \in DOMAIN root[V]
    /\ ~Mirrored(f)
    /\ current' = [current EXCEPT !.files = PutFile(@, f, root[V][f])]
    /\ UNCHANGED <<root, inst, verdict, marks>>

WriteVersion ==
    /\ InstAt("mirror")
    /\ \A f \in DOMAIN root[V] : Mirrored(f)
    /\ current' = [current EXCEPT !.version = V]
    /\ inst' = [pc |-> "ok", release |-> inst.release]
    /\ UNCHANGED <<root, verdict, marks>>

\* An I/O error, a failing curl, a damaged archive, or the process is killed:
\* nothing is undone but the temporary directory of the wheel
StepFails == Running /\ inst' = Quiet /\ UNCHANGED <<root, current, verdict, marks>>

-----------------------------------------------------------------------------
(* verify_release()                                                        *)

\* Mutant: the published digest is compared as it is written.
CompareCaseSensitive(r, p) ==
    IF ~HasWheelTag(r, p) THEN "Unknown"
    ELSE IF WheelFilename(r, p) \notin DOMAIN Published THEN "FileMissing"
    ELSE IF Sha256For(r, p) = Unpinned THEN "NotPinned"
    ELSE IF <<Published[WheelFilename(r, p)], "lower">> = Sha256For(r, p) THEN "Match" ELSE "Mismatch"

CompareDigests(r, p) ==
    IF ~HasWheelTag(r, p) THEN "Unknown"
    ELSE IF WheelFilename(r, p) \notin DOMAIN Published THEN "FileMissing"
    ELSE IF Sha256For(r, p) = Unpinned THEN "NotPinned"
    ELSE IF Published[WheelFilename(r, p)] = Lower(Sha256For(r, p)) THEN "Match" ELSE "Mismatch"

\* The index cannot be read, or it can; a HEAD is answered or not
DigestStatuses(r, readable) ==
    [p \in Platforms |-> IF readable THEN CompareDigests(r, p) ELSE "Unknown"]

OutcomeOk(o) == o.status \in 200..399 /\ o.digest \notin {"Mismatch", "FileMissing"}
NoStatus == 0

\* A verdict changes no file; one is kept until the next install of another
\* release, as asking again would only replace it
VerifyRelease(r, readable, heads) ==
    /\ ~Running /\ verdict = NoVerdict
    /\ LET out == [p \in Platforms |->
                     [status |-> IF HasWheelTag(r, p) THEN heads[p] ELSE NoStatus,
                      digest |-> DigestStatuses(r, readable)[p]]]
       IN  verdict' = [release |-> r, host |-> out[Host].digest,
                       ok |-> \A p \in Platforms : OutcomeOk(out[p])]
    /\ inst' = Quiet
    /\ UNCHANGED <<root, current, marks>>

BootNext ==
    \/ \E r \in Releases, force \in BOOLEAN : Install(r, force)
    \/ ResolveFails
    \/ ClearVersion
    \/ \E w \in DOMAIN Wheels : Download(w)
    \/ VerifyWheel
    \/ ExtractEntry
    \/ CopyEntry
    \/ ExtractEnds
    \/ RefreshCurrent
    \/ \E f \in UNION {DOMAIN Unpacked(w) : w \in DOMAIN Wheels} : CopyToCurrent(f)
    \/ WriteVersion
    \/ StepFails
    \/ \E r \in Releases, readable \in BOOLEAN, heads \in [Platforms -> {NoStatus, 200}] :
         VerifyRelease(r, readable, heads)

BootSpec == BootInit /\ [][BootNext]_bootVars

-----------------------------------------------------------------------------
(* Properties                                                              *)

\* An install() that returned Ok left in current/ exactly the tree of one
\* wheel, every file whole and the executable among them, under the VERSION
\* that was asked for, whatever earlier installs were killed or failed half way;
\* the one exception is a version whose last unpacking was cut short: its
\* directory passes for a cache hit (install.rs:107).
InstalledIsWhole ==
    InstAt("ok") =>
        /\ current.version = V
        /\ V \notin marks.torn =>
             \E w \in DOMAIN Wheels : current.files = Unpacked(w) /\ ExeName \in DOMAIN Unpacked(w)

Pinned(w, v) == \E r \in Releases : r.version = v /\ Lower(Sha256For(r, Host)) = w

\* No file of a wheel whose digest no release pins for the version is ever
\* found in that version's directory or in current/, in part or whole, unless
\* the version was unpacked from a release that pins no digest (download.rs:62).
UnverifiedIsNeverInstalled ==
    /\ \A v \in PlainVersions \ marks.loose : \A f \in DOMAIN root[v] : Pinned(root[v][f][1], v)
    /\ ~marks.currentLoose =>
         \A f \in DOMAIN current.files : \E v \in PlainVersions : Pinned(current.files[f][1], v)

\* verify_release() predicts install(): while the published wheel is what curl
\* fetches, an install fails its checksum only when the verdict of that
\* release was Mismatch (or could not be had) and passes it only when it was
\* not, and a release judged ok never turns out to lack a wheel tag.
VerdictPredictsInstall ==
    (verdict # NoVerdict /\ inst.pc \in {"err", "extract"} /\ inst.release = verdict.release) =>
        LET name == WheelFilename(inst.release, Host)
            genuine == name \in DOMAIN Published /\ inst.wheel = Published[name]
        IN  /\ (InstAt("extract") /\ genuine) => verdict.host # "Mismatch"
            /\ (InstAt("err") /\ genuine /\ inst.why = "checksum") => verdict.host \in {"Mismatch", "Unknown"}
            /\ (InstAt("err") /\ verdict.ok) => inst.why # "wheel tag"

\* What install leaves in current/ is one whole wheel whose digest was pinned, as
\* verify_release said it would be, whatever was killed before.
InstallIsTrustworthy == InstalledIsWhole /\ UnverifiedIsNeverInstalled /\ VerdictPredictsInstall
=============================================================================
