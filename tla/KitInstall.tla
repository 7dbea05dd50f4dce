----------------------------- MODULE KitInstall -----------------------------
(***************************************************************************)
(* What a Worker Kit contains, as three programs compute it: the builder   *)
(* and installer from a directory and from a tar archive                   *)
(* (deploy/worker-kit/verify-kit-content.py) and the readiness probe from  *)
(* the archive Docker streams out of a stopped container                   *)
(* (core/worker_runtime_readiness.py); and the life of one Kit: built      *)
(* (write_manifest), packed, installed by concurrent runs of               *)
(* deploy/worker-kit/install.sh, damaged on the host and probed by         *)
(* _inspect_kit_contents.                                                  *)
(*                                                                         *)
(* A tree maps paths (sequences of names) to entries: a directory, a file  *)
(* with a content, a symbolic link, or a further hard link of a file.  A   *)
(* link target that starts with "/" lies in /nix/store, which the Kit      *)
(* carries under its directory Store.                                      *)
(***************************************************************************)
EXTENDS Naturals, Sequences, FiniteSets, SequencesExt

CONSTANTS
    Store,       \* the name of the directory mounted at /nix/store
    MaxHops,     \* links the kernel follows before it gives up
    RootName,    \* the name of the Kit's directory where the probe mounts it
    Trees,       \* Kit directories a build may produce
    Repacks,     \* changed trees an archive of the same name may carry
    Payload,     \* path of the one harness CLI the manifest may name
    Installers,  \* concurrent install.sh processes
    Nobody

(* What the constants are. *)
KitAssumption == Nobody \notin Installers

VARIABLES
    source,    \* the directory the build produced
    manifest,  \* NoManifest, or what write_manifest recorded
    archive,   \* the tree in the archive
    phase,     \* where each installer is
    staged,    \* what each installer extracted
    kit,       \* the published directory, or NoKit
    damaged    \* history: the published bytes were changed

vars == <<source, manifest, archive, phase, staged, kit, damaged>>

-----------------------------------------------------------------------------
(* What a Kit contains. *)

None == [k |-> "none"]
Dir == [k |-> "dir"]
File(c) == [k |-> "file", v |-> c]
Sym(t) == [k |-> "sym", v |-> t]
Hard(t) == [k |-> "hard", v |-> t]

Bad == {[kind |-> "error"]}

Members(tree) == {p \in DOMAIN tree : tree[p].k # "none"}
Links(tree) == {p \in DOMAIN tree : tree[p].k = "sym"}
IsLink(tree, p) == p \in DOMAIN tree /\ tree[p].k = "sym"

-----------------------------------------------------------------------------
(* Mutants of the definitions below. *)

StreamedTargetPlain(p, t) == IF Head(t) = "/" THEN Tail(t) ELSE Front(p) \o t
-----------------------------------------------------------------------------
(* Link targets. *)

\* posixpath.normpath of a relative path.
Normalise(p) ==
    FoldLeft(LAMBDA acc, c :
               IF c = ".." /\ acc # <<>> /\ Last(acc) # ".." THEN Front(acc)
               ELSE Append(acc, c),
             <<>>, p)

\* Paths that leave the Kit or name its root.
Unsafe(p) == p = <<>> \/ Head(p) = ".."

\* _symlink_target_relative; also _content_symlink_target.
LinkTarget(p, t) ==
    IF Head(t) = "/" THEN <<Store>> \o Tail(t) ELSE Normalise(Front(p) \o t)

\* resolve_link_target of the probe: a target that starts with the name of the
\* streamed archive's root is taken from that root.
StreamedTarget(p, t) ==
    IF Head(t) = RootName THEN Normalise(Tail(t)) ELSE LinkTarget(p, t)

TargetOf(p, t, streamed) == IF streamed THEN StreamedTarget(p, t) ELSE LinkTarget(p, t)

\* _resolve_archive_relative_path and resolve_symlink_target: the names left,
\* the path so far and the links taken.
RECURSIVE Walk(_, _, _, _, _)
Walk(tree, streamed, pending, resolved, visited) ==
    IF pending = <<>>
    THEN IF resolved \in Members(tree) THEN resolved ELSE <<"absent">>
    ELSE LET at == Append(resolved, Head(pending))
         IN  IF ~ IsLink(tree, at)
             THEN Walk(tree, streamed, Tail(pending), at, visited)
             ELSE IF at \in visited THEN <<"cycle">>
             ELSE IF Unsafe(TargetOf(at, tree[at].v, streamed)) THEN <<"unsafe">>
             ELSE Walk(tree, streamed, TargetOf(at, tree[at].v, streamed) \o Tail(pending),
                       <<>>, visited \cup {at})

\* The check of one link, from its own target on.
LinkResolves(tree, streamed, p) ==
    LET t == TargetOf(p, tree[p].v, streamed)
    IN  /\ ~ Unsafe(t)
        /\ Walk(tree, streamed, t, <<>>, {})
              \notin {<<"absent">>, <<"cycle">>, <<"unsafe">>}

-----------------------------------------------------------------------------
(* Inventories: Bad, or one entry for every file and link. *)

\* resolve_hardlink: the content behind a chain of hard links.
RECURSIVE ContentOf(_, _, _)
ContentOf(tree, p, visiting) ==
    IF p \notin Members(tree) \/ p \in visiting THEN 0
    ELSE IF tree[p].k = "file" THEN tree[p].v
    ELSE IF tree[p].k = "hard"
         THEN ContentOf(tree, tree[p].v, visiting \cup {p})
    ELSE 0

\* _file_entry; a hard link is a file.
FileEntry(tree, p) ==
    [kind |-> "file", path |-> p, c |-> ContentOf(tree, p, {})]

Entries(tree) ==
    {FileEntry(tree, p) : p \in {q \in Members(tree) : tree[q].k \in {"file", "hard"}}}
       \cup {[kind |-> "symlink", path |-> p, target |-> tree[p].v] : p \in Links(tree)}

Inventory(tree, streamed) ==
    IF /\ \A p \in Links(tree) : LinkResolves(tree, streamed, p)
       /\ \A p \in Members(tree) : tree[p].k = "hard" => ContentOf(tree, p, {}) # 0
    THEN Entries(tree)
    ELSE Bad

\* directory_inventory: links are read with readlink.
DirectoryInventory(tree) == Inventory(tree, FALSE)

\* archive_inventory: only hard links go through _archive_link_target.
ArchiveInventory(tree) == Inventory(tree, FALSE)

\* _content_inventory_from_archive: symbolic links go through it too.
ProbeInventory(tree) == Inventory(tree, TRUE)

-----------------------------------------------------------------------------
(* Reference: what the file system does with a link. *)

RECURSIVE Follow(_, _, _, _)
Follow(tree, pending, at, hops) ==
    IF pending = <<>> THEN at \in Members(tree)
    ELSE IF Head(pending) = ".."
         THEN at # <<>> /\ Follow(tree, Tail(pending), Front(at), hops)
    ELSE LET p == Append(at, Head(pending))
         IN  /\ p \in Members(tree)
             /\ IF tree[p].k = "sym"
                THEN /\ hops > 0
                     /\ IF Head(tree[p].v) = "/"
                        THEN Follow(tree, <<Store>> \o Tail(tree[p].v) \o Tail(pending),
                                    <<>>, hops - 1)
                        ELSE Follow(tree, tree[p].v \o Tail(pending), at, hops - 1)
                ELSE Follow(tree, Tail(pending), p, hops)

\* A link leads to an existing entry of the Kit within the hops the kernel
\* allows (40 on Linux; a Kit of four links needs fewer than 16).
ReallyResolves(tree, p) == Follow(tree, p, <<>>, MaxHops)

-----------------------------------------------------------------------------
(* The life of a Kit. *)

NoManifest == [inventory |-> Bad, harness |-> "absent", c |-> 0]
NoKit == [by |-> Nobody]

-----------------------------------------------------------------------------
Under(p, d) == Len(p) > Len(d) /\ SubSeq(p, 1, Len(d)) = d

\* _validate_harness_content_paths: a present CLI is a regular file of the
\* recorded content, an absent one ships nothing in its directory.
HarnessMatches(m, t) ==
    IF m.harness = "present"
    THEN /\ Payload \in Members(t) /\ t[Payload].k \in {"file", "hard"}
         /\ ContentOf(t, Payload, {}) = m.c
    ELSE \A p \in Members(t) : t[p].k # "dir" => ~ Under(p, Front(Payload))

\* verify_directory and verify_archive.
VerifiesWith(m, t, inventory) ==
    /\ inventory # Bad /\ inventory = m.inventory
    /\ HarnessMatches(m, t)

Init ==
    /\ source \in Trees
    /\ manifest = NoManifest /\ archive = source
    /\ phase = [i \in Installers |-> "start"]
    /\ staged = [i \in Installers |-> source]
    /\ kit = NoKit /\ damaged = FALSE

\* write_manifest: the build fails on an inventory that cannot be made.
WriteManifest(h) ==
    LET m == [inventory |-> DirectoryInventory(source), harness |-> h,
              c |-> ContentOf(source, Payload, {})]
    IN  /\ manifest = NoManifest
        /\ m.inventory # Bad /\ HarnessMatches(m, source)
        /\ manifest' = m
        /\ UNCHANGED <<source, archive, phase, staged, kit, damaged>>

\* The archive is packed again with other bytes and the same manifest.
Repack(t) ==
    /\ manifest # NoManifest /\ archive = source
    /\ archive' = t
    /\ UNCHANGED <<source, manifest, phase, staged, kit, damaged>>

\* install.sh up to the extraction: the identity is not installed yet and the
\* archive's content matches its manifest.
VerifyArchive(i) ==
    /\ phase[i] = "start" /\ manifest # NoManifest
    /\ phase' = [phase EXCEPT ![i] =
                   IF kit = NoKit /\ VerifiesWith(manifest, archive, ArchiveInventory(archive))
                   THEN "verified" ELSE "failed"]
    /\ UNCHANGED <<source, manifest, archive, staged, kit, damaged>>

\* tar -x, and the checks of the extracted directory up to the receipt.
Stage(i) ==
    /\ phase[i] = "verified"
    /\ staged' = [staged EXCEPT ![i] = archive]
    /\ phase' = [phase EXCEPT ![i] =
                   IF VerifiesWith(manifest, archive, DirectoryInventory(archive))
                   THEN "staged" ELSE "failed"]
    /\ UNCHANGED <<source, manifest, archive, kit, damaged>>

\* Under the flock, the destination does not exist.
MayPublish == kit = NoKit

\* The rename of the staged directory, receipt included.
Publish(i) ==
    /\ phase[i] = "staged"
    /\ IF MayPublish
       THEN /\ kit' = [by |-> i, tree |-> staged[i], inv |-> manifest.inventory,
                       m |-> manifest, receipt |-> TRUE, exec |-> TRUE]
            /\ phase' = [phase EXCEPT ![i] = "done"]
       ELSE /\ phase' = [phase EXCEPT ![i] = "failed"]
            /\ UNCHANGED kit
    /\ UNCHANGED <<source, manifest, archive, staged, damaged>>

\* The process dies; what it staged stays behind or is removed, unseen.
InstallerDies(i) ==
    /\ phase[i] \in {"start", "verified", "staged"}
    /\ phase' = [phase EXCEPT ![i] = "failed"]
    /\ UNCHANGED <<source, manifest, archive, staged, kit, damaged>>

\* Someone changes a file, removes an entry, the receipt or the mode bits.
Damage ==
    /\ kit # NoKit /\ ~ damaged
    /\ damaged' = TRUE
    /\ \/ \E p \in Members(kit.tree) :
             /\ kit.tree[p].k = "file"
             /\ kit' = [kit EXCEPT !.tree[p] = File(@.v + 10)]
       \/ \E p \in Members(kit.tree) :
             /\ \A q \in Members(kit.tree) : ~ Under(q, p)
             /\ kit.tree[p].k # "dir"
             /\ kit' = [kit EXCEPT !.tree[p] = None]
       \/ kit' = [kit EXCEPT !.receipt = FALSE]
       \/ kit.m.harness = "present" /\ kit' = [kit EXCEPT !.exec = FALSE]
    /\ UNCHANGED <<source, manifest, archive, phase, staged>>

\* The receipt and the recorded inventory match the mounted bytes.
ContentMatches(k) == k.receipt /\ k.inv = ProbeInventory(k.tree)

\* The bytes and the mode of a CLI the manifest marks present.
CliMatches(k) ==
    k.m.harness = "present" => k.exec /\ HarnessMatches(k.m, k.tree)

\* _inspect_kit_contents with require_content_inventory.
ProbeReady(k) == ContentMatches(k) /\ CliMatches(k)

Next ==
    \/ \E h \in {"present", "absent"} : WriteManifest(h)
    \/ \E t \in Repacks : Repack(t)
    \/ \E i \in Installers : VerifyArchive(i) \/ Stage(i) \/ Publish(i) \/ InstallerDies(i)
    \/ Damage

Spec == Init /\ [][Next]_vars

-----------------------------------------------------------------------------
(* Properties. *)

\* The builder's walk of the directory and the probe's walk of the streamed
\* archive read the same inventory out of the same Kit, or both refuse it
\* (directory_inventory, _content_inventory_from_archive).
InventoriesAgree ==
    DirectoryInventory(source) = ProbeInventory(source)

\* Every link of a Kit with an accepted inventory leads to an entry of the Kit
\* when the kernel follows it (_resolve_archive_relative_path).
AcceptedLinksResolve ==
    DirectoryInventory(source) # Bad =>
       \A p \in Links(source) : ReallyResolves(source, p)

\* The published directory holds the bytes of its manifest and is never
\* replaced, whatever the archive becomes meanwhile and whoever else installs
\* (install.sh).
PublishedOnce ==
    kit # NoKit => kit'.by = kit.by

\* An installed and untouched Kit passes the full probe (install.sh against
\* _inspect_kit_contents).
InstalledIsReady ==
    kit # NoKit /\ ~ damaged => ProbeReady(kit)

\* A changed or removed byte, a removed receipt and a CLI that cannot be
\* executed are noticed by the full probe (_inspect_kit_contents).
DamageIsNoticed ==
    kit # NoKit /\ damaged => ~ ProbeReady(kit)

-----------------------------------------------------------------------------
(* What the repository says and the code does not keep (README, Deviations). *)

\* A Kit whose links the kernel can follow is not refused as a cycle
\* (_resolve_archive_relative_path).
CyclesAreCycles ==
    \A p \in Links(source) :
       LET t == LinkTarget(p, source[p].v)
       IN  ~ Unsafe(t) /\ Walk(source, FALSE, t, <<>>, {}) = <<"cycle">>
              => ~ ReallyResolves(source, p)
=============================================================================
