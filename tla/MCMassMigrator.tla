---------------------------- MODULE MCMassMigrator ----------------------------
(***************************************************************************)
(* MassMigrator on two roots (or one of them, given twice) with up to      *)
(* three files each: files whose paths differ in nothing but the extension *)
(* or the root; files that are no data set, that have an invalid name in   *)
(* them, that name no table.  Two columns of table t have foreign keys.    *)
(* One refers to table v, which some other file uses; the other is hidden  *)
(* when t is migrated, its column being rejected, and when w is, where the *)
(* column that it refers to is rejected.                                   *)
(***************************************************************************)
EXTENDS MassMigrator, TLC

CONSTANTS r1, r2, p, q, xml, old, t, u, v, w, c, d

MCRoot == {r1, r2}
MCPath == {p, q}
MCExtension == {xml, old}
MCTable == {t, u, v, w}
MCColumn == {c, d}
MCUndefined == {u}
MCFkTarget == c :> v @@ d :> w
MCHides == t :> {d} @@ u :> {} @@ v :> {} @@ w :> {d}
MCPlace ==
  t :> 1 @@ u :> 2 @@ v :> 3 @@ w :> 4 @@
  [f \in File |-> (IF f.root = r1 THEN 0 ELSE 4) + (IF f.path = p THEN 0 ELSE 2)
                  + (IF f.extension = xml THEN 1 ELSE 2)]

FileAt(root, path, extension) == [root |-> root, path |-> path, extension |-> extension]
Element(name, attributes) == [name |-> name, attributes |-> attributes]
Dataset(nodes, idents) == [dataset |-> TRUE, nodes |-> nodes, assume_identity |-> idents]

UsesT == Dataset({Element(t, {c}), Element(t, {d}), Element(t, {})}, {c})
UsesU == Dataset({Element(u, {})}, {})
UsesV == Dataset({Element(v, {})}, {})
UsesW == Dataset({Element(w, {})}, {})
UsesBoth == Dataset({Element(t, {}), Element(u, {c})}, {})
Unused == Dataset({}, {d})
BadTable == Dataset({Element(t, {c}), Element(Invalid, {})}, {})
BadIdentity == Dataset({Element(t, {c})}, {c, Invalid})
NoDataset == [dataset |-> FALSE, nodes |-> {}, assume_identity |-> {}]

\* Three files of the first root, two of which have one target; and one of the
\* second root.
MCTree ==
  {FileAt(r1, p, xml) :> i @@ FileAt(r1, p, old) :> j @@ FileAt(r1, q, xml) :> k
     @@ FileAt(r2, p, xml) :> l :
     i \in {UsesT, UsesBoth, NoDataset}, j \in {UsesV, Unused, BadTable},
     k \in {UsesT, UsesU, BadIdentity}, l \in {UsesU, UsesW, Unused}}

\* A data set at a path of each root.
SameMirrorTree == {FileAt(r1, p, xml) :> UsesT @@ FileAt(r2, p, xml) :> UsesU}

XmlMirror == {m \in Mirror : m.extension = xml}
GraftedMirror(root) == {m \in Mirror : m.root = root}

OptionsOf(roots, grafts, batches, includes, excludes) ==
  [src_roots : roots, graft_source_paths : grafts, batch_sources : batches,
   include_path_patts : includes, exclude_path_patts : excludes]

MCOptions ==
  OptionsOf({<< r1, r2 >>, << r2, r1 >>, << r1, r1 >>}, BOOLEAN, BOOLEAN,
            {{}, {XmlMirror, GraftedMirror(r2)}}, {{}, {GraftedMirror(r1)}})
PlainOptions == OptionsOf({<< r1, r2 >>}, {FALSE}, {FALSE}, {{}}, {{}})
===============================================================================
