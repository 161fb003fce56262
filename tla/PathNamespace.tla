---------------------------- MODULE PathNamespace ----------------------------
(***************************************************************************)
(* Namespace of typed-fuse-core/src/path_fs.rs: the names PathNodeFs knows  *)
(* for its nodes, as functions of the value its mutex guards.               *)
(*                                                                         *)
(* by_name is a function from dentries to inode numbers; aliases is the     *)
(* relation of inode numbers and dentries that the code keeps as a map of   *)
(* sets without empty ones. A PathNode's key is the number of its record,   *)
(* since both count insertions; keys gives the inode number of each.        *)
(* Names are numbers, for the order of a BTreeSet<Dentry>.                  *)
(***************************************************************************)
EXTENDS NodeTable

Dentry(parent, name) == [parent |-> parent, name |-> name]

NewNamespace == [by_name |-> [d \in {} |-> 0], aliases |-> {}, keys |-> <<ROOT>>]

Knows(ns, d) == d \in DOMAIN ns.by_name

Aliases(ns, id) == {a[2] : a \in {p \in ns.aliases : p[1] = id}}

\* The alias path_for takes: the first of the set.
Canonical(ns, id) ==
    CHOOSE d \in Aliases(ns, id) : \A e \in Aliases(ns, id) :
        d.parent < e.parent \/ (d.parent = e.parent /\ d.name <= e.name)

\* Namespace::add_alias, which Namespace::insert does as well for a new node.
add_alias(ns, id, d) ==
    [by_name |-> [e \in DOMAIN ns.by_name \cup {d} |-> IF e = d THEN id ELSE ns.by_name[e]],
     aliases |-> ns.aliases \cup {<<id, d>>},
     keys    |-> ns.keys]

\* Mutated forms: the node loses only one of its two entries.
remove_KeepsAlias(ns, d) ==
    [ns EXCEPT !.by_name = [e \in DOMAIN @ \ {d} |-> @[e]]]

\* Namespace::remove of a dentry it knows.
remove(ns, d) ==
    [by_name |-> [e \in DOMAIN ns.by_name \ {d} |-> ns.by_name[e]],
     aliases |-> ns.aliases \ {<<ns.by_name[d], d>>},
     keys    |-> ns.keys]

\* Namespace::insert of a dentry it does not know: a key, a node and a name.
insert(ns, id, d) == add_alias([ns EXCEPT !.keys = Append(@, id)], id, d)

==============================================================================
