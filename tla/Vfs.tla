-------------------------------- MODULE Vfs ---------------------------------
(***************************************************************************)
(* kernel/src/vfs/vfs.c: the root of the file system tree and the list of  *)
(* file systems.  vfs_mount allocates the root, lets the file system mount *)
(* on it, and takes the root back when that fails.                         *)
(***************************************************************************)
EXTENDS List

CONSTANTS
    FileSystems,
    FsNames,    \* what file systems may be called
    Names       \* the name of each file system

VARIABLES
    s_rootNode,
    s_fileSystemList,
    mounting,   \* vfs_mount in the file system's m_mount: its target, and p_target
    fsAdded     \* history: the file systems registered, the newest first

vfsVars == <<s_rootNode, s_fileSystemList, mounting, fsAdded>>

NotMounting == [l_target |-> Null, p_target |-> Null]

vfs_init ==
    /\ s_rootNode = Null /\ s_fileSystemList = Null
    /\ mounting = NotMounting /\ fsAdded = <<>>

\* The vnode of the root and its tree node point to each other.
Vnode(tree) == [kind |-> "vnode", next |-> Null, data |-> tree]
Tree(vnode) == [kind |-> "tree", next |-> Null, data |-> vnode]

\* vfs_mount without a target, up to the call of m_mount.  It is refused if there
\* is a root (-EBUSY) or if memory lacks for one of the two blocks (-ENOMEM); a
\* first block is then given back.
MountRoot ==
    /\ mounting = NotMounting /\ s_rootNode = Null
    /\ \E l_target \in malloc \ {Null} : \E l_treeNode \in malloc \ {Null, l_target} :
        /\ mem' = [mem EXCEPT ![l_target] = Vnode(l_treeNode), ![l_treeNode] = Tree(l_target)]
        /\ mounting' = [l_target |-> l_target, p_target |-> Null]
    /\ UNCHANGED <<s_rootNode, s_fileSystemList, fsAdded>>

\* vfs_mount on a vnode.
MountOn(p_target) ==
    /\ mounting = NotMounting /\ p_target # Null
    /\ mounting' = [l_target |-> p_target, p_target |-> p_target]
    /\ UNCHANGED <<mem, s_rootNode, s_fileSystemList, fsAdded>>

\* Mutant: whatever was to be mounted on is freed.
MountFailed_FreesTarget ==
    /\ mounting # NotMounting
    /\ mem' = [mem EXCEPT ![mounting.l_target] = Free, ![mem[mounting.l_target].data] = Free]
    /\ mounting' = NotMounting
    /\ UNCHANGED <<s_rootNode, s_fileSystemList, fsAdded>>

\* The file system could not mount: a root that was allocated for it is freed.
MountFailed ==
    /\ mounting # NotMounting
    /\ mem' = IF mounting.p_target # Null THEN mem
              ELSE [mem EXCEPT ![mounting.l_target] = Free, ![mem[mounting.l_target].data] = Free]
    /\ mounting' = NotMounting
    /\ UNCHANGED <<s_rootNode, s_fileSystemList, fsAdded>>

MountDone ==
    /\ mounting # NotMounting
    /\ s_rootNode' = IF mounting.p_target # Null THEN s_rootNode ELSE mounting.l_target
    /\ mounting' = NotMounting
    /\ UNCHANGED <<mem, s_fileSystemList, fsAdded>>

vfs_registerFileSystem(fs) ==
    /\ \E l_node \in malloc :
        /\ l_node # Null
        /\ mem' = [mem EXCEPT ![l_node] = Linked(s_fileSystemList, fs)]
        /\ s_fileSystemList' = l_node
    /\ fsAdded' = <<fs>> \o fsAdded
    /\ UNCHANGED <<s_rootNode, mounting>>

\* The first file system of the list with a name, or Null.
vfs_getFileSystemByName(name) ==
    LET list == Items(s_fileSystemList)
        i == SelectInSeq(list, LAMBDA fs : Names[fs] = name)
    IN  IF i = 0 THEN Null ELSE list[i]

vfsNext ==
    \/ MountRoot \/ MountOn(s_rootNode) \/ MountFailed \/ MountDone
    \/ \E fs \in FileSystems : vfs_registerFileSystem(fs)

-----------------------------------------------------------------------------
\* A name leads to the file system that was registered last under it, and to
\* none if none was.
FindsNewest ==
    \A name \in FsNames :
        LET i == SelectInSeq(fsAdded, LAMBDA fs : Names[fs] = name)
        IN  vfs_getFileSystemByName(name) = IF i = 0 THEN Null ELSE fsAdded[i]

\* The root is never taken away: its two blocks are there and point to each
\* other, whatever has been mounted on it since, or has failed to be.
RootWhole ==
    s_rootNode # Null => /\ mem[s_rootNode].kind = "vnode"
                         /\ mem[mem[s_rootNode].data] = Tree(s_rootNode)

\* The blocks of the root, those of a root that is being mounted, and the nodes
\* of the list.
InVfs ==
    LET vnodes == {s_rootNode, mounting.l_target} \ {Null}
    IN  vnodes \cup {mem[v].data : v \in vnodes} \cup Range(Chain(s_fileSystemList))
=============================================================================
