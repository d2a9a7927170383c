----------------------------- MODULE ConfAttach -----------------------------
(***************************************************************************)
(* The configuration items local clients are attached to, the connection   *)
(* classes they are counted in, and a REHASH under both: attach_iline,     *)
(* attach_conf, detach_conf, clear_out_old_conf, the class{} block of the  *)
(* grammar, check_class and the CIDR counts of s_conf.c.  An item that is  *)
(* in use outlives the file it came from, and so does its class.           *)
(***************************************************************************)
EXTENDS Integers, FiniteSets

CONSTANTS
    Client,     \* local connections
    Name,       \* hosts of auth{} blocks, names of operator{} blocks
    ClassName,  \* class{} blocks; "default" is class_default
    Host,       \* the auth{} block a client matches, if there is one
    Ip,         \* the address of a client
    Block,      \* the CIDR block of an address, by number of bits
    Files,      \* the configuration files a REHASH may find
    DefaultClass,   \* what init_class sets
    MaxRehash,  \* bound: times the configuration is read again
    NULL

\* A file: its class{} blocks, and its auth{} and operator{} blocks as a set of
\* items.
Limits == [total : Nat, perIp : Nat, perCidr : Nat, bits : {0} \cup DOMAIN Block]
FileItem == [type : {"client", "oper"}, name : Name, class : ClassName, exempt : BOOLEAN]

ASSUME ConfAssumption ==
    /\ IsFiniteSet(Client)
    /\ "default" \in ClassName
    /\ Host \in [Client -> Name]
    /\ DefaultClass \in Limits
    /\ \A b \in DOMAIN Block : \A u \in Client : Ip[u] \in DOMAIN Block[b]
    /\ MaxRehash \in Nat
    /\ \A file \in Files :
         /\ DOMAIN file.class \subseteq ClassName
         /\ \A k \in DOMAIN file.class : file.class[k] \in Limits
         /\ file.items \subseteq FileItem

VARIABLES
    class_items,    \* class name -> what class{} says, and who uses it
    conf_items,     \* live AccessItems, by the rehash they came with
    confs,          \* localClient->confs: the items a client is attached to
    place,          \* of a client: "out", "captured", or in local_client_list
    iphash,         \* clients with FLAGS_IPHASH
    ip_count,       \* ip_entry.count
    rehashes,       \* REHASHes so far
    skewed          \* history: classes whose CIDR counts a REHASH left wrong

confVars ==
    <<class_items, conf_items, confs, place, iphash, ip_count, rehashes, skewed>>

\* AccessItems live at an address of their own: the rehash and what they say.
Item == [made : 1..MaxRehash, item : FileItem]

\* class_ptr of an item, and the only auth{} item of a client.
ClassOf(i) == conf_items[i].class
Iline(u) == {i \in confs[u] : i.item.type = "client"}

Users(k) == UNION {{u} \X {i \in confs[u] : ClassOf(i) = k} : u \in Client}
Holders(i) == {u \in Client : i \in confs[u]}

\* Clients of class k that count on its CIDR list, and those of one block.
AttachedTo(k) == {u \in Client : \E i \in Iline(u) : ClassOf(i) = k}
BlockOf(u, bits) == Block[bits][Ip[u]]
Blocks == UNION {{Block[b][a] : a \in DOMAIN Block[b]} : b \in DOMAIN Block}

-----------------------------------------------------------------------------
(* CIDR counts: a block that is not on the list counts 0 *)

Counted(limits) == limits.perCidr > 0 /\ limits.bits > 0

NoBlocks == [b \in Blocks |-> 0]

\* cidr_limit_reached and remove_from_cidr_check.
CidrLimitReached(class, u, over_rule) ==
    /\ Counted(class.limits) /\ ~over_rule
    /\ class.cidr[BlockOf(u, class.limits.bits)] >= class.limits.perCidr

CidrAdd(class, u) ==
    IF Counted(class.limits)
    THEN [class.cidr EXCEPT ![BlockOf(u, class.limits.bits)] = @ + 1]
    ELSE class.cidr

\* Mutant: nobody is taken off the list.
CidrRemoveKeeps(class, u) == class.cidr

\* A block that is not on the list stays off it.
CidrRemove(class, u) ==
    IF Counted(class.limits)
    THEN [class.cidr EXCEPT ![BlockOf(u, class.limits.bits)] = IF @ > 0 THEN @ - 1 ELSE 0]
    ELSE class.cidr

\* rebuild_cidr_class: the list of the old class, or one counted afresh over
\* local_client_list when the bits changed, or nothing.
RebuildCidr(k, old, new) ==
    IF ~Counted(old.limits) \/ ~Counted(new) THEN NoBlocks
    ELSE IF old.limits.bits = new.bits THEN old.cidr
    ELSE [b \in Blocks |->
            Cardinality({u \in AttachedTo(k) : place[u] = "local" /\ BlockOf(u, new.bits) = b})]

-----------------------------------------------------------------------------
(* Attaching and detaching *)

\* find_address_conf: the auth{} item of the configuration in force.
FindAddressConf(u) ==
    {i \in DOMAIN conf_items :
       ~conf_items[i].illegal /\ i.item.type = "client" /\ i.item.name = Host[u]}

\* attach_iline's limits, on the counts before the client is in the class and
\* with its address counted already.
LimitReached(u, class) ==
    \/ class.limits.total # 0 /\ class.users >= class.limits.total
    \/ class.limits.perIp # 0 /\ ip_count[Ip[u]] + 1 > class.limits.perIp

\* attach_conf.
Attach(u, i) ==
    LET k == ClassOf(i) IN
    /\ confs' = [confs EXCEPT ![u] = @ \cup {i}]
    /\ conf_items' = [conf_items EXCEPT ![i].clients = @ + 1]
    /\ class_items' =
         [class_items EXCEPT
            ![k].users = @ + 1,
            ![k].cidr = IF i.item.type = "client" THEN CidrAdd(class_items[k], u) ELSE @]

\* Mutant: the last user takes a class along that the file names.
DetachFrees(u, S) ==
    LET Leaving(k) == Cardinality({i \in S : ClassOf(i) = k})
        freedItems == {i \in S : conf_items[i].clients = 1 /\ conf_items[i].illegal}
        freedClasses == {k \in DOMAIN class_items :
                           Leaving(k) > 0 /\ class_items[k].users = Leaving(k)}
    IN
    /\ confs' = [confs EXCEPT ![u] = @ \ S]
    /\ conf_items' =
         [i \in DOMAIN conf_items \ freedItems |->
            IF i \in S THEN [conf_items[i] EXCEPT !.clients = @ - 1] ELSE conf_items[i]]
    /\ class_items' =
         [k \in DOMAIN class_items \ freedClasses |->
            [class_items[k] EXCEPT !.users = @ - Leaving(k)]]
    /\ skewed' = skewed \ freedClasses

\* detach_conf of the items S of u: the last client of an illegal item frees
\* it, the last user of a class no file names frees that.
Detach(u, S) ==
    LET Leaving(k) == Cardinality({i \in S : ClassOf(i) = k})
        freedItems == {i \in S : conf_items[i].clients = 1 /\ conf_items[i].illegal}
        freedClasses == {k \in DOMAIN class_items :
                           /\ Leaving(k) > 0 /\ class_items[k].users = Leaving(k)
                           /\ ~class_items[k].active}
    IN
    /\ confs' = [confs EXCEPT ![u] = @ \ S]
    /\ conf_items' =
         [i \in DOMAIN conf_items \ freedItems |->
            IF i \in S THEN [conf_items[i] EXCEPT !.clients = @ - 1] ELSE conf_items[i]]
    /\ class_items' =
         [k \in DOMAIN class_items \ freedClasses |->
            [class_items[k] EXCEPT
               !.users = @ - Leaving(k),
               !.cidr = IF \E i \in S \cap Iline(u) : ClassOf(i) = k
                        THEN CidrRemove(class_items[k], u) ELSE @]]
    /\ skewed' = skewed \ freedClasses

\* register_local_user and attach_iline.  A client that finds no auth{} block
\* is captured for REJECT_HOLD_TIME; one over a limit is exited, and leaves
\* nothing behind; one that check_xline captures stays attached.
Register(u) ==
    /\ place[u] = "out"
    /\ \/ /\ FindAddressConf(u) = {}
          /\ place' = [place EXCEPT ![u] = "captured"]
          /\ UNCHANGED <<class_items, conf_items, confs, iphash, ip_count>>
       \/ \E i \in FindAddressConf(u) :
            LET class == class_items[ClassOf(i)] IN
            /\ i.item.exempt \/ ~LimitReached(u, class)
            /\ ~CidrLimitReached(class, u, i.item.exempt)
            /\ Attach(u, i)
            /\ iphash' = iphash \cup {u}
            /\ ip_count' = [ip_count EXCEPT ![Ip[u]] = @ + 1]
            /\ \E to \in {"local", "captured"} : place' = [place EXCEPT ![u] = to]
    /\ UNCHANGED <<rehashes, skewed>>

\* m_oper, and the -o of user_mode and of the services.
Oper(u) ==
    /\ place[u] = "local"
    /\ \A i \in confs[u] : i.item.type = "client"
    /\ \E i \in DOMAIN conf_items :
         /\ ~conf_items[i].illegal /\ i.item.type = "oper"
         /\ Attach(u, i)
    /\ UNCHANGED <<place, iphash, ip_count, rehashes, skewed>>

Deoper(u) ==
    /\ Iline(u) # confs[u]
    /\ Detach(u, confs[u] \ Iline(u))
    /\ UNCHANGED <<place, iphash, ip_count, rehashes>>

\* exit_client and close_connection: remove_one_ip, and detach_conf of all.
Exit(u) ==
    /\ place[u] # "out"
    /\ Detach(u, confs[u])
    /\ place' = [place EXCEPT ![u] = "out"]
    /\ iphash' = iphash \ {u}
    /\ ip_count' = [ip_count EXCEPT ![Ip[u]] = IF u \in iphash THEN @ - 1 ELSE @]
    /\ UNCHANGED rehashes

-----------------------------------------------------------------------------
(* REHASH *)

\* A class{} block of the file: a class that is there keeps its users.
Reread(k, limits) ==
    IF k \in DOMAIN class_items
    THEN [limits |-> limits, active |-> TRUE, users |-> class_items[k].users,
          cidr |-> RebuildCidr(k, class_items[k], limits)]
    ELSE [limits |-> limits, active |-> TRUE, users |-> 0, cidr |-> NoBlocks]

\* clear_out_old_conf marks every class but the default; check_class, after the
\* file is read, deletes those still marked that nobody uses.
ClassesAfter(file) ==
    LET kept == {k \in DOMAIN class_items : k = "default" \/ class_items[k].users > 0} IN
    [k \in DOMAIN file.class \cup kept |->
       IF k \in DOMAIN file.class THEN Reread(k, file.class[k])
       ELSE [class_items[k] EXCEPT !.active = k = "default"]]

\* Items in use become illegal, the others are deleted; the file's are new, in
\* their class or, when no class{} block has its name, in the default one.
ItemsAfter(file) ==
    LET used == {i \in DOMAIN conf_items : conf_items[i].clients > 0}
        made == {[made |-> rehashes + 1, item |-> f] : f \in file.items}
    IN [i \in used \cup made |->
          IF i \in used THEN [conf_items[i] EXCEPT !.illegal = TRUE]
          ELSE [clients |-> 0, illegal |-> FALSE,
                class |-> IF i.item.class \in DOMAIN file.class THEN i.item.class
                                                                ELSE "default"]]

\* A rebuilt list misses clients when there was none to rebuild, or when a
\* captured client is not in local_client_list.
Misses(k, limits) ==
    /\ k \in DOMAIN class_items /\ Counted(limits)
    /\ LET old == class_items[k].limits IN
       \/ ~Counted(old) /\ AttachedTo(k) # {}
       \/ /\ Counted(old) /\ old.bits # limits.bits
          /\ \E u \in AttachedTo(k) : place[u] # "local"

Rehash ==
    /\ rehashes < MaxRehash
    /\ \E file \in Files :
         /\ class_items' = ClassesAfter(file)
         /\ conf_items' = ItemsAfter(file)
         /\ skewed' = (skewed \ {k \in skewed : k \notin DOMAIN ClassesAfter(file)})
                      \cup {k \in DOMAIN file.class : Misses(k, file.class[k])}
    /\ rehashes' = rehashes + 1
    /\ UNCHANGED <<confs, place, iphash, ip_count>>

-----------------------------------------------------------------------------

ConfInit ==
    /\ class_items = [k \in {"default"} |->
                        [limits |-> DefaultClass, active |-> TRUE, users |-> 0,
                         cidr |-> NoBlocks]]
    /\ conf_items = [i \in {} |-> NULL]
    /\ confs = [u \in Client |-> {}]
    /\ place = [u \in Client |-> "out"]
    /\ iphash = {}
    /\ ip_count = [a \in {Ip[u] : u \in Client} |-> 0]
    /\ rehashes = 0
    /\ skewed = {}

ConfNext ==
    \/ \E u \in Client : Register(u) \/ Oper(u) \/ Deoper(u) \/ Exit(u)
    \/ Rehash

ConfSpec == ConfInit /\ [][ConfNext]_confVars

-----------------------------------------------------------------------------
(* Properties *)

ClassItem ==
    [limits : Limits, active : BOOLEAN, users : Nat, cidr : [Blocks -> Nat]]
AccessItem == [class : ClassName, clients : Nat, illegal : BOOLEAN]

ConfTypeOK ==
    /\ DOMAIN class_items \subseteq ClassName
    /\ \A k \in DOMAIN class_items : class_items[k] \in ClassItem
    /\ DOMAIN conf_items \subseteq Item
    /\ \A i \in DOMAIN conf_items : conf_items[i] \in AccessItem
    /\ confs \in [Client -> SUBSET Item]
    /\ place \in [Client -> {"out", "captured", "local"}]
    /\ iphash \subseteq Client

\* Nothing is freed under its users, however often the file changes: the items
\* a client holds live, and the class of every live item (detach_conf,
\* clear_out_old_conf, check_class).
NothingDangles ==
    /\ \A u \in Client : confs[u] \subseteq DOMAIN conf_items
    /\ \A i \in DOMAIN conf_items : ClassOf(i) \in DOMAIN class_items

\* And nothing is kept for nobody: an illegal item has a client, a class no
\* file names has a user (delete_conf_item in detach_conf, check_class).
NothingLeaks ==
    /\ \A i \in DOMAIN conf_items : conf_items[i].illegal => Holders(i) # {}
    /\ \A k \in DOMAIN class_items : ~class_items[k].active => Users(k) # {}

\* The counts the limits are held to are those of the clients attached, with
\* their class and their address (curr_user_count, clients, ip_entry.count).
CountsExact ==
    /\ \A i \in DOMAIN conf_items : conf_items[i].clients = Cardinality(Holders(i))
    /\ \A k \in DOMAIN class_items : class_items[k].users = Cardinality(Users(k))
    /\ \A a \in DOMAIN ip_count :
         ip_count[a] = Cardinality({u \in iphash : Ip[u] = a})

ConfInv == NothingDangles /\ NothingLeaks /\ CountsExact

\* A CIDR block counts the clients it has, after any REHASH but one that finds
\* clients of a class it has no list of (cidr_limit_reached,
\* remove_from_cidr_check, rebuild_cidr_class).
CidrExact ==
    \A k \in DOMAIN class_items \ skewed :
      LET class == class_items[k] IN
      Counted(class.limits) =>
        \A b \in Blocks :
          class.cidr[b] = Cardinality({u \in AttachedTo(k) : BlockOf(u, class.limits.bits) = b})
=============================================================================
