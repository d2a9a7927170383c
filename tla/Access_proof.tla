---------------------------- MODULE Access_proof ----------------------------
(***************************************************************************)
(* Who may connect, stay and speak, for any clients, masks, files and      *)
(* commands: the counts of s_conf.c are exact, what can_send remembers of  *)
(* bans is true, bans are what was asked for and cover nobody who is left  *)
(* on, and at rest all servers remember what services said.                *)
(***************************************************************************)
EXTENDS ConfAttach, BanCache, Lines, ServiceLists, Induction, FiniteSetTheorems,
        SequenceTheorems, TLAPS

-----------------------------------------------------------------------------
(* The configuration under its clients.                                    *)

\* An item of the configuration in force is in a class that a file names, or
\* in the default one, which is never marked (conf_add_class_to_conf,
\* clear_out_old_conf).
Current ==
    /\ \A i \in DOMAIN conf_items :
         ~conf_items[i].illegal /\ ClassOf(i) \in DOMAIN class_items
           => class_items[ClassOf(i)].active
    /\ "default" \in DOMAIN class_items /\ class_items["default"].active

\* What a REHASH makes is new.
MadeBefore == rehashes \in Nat /\ \A i \in DOMAIN conf_items : i.made <= rehashes

\* Nobody has two auth{} items.
OneIline == \A u \in Client : \A i, j \in Iline(u) : i = j

\* What is counted is finite.
AllFinite ==
    /\ \A u \in Client : IsFiniteSet(confs[u])
    /\ \A k \in ClassName : IsFiniteSet(Users(k))

\* The parts of CountsExact: uses, and addresses.
UsesCounted ==
    /\ \A i \in DOMAIN conf_items : conf_items[i].clients = Cardinality(Holders(i))
    /\ \A k \in DOMAIN class_items : class_items[k].users = Cardinality(Users(k))
AddressesCounted ==
    \A a \in DOMAIN ip_count : ip_count[a] = Cardinality({u \in iphash : Ip[u] = a})

\* What the items, classes and clients say of each other.
ItemsInd ==
    /\ DOMAIN class_items \subseteq ClassName
    /\ \A k \in DOMAIN class_items : class_items[k] \in ClassItem
    /\ DOMAIN conf_items \subseteq Item
    /\ \A i \in DOMAIN conf_items : conf_items[i] \in AccessItem
    /\ confs \in [Client -> SUBSET Item]
    /\ Current /\ MadeBefore /\ OneIline /\ AllFinite
    /\ NothingDangles /\ NothingLeaks /\ UsesCounted /\ CidrExact

\* Where the clients are: who is not there holds nothing.
PlacesInd ==
    /\ place \in [Client -> {"out", "captured", "local"}]
    /\ iphash \subseteq Client
    /\ \A u \in Client : place[u] = "out" => confs[u] = {} /\ u \notin iphash
    /\ AddressesCounted

ConfInd == ItemsInd /\ PlacesInd

\* It is what is to be shown, and more.
LEMMA IndIsEnough == ConfInd => ConfTypeOK /\ ConfInv /\ CidrExact
BY DEF ConfInd, ItemsInd, PlacesInd, ConfTypeOK, ConfInv, CountsExact, UsesCounted, AddressesCounted

-----------------------------------------------------------------------------
(* What the definitions say, one fact each *)

UsesAre ==
    \A k :
      /\ \A u \in Client : \A i : <<u, i>> \in Users(k) <=> i \in confs[u] /\ ClassOf(i) = k
      /\ \A p \in Users(k) : \E u \in Client : \E i \in confs[u] : p = <<u, i>> /\ ClassOf(i) = k

\* A use of class k is a client and an item of that class it holds, in this
\* state and in the next.
LEMMA UsersDef == UsesAre
<1> SUFFICES ASSUME NEW k
             PROVE  /\ \A u \in Client : \A i :
                         <<u, i>> \in Users(k) <=> i \in confs[u] /\ ClassOf(i) = k
                    /\ \A p \in Users(k) : \E u \in Client : \E i \in confs[u] :
                         p = <<u, i>> /\ ClassOf(i) = k
  BY DEF UsesAre
<1>1. \A p : p \in Users(k) <=> \E u \in Client : p \in {u} \X {i \in confs[u] : ClassOf(i) = k}
  BY DEF Users
<1>2. ASSUME NEW u \in Client, NEW i
      PROVE  <<u, i>> \in Users(k) <=> i \in confs[u] /\ ClassOf(i) = k
  <2>1. \A v \in Client : <<u, i>> \in {v} \X {j \in confs[v] : ClassOf(j) = k}
                            <=> u = v /\ i \in confs[v] /\ ClassOf(i) = k
    OBVIOUS
  <2>. QED  BY <1>1, <2>1
<1>3. ASSUME NEW p \in Users(k)
      PROVE  \E u \in Client : \E i \in confs[u] : p = <<u, i>> /\ ClassOf(i) = k
  <2>1. PICK u \in Client : p \in {u} \X {i \in confs[u] : ClassOf(i) = k}
    BY <1>1, <1>3
  <2>2. PICK i \in {j \in confs[u] : ClassOf(j) = k} : p = <<u, i>>
    BY <2>1
  <2>. QED  BY <2>2
<1>. QED  BY <1>2, <1>3

LEMMA UsersDefNext == UsesAre'
BY UsersDef, PTL

\* The address of a client is in a block of any size a class counts by.
LEMMA BlockType ==
    ASSUME NEW u \in Client, NEW limits \in Limits, Counted(limits)
    PROVE  BlockOf(u, limits.bits) \in Blocks
<1>1. limits.bits \in DOMAIN Block
  BY DEF Limits, Counted
<1>2. Ip[u] \in DOMAIN Block[limits.bits]
  BY <1>1, ConfAssumption
<1>. QED  BY <1>1, <1>2 DEF BlockOf, Blocks

\* cidr_limit_reached counts a client in its block, remove_from_cidr_check
\* takes it off.
LEMMA CidrEffect ==
    ASSUME NEW class \in ClassItem, NEW u \in Client
    PROVE  /\ CidrAdd(class, u) \in [Blocks -> Nat]
           /\ CidrRemove(class, u) \in [Blocks -> Nat]
           /\ Counted(class.limits) => \A b \in Blocks :
                /\ CidrAdd(class, u)[b] =
                     IF b = BlockOf(u, class.limits.bits) THEN class.cidr[b] + 1 ELSE class.cidr[b]
                /\ class.cidr[b] > 0 => CidrRemove(class, u)[b] =
                     IF b = BlockOf(u, class.limits.bits) THEN class.cidr[b] - 1 ELSE class.cidr[b]
                /\ b # BlockOf(u, class.limits.bits) => CidrRemove(class, u)[b] = class.cidr[b]
<1>1. class.cidr \in [Blocks -> Nat] /\ class.limits \in Limits
  BY DEF ClassItem
<1>2. CASE ~Counted(class.limits)
  BY <1>1, <1>2 DEF CidrAdd, CidrRemove
<1>3. CASE Counted(class.limits)
  <2>1. BlockOf(u, class.limits.bits) \in Blocks
    BY <1>1, <1>3, BlockType
  <2>. QED  BY <1>1, <1>3, <2>1 DEF CidrAdd, CidrRemove
<1>. QED  BY <1>2, <1>3

-----------------------------------------------------------------------------
(* What an attach and a detach do to each item, class and client *)

Attached(u, i) ==
    /\ confs' \in [Client -> SUBSET Item]
    /\ confs'[u] = confs[u] \cup {i}
    /\ \A v \in Client \ {u} : confs'[v] = confs[v]
    /\ DOMAIN conf_items' = DOMAIN conf_items
    /\ \A j \in DOMAIN conf_items :
         /\ conf_items'[j] \in AccessItem
         /\ conf_items'[j].class = conf_items[j].class
         /\ conf_items'[j].illegal = conf_items[j].illegal
         /\ conf_items'[j].clients = conf_items[j].clients + (IF j = i THEN 1 ELSE 0)
    /\ DOMAIN class_items' = DOMAIN class_items
    /\ \A k \in DOMAIN class_items :
         /\ class_items'[k] \in ClassItem
         /\ class_items'[k].limits = class_items[k].limits
         /\ class_items'[k].active = class_items[k].active
         /\ class_items'[k].users = class_items[k].users + (IF k = ClassOf(i) THEN 1 ELSE 0)
         /\ class_items'[k].cidr = IF k = ClassOf(i) /\ i.item.type = "client"
                                   THEN CidrAdd(class_items[k], u) ELSE class_items[k].cidr

\* attach_conf.
LEMMA AttachEffect ==
    ASSUME ItemsInd, NEW u \in Client, NEW i \in DOMAIN conf_items,
           Attach(u, i)
    PROVE  Attached(u, i)
<1> DEFINE k == ClassOf(i)
           new == [class_items[k] EXCEPT !.users = @ + 1,
                     !.cidr = IF i.item.type = "client" THEN CidrAdd(class_items[k], u) ELSE @]
<1>1. /\ confs' \in [Client -> SUBSET Item]
      /\ confs'[u] = confs[u] \cup {i}
      /\ \A v \in Client \ {u} : confs'[v] = confs[v]
  BY DEF Attach, ItemsInd
<1>2. conf_items' = [conf_items EXCEPT ![i] = [conf_items[i] EXCEPT !.clients = @ + 1]]
  BY DEF Attach
<1>3. conf_items[i] \in AccessItem /\ k \in DOMAIN class_items
  BY DEF ItemsInd, NothingDangles
<1>4. /\ [conf_items[i] EXCEPT !.clients = @ + 1] \in AccessItem
      /\ [conf_items[i] EXCEPT !.clients = @ + 1].class = conf_items[i].class
      /\ [conf_items[i] EXCEPT !.clients = @ + 1].illegal = conf_items[i].illegal
      /\ [conf_items[i] EXCEPT !.clients = @ + 1].clients = conf_items[i].clients + 1
  BY <1>3 DEF AccessItem
<1>5. /\ DOMAIN conf_items' = DOMAIN conf_items
      /\ \A j \in DOMAIN conf_items :
           /\ conf_items'[j] \in AccessItem
           /\ conf_items'[j].class = conf_items[j].class
           /\ conf_items'[j].illegal = conf_items[j].illegal
           /\ conf_items'[j].clients = conf_items[j].clients + (IF j = i THEN 1 ELSE 0)
  <2>1. ASSUME NEW j \in DOMAIN conf_items
        PROVE  conf_items[j].clients + 0 = conf_items[j].clients /\ conf_items[j] \in AccessItem
    BY DEF ItemsInd, AccessItem
  <2>2. /\ DOMAIN conf_items' = DOMAIN conf_items
        /\ conf_items'[i] = [conf_items[i] EXCEPT !.clients = @ + 1]
        /\ \A j \in DOMAIN conf_items \ {i} : conf_items'[j] = conf_items[j]
    BY <1>2
  <2>. QED  BY <1>4, <2>1, <2>2
<1>6. class_items' = [class_items EXCEPT ![k] = new]
  BY DEF Attach
<1>7. class_items[k] \in ClassItem /\ CidrAdd(class_items[k], u) \in [Blocks -> Nat]
  BY <1>3, CidrEffect DEF ItemsInd
<1>8. /\ new \in ClassItem
      /\ new.limits = class_items[k].limits /\ new.active = class_items[k].active
      /\ new.users = class_items[k].users + 1
      /\ new.cidr = IF i.item.type = "client" THEN CidrAdd(class_items[k], u)
                                              ELSE class_items[k].cidr
  <2> DEFINE cidr == IF i.item.type = "client" THEN CidrAdd(class_items[k], u)
                                               ELSE class_items[k].cidr
  <2>1. cidr \in [Blocks -> Nat] /\ class_items[k].users + 1 \in Nat
    BY <1>7 DEF ClassItem
  <2>2. new = [class_items[k] EXCEPT !.users = class_items[k].users + 1, !.cidr = cidr]
    OBVIOUS
  <2> HIDE DEF new, cidr
  <2>3. /\ new \in ClassItem
        /\ new.limits = class_items[k].limits /\ new.active = class_items[k].active
        /\ new.users = class_items[k].users + 1 /\ new.cidr = cidr
    BY <1>7, <2>1, <2>2 DEF ClassItem
  <2>. QED  BY <2>3 DEF cidr
<1>9. /\ DOMAIN class_items' = DOMAIN class_items
      /\ class_items'[k] = new
      /\ \A c \in DOMAIN class_items \ {k} : class_items'[c] = class_items[c]
  <2> HIDE DEF new, k
  <2>. QED  BY <1>3, <1>6
<1>10. ASSUME NEW c \in DOMAIN class_items
       PROVE  class_items[c].users + 0 = class_items[c].users /\ class_items[c] \in ClassItem
  BY DEF ItemsInd, ClassItem
<1>11. \A c \in DOMAIN class_items :
         /\ class_items'[c] \in ClassItem
         /\ class_items'[c].limits = class_items[c].limits
         /\ class_items'[c].active = class_items[c].active
         /\ class_items'[c].users = class_items[c].users + (IF c = k THEN 1 ELSE 0)
         /\ class_items'[c].cidr = IF c = k /\ i.item.type = "client"
                                   THEN CidrAdd(class_items[c], u) ELSE class_items[c].cidr
  <2> HIDE DEF new, k
  <2>. QED  BY <1>8, <1>9, <1>10
<1> HIDE DEF new
<1>. QED  BY <1>1, <1>5, <1>9, <1>11 DEF Attached

\* Of the items S of a client, those in class k.
InClass(S, k) == {i \in S : ClassOf(i) = k}

\* The uses of class k that u gives up with S.
GivenUp(u, S, k) == {u} \X InClass(S, k)

\* As many as there are items, and all of them uses.
LEMMA GivenUpCount ==
    ASSUME AllFinite, NEW u \in Client, NEW S \in SUBSET confs[u], NEW k \in ClassName
    PROVE  /\ IsFiniteSet(Users(k)) /\ Cardinality(Users(k)) \in Nat
           /\ Cardinality(InClass(S, k)) \in Nat
           /\ Cardinality(InClass(S, k)) > 0 <=> InClass(S, k) # {}
           /\ GivenUp(u, S, k) \subseteq Users(k)
           /\ Cardinality(InClass(S, k)) <= Cardinality(Users(k))
           /\ Cardinality(Users(k) \ GivenUp(u, S, k)) = Cardinality(Users(k)) - Cardinality(InClass(S, k))
           /\ Cardinality(InClass(S, k)) = Cardinality(Users(k)) => Users(k) = GivenUp(u, S, k)
<1>1. IsFiniteSet(confs[u]) /\ IsFiniteSet(Users(k))
  BY DEF AllFinite
<1>2. IsFiniteSet(InClass(S, k))
  BY <1>1, FS_Subset DEF InClass
<1>3. IsFiniteSet({u}) /\ Cardinality({u}) = 1
  BY FS_Singleton
<1>4. IsFiniteSet(GivenUp(u, S, k)) /\ Cardinality(GivenUp(u, S, k)) = 1 * Cardinality(InClass(S, k))
  BY <1>2, <1>3, FS_Product DEF GivenUp
<1>5. GivenUp(u, S, k) \subseteq Users(k)
  BY UsersDef DEF UsesAre, GivenUp, InClass
<1>6. /\ Cardinality(Users(k)) \in Nat /\ Cardinality(InClass(S, k)) \in Nat
      /\ Cardinality(InClass(S, k)) = 0 <=> InClass(S, k) = {}
  BY <1>1, <1>2, FS_CardinalityType, FS_EmptySet
<1>7. /\ Cardinality(GivenUp(u, S, k)) <= Cardinality(Users(k))
      /\ Cardinality(GivenUp(u, S, k)) = Cardinality(Users(k)) => Users(k) = GivenUp(u, S, k)
  BY <1>1, <1>5, FS_Subset
<1>8. Users(k) \cap GivenUp(u, S, k) = GivenUp(u, S, k)
  BY <1>5
<1>9. Cardinality(Users(k) \ GivenUp(u, S, k)) = Cardinality(Users(k)) - Cardinality(GivenUp(u, S, k))
  BY <1>1, <1>8, FS_Difference
<1>. QED  BY <1>1, <1>4, <1>5, <1>6, <1>7, <1>9

Detached(u, S) ==
    /\ confs' \in [Client -> SUBSET Item]
    /\ confs'[u] = confs[u] \ S
    /\ \A v \in Client \ {u} : confs'[v] = confs[v]
    /\ DOMAIN conf_items' =
         DOMAIN conf_items \ {i \in S : conf_items[i].clients = 1 /\ conf_items[i].illegal}
    /\ \A j \in DOMAIN conf_items' :
         /\ conf_items'[j] \in AccessItem
         /\ conf_items'[j].class = conf_items[j].class
         /\ conf_items'[j].illegal = conf_items[j].illegal
         /\ conf_items'[j].clients = conf_items[j].clients - (IF j \in S THEN 1 ELSE 0)
    /\ DOMAIN class_items' =
         DOMAIN class_items \
           {k \in DOMAIN class_items :
              /\ InClass(S, k) # {} /\ ~class_items[k].active
              /\ class_items[k].users = Cardinality(InClass(S, k))}
    /\ \A k \in DOMAIN class_items' :
         /\ class_items'[k] \in ClassItem
         /\ class_items'[k].limits = class_items[k].limits
         /\ class_items'[k].active = class_items[k].active
         /\ class_items'[k].users = class_items[k].users - Cardinality(InClass(S, k))
         /\ class_items'[k].cidr = IF \E i \in S \cap Iline(u) : ClassOf(i) = k
                                   THEN CidrRemove(class_items[k], u) ELSE class_items[k].cidr
         /\ k \in skewed => k \in skewed'

\* detach_conf.
LEMMA DetachEffect ==
    ASSUME ItemsInd, NEW u \in Client, NEW S \in SUBSET confs[u], Detach(u, S)
    PROVE  Detached(u, S)
<1> USE DEF ItemsInd
<1>1. /\ confs' \in [Client -> SUBSET Item]
      /\ confs'[u] = confs[u] \ S
      /\ \A v \in Client \ {u} : confs'[v] = confs[v]
  BY DEF Detach
<1>2. S \subseteq DOMAIN conf_items
  BY DEF NothingDangles
<1>3. ASSUME NEW j \in S PROVE conf_items[j].clients - 1 \in Nat
  <2>1. IsFiniteSet(Holders(j)) /\ u \in Holders(j)
    <3>1. Holders(j) \subseteq Client
      BY DEF Holders
    <3>. QED  BY <1>3, <3>1, ConfAssumption, FS_Subset DEF Holders
  <2>2. Cardinality(Holders(j)) \in Nat \ {0}
    BY <2>1, FS_CardinalityType, FS_EmptySet
  <2>. QED  BY <1>2, <2>2 DEF UsesCounted
<1>4. ASSUME NEW k \in DOMAIN class_items
      PROVE  /\ class_items[k] \in ClassItem
             /\ CidrRemove(class_items[k], u) \in [Blocks -> Nat]
             /\ Cardinality(InClass(S, k)) \in Nat
             /\ Cardinality(InClass(S, k)) > 0 <=> InClass(S, k) # {}
             /\ class_items[k].users - Cardinality(InClass(S, k)) \in Nat
  <2>1. k \in ClassName /\ class_items[k] \in ClassItem
    OBVIOUS
  <2>2. class_items[k].users = Cardinality(Users(k))
    BY DEF UsesCounted
  <2>3. CidrRemove(class_items[k], u) \in [Blocks -> Nat]
    BY <2>1, CidrEffect
  <2>4. AllFinite
    OBVIOUS
  <2>5. /\ Cardinality(Users(k)) \in Nat /\ Cardinality(InClass(S, k)) \in Nat
        /\ Cardinality(InClass(S, k)) > 0 <=> InClass(S, k) # {}
        /\ Cardinality(InClass(S, k)) <= Cardinality(Users(k))
    BY <2>1, <2>4, GivenUpCount
  <2>. QED  BY <2>1, <2>2, <2>3, <2>5
<1> DEFINE freedItems == {i \in S : conf_items[i].clients = 1 /\ conf_items[i].illegal}
           freedClasses == {k \in DOMAIN class_items :
                              /\ Cardinality(InClass(S, k)) > 0
                              /\ class_items[k].users = Cardinality(InClass(S, k))
                              /\ ~class_items[k].active}
           item(i) == IF i \in S THEN [conf_items[i] EXCEPT !.clients = @ - 1] ELSE conf_items[i]
           cidr(k) == IF \E i \in S \cap Iline(u) : ClassOf(i) = k
                      THEN CidrRemove(class_items[k], u) ELSE class_items[k].cidr
           class(k) == [class_items[k] EXCEPT
                          !.users = class_items[k].users - Cardinality(InClass(S, k)),
                          !.cidr = cidr(k)]
<1>5. conf_items' = [i \in DOMAIN conf_items \ freedItems |-> item(i)]
  BY DEF Detach
<1>6. class_items' = [k \in DOMAIN class_items \ freedClasses |-> class(k)]
  BY DEF Detach, InClass
<1>7. ASSUME NEW j \in DOMAIN conf_items
      PROVE  /\ item(j) \in AccessItem
             /\ item(j).class = conf_items[j].class /\ item(j).illegal = conf_items[j].illegal
             /\ item(j).clients = conf_items[j].clients - (IF j \in S THEN 1 ELSE 0)
  <2>1. conf_items[j] \in AccessItem
    OBVIOUS
  <2>2. CASE j \in S
    <3>1. conf_items[j].clients - 1 \in Nat
      BY <1>3, <2>2
    <3>. QED  BY <2>1, <2>2, <3>1 DEF AccessItem
  <2>3. CASE j \notin S
    BY <2>1, <2>3 DEF AccessItem
  <2>. QED  BY <2>2, <2>3
<1>8. ASSUME NEW k \in DOMAIN class_items
      PROVE  /\ class(k) \in ClassItem
             /\ class(k).limits = class_items[k].limits /\ class(k).active = class_items[k].active
             /\ class(k).users = class_items[k].users - Cardinality(InClass(S, k))
             /\ class(k).cidr = cidr(k)
  <2>1. cidr(k) \in [Blocks -> Nat]
    BY <1>4 DEF ClassItem
  <2> HIDE DEF cidr
  <2>. QED  BY <1>4, <2>1 DEF ClassItem
<1> HIDE DEF item, class, freedItems, freedClasses
<1>9. /\ DOMAIN conf_items' = DOMAIN conf_items \ freedItems
      /\ \A j \in DOMAIN conf_items' : conf_items'[j] = item(j)
  BY <1>5
<1>10. /\ DOMAIN class_items' = DOMAIN class_items \ freedClasses
       /\ \A k \in DOMAIN class_items' : class_items'[k] = class(k)
  BY <1>6
<1>11. freedClasses = {k \in DOMAIN class_items :
              /\ InClass(S, k) # {} /\ ~class_items[k].active
              /\ class_items[k].users = Cardinality(InClass(S, k))}
  BY <1>4 DEF freedClasses
<1>12. \A j \in DOMAIN conf_items' :
         /\ conf_items'[j] \in AccessItem
         /\ conf_items'[j].class = conf_items[j].class
         /\ conf_items'[j].illegal = conf_items[j].illegal
         /\ conf_items'[j].clients = conf_items[j].clients - (IF j \in S THEN 1 ELSE 0)
  BY <1>7, <1>9
<1>13. \A k \in DOMAIN class_items' :
         /\ class_items'[k] \in ClassItem
         /\ class_items'[k].limits = class_items[k].limits
         /\ class_items'[k].active = class_items[k].active
         /\ class_items'[k].users = class_items[k].users - Cardinality(InClass(S, k))
         /\ class_items'[k].cidr = cidr(k)
  BY <1>8, <1>10
<1>14. \A k \in DOMAIN class_items' : k \in skewed => k \in skewed'
  <2>1. skewed' = skewed \ freedClasses
    BY DEF Detach, InClass, freedClasses
  <2>. QED  BY <1>10, <2>1
<1>. QED  BY <1>1, <1>9, <1>10, <1>11, <1>12, <1>13, <1>14 DEF Detached, freedItems

-----------------------------------------------------------------------------
(* Attaching keeps all of it *)

\* Holders are clients, so they can be counted.
LEMMA HoldersFinite ==
    ASSUME NEW i
    PROVE  IsFiniteSet(Holders(i)) /\ Cardinality(Holders(i)) \in Nat
<1>1. Holders(i) \subseteq Client
  BY DEF Holders
<1>. QED  BY <1>1, ConfAssumption, FS_Subset, FS_CardinalityType

\* And so can those of a class in one block.
InBlock(k, bits, b) == {u \in AttachedTo(k) : BlockOf(u, bits) = b}

LEMMA InBlockFinite ==
    ASSUME NEW k, NEW bits, NEW b
    PROVE  IsFiniteSet(InBlock(k, bits, b)) /\ Cardinality(InBlock(k, bits, b)) \in Nat
<1>1. InBlock(k, bits, b) \subseteq Client
  BY DEF InBlock, AttachedTo
<1>. QED  BY <1>1, ConfAssumption, FS_Subset, FS_CardinalityType

LEMMA AttachKeeps ==
    ASSUME ItemsInd, NEW u \in Client, NEW i \in DOMAIN conf_items,
           ~conf_items[i].illegal, i \notin confs[u],
           i.item.type = "client" => Iline(u) = {},
           Attached(u, i), UNCHANGED <<rehashes, skewed>>
    PROVE  ItemsInd'
<1> USE DEF ItemsInd
<1> DEFINE k0 == ClassOf(i)
<1>a. /\ confs' \in [Client -> SUBSET Item]
      /\ confs'[u] = confs[u] \cup {i}
      /\ \A v \in Client \ {u} : confs'[v] = confs[v]
      /\ DOMAIN conf_items' = DOMAIN conf_items
      /\ DOMAIN class_items' = DOMAIN class_items
  BY DEF Attached
<1>d. /\ \A v \in Client : confs[v] \subseteq DOMAIN conf_items
      /\ \A j \in DOMAIN conf_items : ClassOf(j) \in DOMAIN class_items
  BY DEF NothingDangles
<1>1. \A j \in DOMAIN conf_items : ClassOf(j)' = ClassOf(j)
  BY DEF Attached, ClassOf
<1>2. ASSUME NEW k
      PROVE  Users(k)' = IF k = k0 THEN Users(k) \cup {<<u, i>>} ELSE Users(k)
  <2>1. \A v \in Client : \A j : <<v, j>> \in Users(k)' <=>
          <<v, j>> \in Users(k) \/ (v = u /\ j = i /\ k = k0)
    <3> SUFFICES ASSUME NEW v \in Client, NEW j
                 PROVE  <<v, j>> \in Users(k)' <=>
                          <<v, j>> \in Users(k) \/ (v = u /\ j = i /\ k = k0)
      OBVIOUS
    <3>1. <<v, j>> \in Users(k)' <=> j \in confs'[v] /\ ClassOf(j)' = k
      BY UsersDefNext DEF UsesAre
    <3>2. <<v, j>> \in Users(k) <=> j \in confs[v] /\ ClassOf(j) = k
      BY UsersDef DEF UsesAre
    <3>3. j \in confs'[v] <=> j \in confs[v] \/ (v = u /\ j = i)
      BY <1>a
    <3>4. j \in confs'[v] => ClassOf(j)' = ClassOf(j)
      BY <1>d, <1>1, <3>3
    <3>. QED  BY <3>1, <3>2, <3>3, <3>4, <1>d
  <2>2. \A p \in Users(k)' : \E v \in Client : \E j : p = <<v, j>>
    BY UsersDefNext DEF UsesAre
  <2>3. \A p \in Users(k) : \E v \in Client : \E j : p = <<v, j>>
    BY UsersDef DEF UsesAre
  <2> HIDE DEF k0
  <2>. QED  BY <2>1, <2>2, <2>3
<1>3. \A j : Holders(j)' = IF j = i THEN Holders(j) \cup {u} ELSE Holders(j)
  BY <1>a DEF Holders
<1>4. \A v \in Client : Iline(v)' = IF v = u /\ i.item.type = "client"
                                     THEN Iline(v) \cup {i} ELSE Iline(v)
  BY <1>a DEF Iline
<1>5. <<u, i>> \notin Users(k0) /\ u \notin Holders(i)
  BY UsersDef DEF UsesAre, Holders
<1>6. Current'
  <2>1. \A j \in DOMAIN conf_items : conf_items'[j].illegal = conf_items[j].illegal
    BY DEF Attached
  <2>2. \A k \in DOMAIN class_items : class_items'[k].active = class_items[k].active
    BY DEF Attached
  <2>. QED  BY <1>a, <1>1, <2>1, <2>2 DEF Current
<1>7. MadeBefore' /\ NothingDangles'
  <2>1. \A v \in Client : confs'[v] \subseteq DOMAIN conf_items
    BY <1>a, <1>d
  <2>. QED  BY <1>a, <1>d, <1>1, <2>1 DEF MadeBefore, NothingDangles
<1>8. OneIline'
  <2> SUFFICES ASSUME NEW v \in Client, NEW j \in Iline(v)', NEW m \in Iline(v)'
               PROVE  j = m
    BY DEF OneIline
  <2>. QED  BY <1>4 DEF OneIline
<1>9. AllFinite'
  <2>1. \A v \in Client : IsFiniteSet(confs'[v])
    BY <1>a, FS_AddElement DEF AllFinite
  <2>2. \A k \in ClassName : IsFiniteSet(Users(k)')
    BY <1>2, FS_AddElement DEF AllFinite
  <2>. QED  BY <2>1, <2>2 DEF AllFinite
<1>10. NothingLeaks'
  <2>1. \A j \in DOMAIN conf_items : conf_items'[j].illegal = conf_items[j].illegal
    BY DEF Attached
  <2>2. \A k \in DOMAIN class_items : class_items'[k].active = class_items[k].active
    BY DEF Attached
  <2>3. \A j : Holders(j) \subseteq Holders(j)'
    BY <1>3
  <2>4. \A k : Users(k) \subseteq Users(k)'
    BY <1>2
  <2>. QED  BY <1>a, <2>1, <2>2, <2>3, <2>4 DEF NothingLeaks
<1>11. UsesCounted'
  <2>1. ASSUME NEW j \in DOMAIN conf_items
        PROVE  conf_items'[j].clients = Cardinality(Holders(j)')
    <3>1. conf_items'[j].clients = conf_items[j].clients + (IF j = i THEN 1 ELSE 0)
      BY DEF Attached
    <3>2. IsFiniteSet(Holders(j)) /\ Cardinality(Holders(j)) \in Nat
      BY HoldersFinite
    <3>3. conf_items[j].clients = Cardinality(Holders(j))
      BY DEF UsesCounted
    <3>4. CASE j = i
      <4>1. Cardinality(Holders(j) \cup {u}) = Cardinality(Holders(j)) + 1
        BY <1>5, <3>2, <3>4, FS_AddElement
      <4>. QED  BY <1>3, <3>1, <3>3, <3>4, <4>1
    <3>5. CASE j # i
      BY <1>3, <3>1, <3>2, <3>3, <3>5
    <3>. QED  BY <3>4, <3>5
  <2>2. ASSUME NEW k \in DOMAIN class_items
        PROVE  class_items'[k].users = Cardinality(Users(k)')
    <3>1. class_items'[k].users = class_items[k].users + (IF k = k0 THEN 1 ELSE 0)
      BY DEF Attached
    <3>2. IsFiniteSet(Users(k)) /\ Cardinality(Users(k)) \in Nat
      BY FS_CardinalityType DEF AllFinite
    <3>3. class_items[k].users = Cardinality(Users(k))
      BY DEF UsesCounted
    <3>4. CASE k = k0
      <4>1. Cardinality(Users(k) \cup {<<u, i>>}) = Cardinality(Users(k)) + 1
        BY <1>5, <3>2, <3>4, FS_AddElement
      <4>. QED  BY <1>2, <3>1, <3>3, <3>4, <4>1
    <3>5. CASE k # k0
      <4> HIDE DEF k0
      <4>. QED  BY <1>2, <3>1, <3>2, <3>3, <3>5
    <3>. QED  BY <3>4, <3>5
  <2>. QED  BY <1>a, <2>1, <2>2 DEF UsesCounted
<1>12. CidrExact'
  <2> SUFFICES ASSUME NEW k \in DOMAIN class_items, k \notin skewed,
                      Counted(class_items[k].limits), NEW b \in Blocks
               PROVE  class_items'[k].cidr[b] = Cardinality(InBlock(k, class_items[k].limits.bits, b)')
    BY <1>a DEF CidrExact, InBlock, Attached
  <2> DEFINE bits == class_items[k].limits.bits
  <2>1. class_items[k].cidr[b] = Cardinality(InBlock(k, bits, b))
    BY DEF CidrExact, InBlock
  <2>2. IsFiniteSet(InBlock(k, bits, b)) /\ Cardinality(InBlock(k, bits, b)) \in Nat
    BY InBlockFinite
  <2>3. AttachedTo(k)' = IF k = k0 /\ i.item.type = "client" THEN AttachedTo(k) \cup {u}
                                                             ELSE AttachedTo(k)
    <3>1. ASSUME NEW v \in Client
          PROVE  (\E j \in Iline(v)' : ClassOf(j)' = k) <=>
                   (\E j \in Iline(v) : ClassOf(j) = k)
                     \/ (v = u /\ i.item.type = "client" /\ k = k0)
      <4>1. \A j \in Iline(v)' : ClassOf(j)' = ClassOf(j)
        BY <1>1, <1>4, <1>d DEF Iline
      <4> HIDE DEF k0
      <4>2. ClassOf(i) = k0
        BY DEF k0
      <4>. QED  BY <1>4, <4>1, <4>2
    <3> HIDE DEF k0
    <3>. QED  BY <3>1 DEF AttachedTo
  <2>4. class_items'[k].cidr = IF k = k0 /\ i.item.type = "client"
                               THEN CidrAdd(class_items[k], u) ELSE class_items[k].cidr
    BY DEF Attached
  <2>5. CASE k = k0 /\ i.item.type = "client"
    <3>1. u \notin AttachedTo(k)
      BY <2>5 DEF AttachedTo
    <3>2. CidrAdd(class_items[k], u)[b] =
            IF b = BlockOf(u, bits) THEN class_items[k].cidr[b] + 1 ELSE class_items[k].cidr[b]
      BY CidrEffect
    <3>3. InBlock(k, bits, b)' = IF b = BlockOf(u, bits) THEN InBlock(k, bits, b) \cup {u}
                                                       ELSE InBlock(k, bits, b)
      BY <2>3, <2>5 DEF InBlock, BlockOf, Attached
    <3>4. Cardinality(InBlock(k, bits, b) \cup {u}) = Cardinality(InBlock(k, bits, b)) + 1
      BY <2>2, <3>1, FS_AddElement DEF InBlock
    <3>. QED  BY <2>1, <2>2, <2>4, <2>5, <3>2, <3>3, <3>4
  <2>6. CASE ~(k = k0 /\ i.item.type = "client")
    <3>1. InBlock(k, bits, b)' = InBlock(k, bits, b)
      BY <2>3, <2>6 DEF InBlock, BlockOf, Attached
    <3>. QED  BY <2>1, <2>4, <2>6, <3>1
  <2>. QED  BY <2>5, <2>6
<1>13. /\ \A k \in DOMAIN class_items : class_items'[k] \in ClassItem
       /\ \A j \in DOMAIN conf_items : conf_items'[j] \in AccessItem
  BY DEF Attached
<1>. QED  BY <1>a, <1>6, <1>7, <1>8, <1>9, <1>10, <1>11, <1>12, <1>13

-----------------------------------------------------------------------------
(* So does detaching *)

LEMMA DetachKeeps ==
    ASSUME ItemsInd, NEW u \in Client, NEW S \in SUBSET confs[u],
           Detached(u, S), UNCHANGED rehashes
    PROVE  ItemsInd'
<1> USE DEF ItemsInd
<1> DEFINE Lost(k) == \E i \in S \cap Iline(u) : ClassOf(i) = k
<1>a. /\ confs' \in [Client -> SUBSET Item]
      /\ confs'[u] = confs[u] \ S
      /\ \A v \in Client \ {u} : confs'[v] = confs[v]
      /\ DOMAIN conf_items' \subseteq DOMAIN conf_items
      /\ DOMAIN class_items' \subseteq DOMAIN class_items
  BY DEF Detached
<1>b. \A j \in DOMAIN conf_items :
        j \in DOMAIN conf_items' <=> ~(j \in S /\ conf_items[j].clients = 1 /\ conf_items[j].illegal)
  BY DEF Detached
<1>c. \A k \in DOMAIN class_items :
        k \in DOMAIN class_items' <=>
          ~(InClass(S, k) # {} /\ ~class_items[k].active
              /\ class_items[k].users = Cardinality(InClass(S, k)))
  BY DEF Detached
<1>d. /\ \A v \in Client : confs[v] \subseteq DOMAIN conf_items
      /\ \A j \in DOMAIN conf_items : ClassOf(j) \in DOMAIN class_items
      /\ \A v \in Client : confs'[v] \subseteq confs[v]
  BY <1>a DEF NothingDangles
<1>1. \A j \in DOMAIN conf_items' : ClassOf(j)' = ClassOf(j)
  BY DEF Attached, Detached, ClassOf
<1>2. ASSUME NEW k \in DOMAIN class_items
      PROVE  /\ k \in ClassName /\ AllFinite
             /\ class_items[k].users = Cardinality(Users(k))
  BY DEF UsesCounted
<1>3. \A j \in DOMAIN conf_items : conf_items[j].clients = Cardinality(Holders(j))
  BY DEF UsesCounted
<1>4. ASSUME NEW j, NEW v \in Client, Holders(j) = {v}
      PROVE  Cardinality(Holders(j)) = 1
  BY <1>4, FS_Singleton
<1>5. ASSUME NEW j, Cardinality(Holders(j)) = 1, NEW v \in Holders(j), NEW w \in Holders(j)
      PROVE  v = w
  BY <1>5, HoldersFinite, FS_Singleton
<1>6. NothingDangles'
  <2>1. ASSUME NEW v \in Client, NEW j \in confs'[v]
        PROVE  j \in DOMAIN conf_items'
    <3> SUFFICES ASSUME j \in S, conf_items[j].clients = 1 PROVE FALSE
      BY <1>b, <1>d
    <3>1. v # u
      BY <1>a
    <3>2. v \in Holders(j) /\ u \in Holders(j)
      BY <1>a, <3>1 DEF Holders
    <3>3. Cardinality(Holders(j)) = 1
      BY <1>3, <1>d
    <3>. QED  BY <1>5, <3>1, <3>2, <3>3
  <2>2. ASSUME NEW j \in DOMAIN conf_items'
        PROVE  ClassOf(j)' \in DOMAIN class_items'
    <3> DEFINE k == ClassOf(j)
    <3>1. j \in DOMAIN conf_items /\ k \in DOMAIN class_items /\ ClassOf(j)' = k
      BY <1>1, <1>a, <1>d
    <3> SUFFICES ASSUME InClass(S, k) # {}, ~class_items[k].active,
                        class_items[k].users = Cardinality(InClass(S, k))
                 PROVE  FALSE
      BY <1>c, <3>1
    <3>2. Users(k) = GivenUp(u, S, k)
      BY <1>2, <3>1, GivenUpCount
    <3>3. conf_items[j].illegal
      BY <3>1 DEF Current
    <3>4. Holders(j) # {}
      BY <3>1, <3>3 DEF NothingLeaks
    <3>5. \A v \in Holders(j) : v = u /\ j \in S
      <4> SUFFICES ASSUME NEW v \in Holders(j) PROVE v = u /\ j \in S
        OBVIOUS
      <4>1. v \in Client /\ j \in confs[v]
        BY DEF Holders
      <4>2. <<v, j>> \in Users(k)
        BY <4>1, UsersDef DEF UsesAre
      <4>. QED  BY <3>2, <4>2 DEF GivenUp, InClass
    <3>6. Holders(j) = {u} /\ j \in S
      BY <3>4, <3>5
    <3>7. conf_items[j].clients = 1
      BY <1>3, <1>4, <3>1, <3>6
    <3>. QED  BY <1>b, <3>1, <3>3, <3>6, <3>7
  <2>. QED  BY <2>1, <2>2 DEF NothingDangles
<1>7. ASSUME NEW k
      PROVE  Users(k)' = Users(k) \ GivenUp(u, S, k)
  <2>1. \A v \in Client : \A j : <<v, j>> \in Users(k)' <=>
          <<v, j>> \in Users(k) /\ <<v, j>> \notin GivenUp(u, S, k)
    <3> SUFFICES ASSUME NEW v \in Client, NEW j
                 PROVE  <<v, j>> \in Users(k)' <=>
                          <<v, j>> \in Users(k) /\ <<v, j>> \notin GivenUp(u, S, k)
      OBVIOUS
    <3>1. <<v, j>> \in Users(k)' <=> j \in confs'[v] /\ ClassOf(j)' = k
      BY UsersDefNext DEF UsesAre
    <3>2. <<v, j>> \in Users(k) <=> j \in confs[v] /\ ClassOf(j) = k
      BY UsersDef DEF UsesAre
    <3>3. <<v, j>> \in GivenUp(u, S, k) <=> v = u /\ j \in S /\ ClassOf(j) = k
      BY DEF GivenUp, InClass
    <3>4. j \in confs'[v] <=> j \in confs[v] /\ ~(v = u /\ j \in S)
      BY <1>a
    <3>5. j \in confs'[v] => ClassOf(j)' = ClassOf(j)
      BY <1>1, <1>6 DEF NothingDangles
    <3>. QED  BY <3>1, <3>2, <3>3, <3>4, <3>5
  <2>2. \A p \in Users(k)' : \E v \in Client : \E j : p = <<v, j>>
    BY UsersDefNext DEF UsesAre
  <2>3. \A p \in Users(k) : \E v \in Client : \E j : p = <<v, j>>
    BY UsersDef DEF UsesAre
  <2>. QED  BY <2>1, <2>2, <2>3
<1>8. \A j : Holders(j)' = IF j \in S THEN Holders(j) \ {u} ELSE Holders(j)
  BY <1>a DEF Holders
<1>9. \A v \in Client : Iline(v)' = IF v = u THEN Iline(v) \ S ELSE Iline(v)
  BY <1>a DEF Iline
<1>10. /\ \A j \in DOMAIN conf_items' :
            /\ conf_items'[j] \in AccessItem
            /\ conf_items'[j].illegal = conf_items[j].illegal
       /\ \A k \in DOMAIN class_items' :
            /\ class_items'[k] \in ClassItem
            /\ class_items'[k].active = class_items[k].active
  BY DEF Detached
<1>11. Current'
  <2>1. "default" \in DOMAIN class_items'
    BY <1>c DEF Current
  <2>. QED  BY <1>1, <1>10, <1>a, <2>1 DEF Current
<1>12. MadeBefore' /\ OneIline'
  <2>1. MadeBefore'
    BY <1>a DEF MadeBefore
  <2>2. OneIline'
    BY <1>9 DEF OneIline
  <2>. QED  BY <2>1, <2>2
<1>13. AllFinite'
  <2>1. \A v \in Client : IsFiniteSet(confs'[v])
    BY <1>d, FS_Subset DEF AllFinite
  <2>2. \A k \in ClassName : IsFiniteSet(Users(k)')
    BY <1>7, FS_Difference DEF AllFinite
  <2>. QED  BY <2>1, <2>2 DEF AllFinite
<1>14. UsesCounted'
  <2>1. ASSUME NEW j \in DOMAIN conf_items'
        PROVE  conf_items'[j].clients = Cardinality(Holders(j)')
    <3>1. conf_items'[j].clients = conf_items[j].clients - (IF j \in S THEN 1 ELSE 0)
      BY DEF Detached
    <3>2. /\ IsFiniteSet(Holders(j)) /\ Cardinality(Holders(j)) \in Nat
          /\ conf_items[j].clients = Cardinality(Holders(j))
      BY <1>3, <1>a, HoldersFinite
    <3>3. CASE j \in S
      <4>1. u \in Holders(j)
        BY <3>3 DEF Holders
      <4>2. Cardinality(Holders(j) \ {u}) = Cardinality(Holders(j)) - 1
        BY <3>2, <4>1, FS_RemoveElement
      <4>. QED  BY <1>8, <3>1, <3>2, <3>3, <4>2
    <3>4. CASE j \notin S
      BY <1>8, <3>1, <3>2, <3>4
    <3>. QED  BY <3>3, <3>4
  <2>2. ASSUME NEW k \in DOMAIN class_items'
        PROVE  class_items'[k].users = Cardinality(Users(k)')
    <3>1. class_items'[k].users = class_items[k].users - Cardinality(InClass(S, k))
      BY DEF Detached
    <3>2. Cardinality(Users(k) \ GivenUp(u, S, k)) = Cardinality(Users(k)) - Cardinality(InClass(S, k))
      BY <1>2, <1>a, GivenUpCount
    <3>. QED  BY <1>2, <1>7, <1>a, <3>1, <3>2
  <2>. QED  BY <2>1, <2>2 DEF UsesCounted
<1>15. NothingLeaks'
  <2>1. ASSUME NEW j \in DOMAIN conf_items', conf_items'[j].illegal
        PROVE  Holders(j)' # {}
    <3>1. j \in DOMAIN conf_items /\ conf_items[j].illegal
      BY <1>10, <1>a, <2>1
    <3>2. CASE j \in S
      <4> SUFFICES ASSUME Holders(j) \ {u} = {} PROVE FALSE
        BY <1>8, <3>2
      <4>1. Holders(j) = {u}
        BY <3>2 DEF Holders
      <4>2. conf_items[j].clients = 1
        BY <1>3, <1>4, <3>1, <4>1
      <4>. QED  BY <1>b, <3>1, <3>2, <4>2
    <3>3. CASE j \notin S
      BY <1>8, <3>1, <3>3 DEF NothingLeaks
    <3>. QED  BY <3>2, <3>3
  <2>2. ASSUME NEW k \in DOMAIN class_items', ~class_items'[k].active
        PROVE  Users(k)' # {}
    <3>1. k \in DOMAIN class_items /\ ~class_items[k].active
      BY <1>10, <1>a, <2>2
    <3>2. Users(k) # {}
      BY <3>1 DEF NothingLeaks
    <3>3. CASE InClass(S, k) = {}
      <4>1. GivenUp(u, S, k) = {}
        BY <3>3 DEF GivenUp
      <4>. QED  BY <1>7, <3>2, <4>1
    <3>4. CASE InClass(S, k) # {}
      <4>1. class_items[k].users # Cardinality(InClass(S, k))
        BY <1>c, <3>1, <3>4
      <4>2. class_items'[k].users = class_items[k].users - Cardinality(InClass(S, k))
        BY DEF Detached
      <4>3. class_items[k].users \in Nat /\ Cardinality(InClass(S, k)) \in Nat
        BY <1>2, <3>1, GivenUpCount
      <4>4. Cardinality(Users(k)') # 0
        BY <1>14, <4>1, <4>2, <4>3 DEF UsesCounted
      <4>. QED  BY <4>4, FS_EmptySet
    <3>. QED  BY <3>3, <3>4
  <2>. QED  BY <2>1, <2>2 DEF NothingLeaks
<1>16. CidrExact'
  <2>a. \A k \in DOMAIN class_items' :
          /\ k \in DOMAIN class_items
          /\ class_items'[k].limits = class_items[k].limits
          /\ k \in skewed => k \in skewed'
    BY <1>a DEF Detached
  <2> SUFFICES ASSUME NEW k \in DOMAIN class_items', k \notin skewed,
                      Counted(class_items[k].limits), NEW b \in Blocks
               PROVE  class_items'[k].cidr[b] = Cardinality(InBlock(k, class_items[k].limits.bits, b)')
    BY <2>a DEF CidrExact, InBlock
  <2> DEFINE bits == class_items[k].limits.bits
  <2>0. /\ k \in DOMAIN class_items /\ k \notin skewed
        /\ class_items'[k].limits = class_items[k].limits /\ Counted(class_items[k].limits)
        /\ class_items[k] \in ClassItem
    BY <2>a
  <2>1. class_items[k].cidr[b] = Cardinality(InBlock(k, bits, b))
    BY <2>0 DEF CidrExact, InBlock
  <2>2. IsFiniteSet(InBlock(k, bits, b)) /\ Cardinality(InBlock(k, bits, b)) \in Nat
    BY InBlockFinite
  <2>3. AttachedTo(k)' = IF Lost(k) THEN AttachedTo(k) \ {u} ELSE AttachedTo(k)
    <3>1. ASSUME NEW v \in Client
          PROVE  (\E j \in Iline(v)' : ClassOf(j)' = k) <=>
                   (\E j \in Iline(v) : ClassOf(j) = k) /\ ~(v = u /\ Lost(k))
      <4>1. \A j \in Iline(v)' : ClassOf(j)' = ClassOf(j)
        BY <1>1, <1>6 DEF Iline, NothingDangles
      <4>2. \A j, m \in Iline(u) : j = m
        BY DEF OneIline
      <4>. QED  BY <1>9, <4>1, <4>2
    <3> HIDE DEF Lost
    <3>. QED  BY <3>1 DEF AttachedTo
  <2>4. class_items'[k].cidr = IF Lost(k) THEN CidrRemove(class_items[k], u) ELSE class_items[k].cidr
    BY DEF Detached
  <2>5. CASE Lost(k)
    <3>1. u \in AttachedTo(k)
      BY <2>5 DEF AttachedTo
    <3>2. InBlock(k, bits, b)' = IF b = BlockOf(u, bits) THEN InBlock(k, bits, b) \ {u}
                                                       ELSE InBlock(k, bits, b)
      <4> HIDE DEF Lost
      <4>. QED  BY <2>0, <2>3, <2>5 DEF InBlock, BlockOf
    <3>3. CASE b = BlockOf(u, bits)
      <4>1. u \in InBlock(k, bits, b)
        BY <3>1, <3>3 DEF InBlock
      <4>2. Cardinality(InBlock(k, bits, b) \ {u}) = Cardinality(InBlock(k, bits, b)) - 1
        BY <2>2, <4>1, FS_RemoveElement
      <4>3. class_items[k].cidr[b] > 0
        <5>1. Cardinality(InBlock(k, bits, b)) # 0
          BY <2>2, <4>1, FS_EmptySet
        <5>. QED  BY <2>1, <2>2, <5>1
      <4>4. CidrRemove(class_items[k], u)[b] = class_items[k].cidr[b] - 1
        <5> HIDE DEF Lost
        <5>. QED  BY <2>0, <3>3, <4>3, CidrEffect
      <4> HIDE DEF Lost
      <4>. QED  BY <2>0, <2>1, <2>4, <2>5, <3>2, <3>3, <4>2, <4>4
    <3>4. CASE b # BlockOf(u, bits)
      <4>1. CidrRemove(class_items[k], u)[b] = class_items[k].cidr[b]
        <5> HIDE DEF Lost
        <5>. QED  BY <2>0, <3>4, CidrEffect
      <4> HIDE DEF Lost
      <4>. QED  BY <2>0, <2>1, <2>4, <2>5, <3>2, <3>4, <4>1
    <3>. QED  BY <3>3, <3>4
  <2>6. CASE ~Lost(k)
    <3> HIDE DEF Lost
    <3>1. InBlock(k, bits, b)' = InBlock(k, bits, b)
      BY <2>0, <2>3, <2>6 DEF InBlock, BlockOf
    <3>. QED  BY <2>0, <2>1, <2>4, <2>6, <3>1
  <2>. QED  BY <2>5, <2>6
<1>. QED  BY <1>a, <1>6, <1>10, <1>11, <1>12, <1>13, <1>14, <1>15, <1>16

-----------------------------------------------------------------------------
(* And so does a REHASH *)

\* The items in use, those the file makes, and what becomes of each.
Used == {i \in DOMAIN conf_items : conf_items[i].clients > 0}
Made(cf) == {[made |-> rehashes + 1, item |-> f] : f \in cf.items}

Reloaded(cf) ==
    /\ DOMAIN conf_items' = Used \cup Made(cf)
    /\ \A i \in Used :
         /\ conf_items'[i] \in AccessItem /\ conf_items'[i].illegal
         /\ conf_items'[i].class = conf_items[i].class
         /\ conf_items'[i].clients = conf_items[i].clients
    /\ \A i \in Made(cf) :
         /\ i \in Item /\ i.made = rehashes + 1
         /\ conf_items'[i] \in AccessItem /\ ~conf_items'[i].illegal
         /\ conf_items'[i].class \in DOMAIN cf.class \cup {"default"}
         /\ conf_items'[i].clients = 0

\* clear_out_old_conf and read_conf on the items.
LEMMA ItemsEffect ==
    ASSUME ItemsInd, rehashes < MaxRehash, NEW cf \in Files, conf_items' = ItemsAfter(cf)
    PROVE  Reloaded(cf)
<1> USE DEF ItemsInd
<1>1. cf.items \subseteq FileItem /\ "default" \in ClassName
  BY ConfAssumption
<1>2. rehashes + 1 \in 1..MaxRehash
  BY ConfAssumption DEF MadeBefore
<1>3. ASSUME NEW i \in Made(cf)
      PROVE  i \in Item /\ i.made = rehashes + 1 /\ i \notin Used
  <2>1. PICK f \in cf.items : i = [made |-> rehashes + 1, item |-> f]
    BY <1>3 DEF Made
  <2>2. i \in Item /\ i.made = rehashes + 1
    BY <1>1, <1>2, <2>1 DEF Item
  <2>3. \A j \in Used : j.made <= rehashes
    BY DEF Used, MadeBefore
  <2>. QED  BY <2>2, <2>3 DEF MadeBefore
<1> DEFINE new(i) == [clients |-> 0, illegal |-> FALSE,
                      class |-> IF i.item.class \in DOMAIN cf.class THEN i.item.class
                                                                      ELSE "default"]
           old(i) == [conf_items[i] EXCEPT !.illegal = TRUE]
<1>4. conf_items' = [i \in Used \cup Made(cf) |-> IF i \in Used THEN old(i) ELSE new(i)]
  BY DEF ItemsAfter, Used, Made
<1>5. ASSUME NEW i \in Used
      PROVE  /\ old(i) \in AccessItem /\ old(i).illegal
             /\ old(i).class = conf_items[i].class /\ old(i).clients = conf_items[i].clients
  <2>1. conf_items[i] \in AccessItem
    BY DEF Used
  <2>. QED  BY <2>1 DEF AccessItem
<1>6. ASSUME NEW i \in Made(cf)
      PROVE  /\ new(i) \in AccessItem /\ ~new(i).illegal /\ new(i).clients = 0
             /\ new(i).class \in DOMAIN cf.class \cup {"default"}
  <2>1. i.item.class \in ClassName
    BY <1>3 DEF Item, FileItem
  <2>. QED  BY <1>1, <2>1 DEF AccessItem
<1> HIDE DEF old, new
<1>7. /\ DOMAIN conf_items' = Used \cup Made(cf)
      /\ \A i \in Used : conf_items'[i] = old(i)
      /\ \A i \in Made(cf) : conf_items'[i] = new(i)
  BY <1>3, <1>4
<1>. QED  BY <1>3, <1>5, <1>6, <1>7 DEF Reloaded

Reclassed(cf) ==
    /\ DOMAIN class_items' =
         DOMAIN cf.class \cup {k \in DOMAIN class_items : k = "default" \/ class_items[k].users > 0}
    /\ DOMAIN class_items' \subseteq ClassName
    /\ \A k \in DOMAIN class_items' :
         /\ class_items'[k] \in ClassItem
         /\ class_items'[k].users = IF k \in DOMAIN class_items THEN class_items[k].users ELSE 0
         /\ class_items'[k].active <=> k \in DOMAIN cf.class \/ k = "default"
         /\ class_items'[k].limits = IF k \in DOMAIN cf.class THEN cf.class[k]
                                                                ELSE class_items[k].limits
         /\ class_items'[k].cidr =
              IF k \notin DOMAIN cf.class THEN class_items[k].cidr
              ELSE IF k \in DOMAIN class_items
              THEN RebuildCidr(k, class_items[k], cf.class[k]) ELSE NoBlocks

\* read_conf and check_class on the classes.
LEMMA ClassesEffect ==
    ASSUME ItemsInd, NEW cf \in Files, class_items' = ClassesAfter(cf)
    PROVE  Reclassed(cf)
<1> USE DEF ItemsInd
<1> DEFINE kept == {k \in DOMAIN class_items : k = "default" \/ class_items[k].users > 0}
           class(k) == IF k \in DOMAIN cf.class THEN Reread(k, cf.class[k])
                       ELSE [class_items[k] EXCEPT !.active = k = "default"]
<1>1. DOMAIN cf.class \subseteq ClassName /\ \A k \in DOMAIN cf.class : cf.class[k] \in Limits
  BY ConfAssumption
<1>2. ASSUME NEW k \in DOMAIN cf.class \cup kept
      PROVE  /\ class(k) \in ClassItem
             /\ class(k).users = IF k \in DOMAIN class_items THEN class_items[k].users ELSE 0
             /\ class(k).active <=> k \in DOMAIN cf.class \/ k = "default"
             /\ class(k).limits = IF k \in DOMAIN cf.class THEN cf.class[k]
                                                             ELSE class_items[k].limits
             /\ class(k).cidr =
                  IF k \notin DOMAIN cf.class THEN class_items[k].cidr
                  ELSE IF k \in DOMAIN class_items
                  THEN RebuildCidr(k, class_items[k], cf.class[k]) ELSE NoBlocks
  <2>0. NoBlocks \in [Blocks -> Nat]
    BY DEF NoBlocks
  <2>1. CASE k \notin DOMAIN cf.class
    <3>1. class_items[k] \in ClassItem
      BY <2>1
    <3>2. class(k) = [class_items[k] EXCEPT !.active = k = "default"]
      BY <2>1
    <3> DEFINE marked == k = "default"
    <3>3. marked \in BOOLEAN
      OBVIOUS
    <3> HIDE DEF marked
    <3>4. [class_items[k] EXCEPT !.active = marked] \in ClassItem
      BY <3>1, <3>3 DEF ClassItem
    <3>5. LET c == [class_items[k] EXCEPT !.active = marked] IN
          /\ c.users = class_items[k].users /\ c.active = marked
          /\ c.limits = class_items[k].limits /\ c.cidr = class_items[k].cidr
      BY <3>1 DEF ClassItem
    <3>. QED  BY <2>1, <3>2, <3>4, <3>5 DEF marked
  <2>2. CASE k \in DOMAIN cf.class /\ k \in DOMAIN class_items
    <3>1. class_items[k] \in ClassItem /\ cf.class[k] \in Limits
      BY <1>1, <2>2
    <3> DEFINE cidr == RebuildCidr(k, class_items[k], cf.class[k])
    <3>2. class(k) = [limits |-> cf.class[k], active |-> TRUE,
                      users |-> class_items[k].users, cidr |-> cidr]
      BY <2>2 DEF Reread
    <3>3. cidr \in [Blocks -> Nat]
      <4>1. \A b : Cardinality({u \in AttachedTo(k) : place[u] = "local" /\ BlockOf(u, cf.class[k].bits) = b}) \in Nat
        <5>1. \A S : S \subseteq Client => Cardinality(S) \in Nat
          BY ConfAssumption, FS_Subset, FS_CardinalityType
        <5>. QED  BY <5>1 DEF AttachedTo
      <4>. QED  BY <2>0, <3>1, <4>1 DEF RebuildCidr, ClassItem
    <3> HIDE DEF cidr
    <3>4. class_items[k].users \in Nat
      BY <3>1 DEF ClassItem
    <3>5. [limits |-> cf.class[k], active |-> TRUE,
           users |-> class_items[k].users, cidr |-> cidr] \in ClassItem
      BY <3>1, <3>3, <3>4 DEF ClassItem
    <3> HIDE DEF class
    <3>. QED  BY <2>2, <3>2, <3>5 DEF cidr
  <2>3. CASE k \in DOMAIN cf.class /\ k \notin DOMAIN class_items
    <3>1. class(k) = [limits |-> cf.class[k], active |-> TRUE, users |-> 0, cidr |-> NoBlocks]
      BY <2>3 DEF Reread
    <3>2. [limits |-> cf.class[k], active |-> TRUE, users |-> 0, cidr |-> NoBlocks] \in ClassItem
      BY <1>1, <2>0, <2>3 DEF ClassItem
    <3> HIDE DEF class
    <3>. QED  BY <2>3, <3>1, <3>2
  <2>. QED  BY <2>1, <2>2, <2>3
<1>3. class_items' = [k \in DOMAIN cf.class \cup kept |-> class(k)]
  BY DEF ClassesAfter
<1> HIDE DEF class
<1>4. /\ DOMAIN class_items' = DOMAIN cf.class \cup kept
      /\ \A k \in DOMAIN class_items' : class_items'[k] = class(k)
  BY <1>3
<1>5. DOMAIN class_items' \subseteq ClassName
  BY <1>1, <1>4
<1>. QED  BY <1>2, <1>4, <1>5 DEF Reclassed

LEMMA RehashKeeps ==
    ASSUME ItemsInd, NEW cf \in Files, Reloaded(cf), Reclassed(cf),
           \A k \in DOMAIN class_items' :
             k \in skewed \/ (k \in DOMAIN cf.class /\ Misses(k, cf.class[k])) => k \in skewed',
           rehashes' = rehashes + 1, UNCHANGED <<confs, place>>
    PROVE  ItemsInd'
<1> USE DEF ItemsInd
<1>a. /\ \A v \in Client : confs[v] \subseteq DOMAIN conf_items
      /\ \A j \in DOMAIN conf_items : ClassOf(j) \in DOMAIN class_items
  BY DEF NothingDangles
<1>b. /\ DOMAIN conf_items' = Used \cup Made(cf)
      /\ \A j \in Used : j \in DOMAIN conf_items /\ conf_items[j].clients > 0 /\ ClassOf(j)' = ClassOf(j)
      /\ \A j \in Made(cf) : j.made = rehashes + 1 /\ ClassOf(j)' \in DOMAIN cf.class \cup {"default"}
      /\ \A j \in DOMAIN conf_items' : conf_items'[j] \in AccessItem
      /\ \A j \in DOMAIN conf_items' : conf_items'[j].illegal <=> j \in Used
  <2>1. \A j \in Made(cf) : ~conf_items'[j].illegal
    BY DEF Reloaded
  <2>2. \A j \in Used : conf_items'[j].illegal
    BY DEF Reloaded
  <2>. QED  BY <2>1, <2>2 DEF Reloaded, Used, ClassOf
<1>c. /\ DOMAIN class_items' \subseteq ClassName
      /\ \A k \in DOMAIN class_items' :
           /\ class_items'[k] \in ClassItem
           /\ class_items'[k].users = IF k \in DOMAIN class_items THEN class_items[k].users ELSE 0
           /\ class_items'[k].active <=> k \in DOMAIN cf.class \/ k = "default"
      /\ \A k \in DOMAIN class_items : class_items[k].users > 0 => k \in DOMAIN class_items'
      /\ \A k \in DOMAIN class_items' :
           k \in DOMAIN cf.class \/ (k \in DOMAIN class_items /\ (k = "default" \/ class_items[k].users > 0))
      /\ "default" \in DOMAIN class_items' /\ DOMAIN cf.class \subseteq DOMAIN class_items'
  BY DEF Reclassed, Current
<1>1. \A j : Holders(j)' = Holders(j)
  BY DEF Holders
<1>2. ASSUME NEW v \in Client, NEW j \in confs[v]
      PROVE  j \in Used /\ Users(ClassOf(j)) # {} /\ class_items[ClassOf(j)].users > 0
  <2>1. j \in DOMAIN conf_items /\ ClassOf(j) \in DOMAIN class_items /\ ClassOf(j) \in ClassName
    BY <1>a
  <2>2. IsFiniteSet(Holders(j)) /\ v \in Holders(j)
    BY HoldersFinite DEF Holders
  <2>3. conf_items[j].clients \in Nat \ {0}
    BY <2>1, <2>2, FS_CardinalityType, FS_EmptySet DEF UsesCounted
  <2>4. <<v, j>> \in Users(ClassOf(j)) /\ IsFiniteSet(Users(ClassOf(j)))
    BY <2>1, UsersDef DEF UsesAre, AllFinite
  <2>5. class_items[ClassOf(j)].users \in Nat \ {0}
    BY <2>1, <2>4, FS_CardinalityType, FS_EmptySet DEF UsesCounted
  <2>. QED  BY <2>1, <2>3, <2>4, <2>5 DEF Used
<1>3. ASSUME NEW k
      PROVE  Users(k)' = Users(k)
  <2>1. ASSUME NEW v \in Client, NEW j
        PROVE  <<v, j>> \in Users(k)' <=> <<v, j>> \in Users(k)
    <3>1. <<v, j>> \in Users(k)' <=> j \in confs[v] /\ ClassOf(j)' = k
      BY UsersDefNext DEF UsesAre
    <3>2. <<v, j>> \in Users(k) <=> j \in confs[v] /\ ClassOf(j) = k
      BY UsersDef DEF UsesAre
    <3>. QED  BY <1>b, <1>2, <3>1, <3>2
  <2>2. \A p \in Users(k)' : \E v \in Client : \E j : p = <<v, j>>
    BY UsersDefNext DEF UsesAre
  <2>3. \A p \in Users(k) : \E v \in Client : \E j : p = <<v, j>>
    BY UsersDef DEF UsesAre
  <2>. QED  BY <2>1, <2>2, <2>3
<1>4. \A k : k \notin DOMAIN class_items => Users(k) = {}
  <2> SUFFICES ASSUME NEW k, NEW p \in Users(k) PROVE k \in DOMAIN class_items
    OBVIOUS
  <2>1. PICK v \in Client : \E j \in confs[v] : ClassOf(j) = k
    BY UsersDef DEF UsesAre
  <2>. QED  BY <1>a, <2>1
<1>5. \A j \in Made(cf) : Holders(j) = {} /\ j \notin Used
  <2> SUFFICES ASSUME NEW j \in Made(cf) PROVE j \notin DOMAIN conf_items
    BY <1>a, <1>b DEF Holders
  <2>1. \A m \in DOMAIN conf_items : m.made <= rehashes
    BY DEF MadeBefore
  <2>. QED  BY <1>b, <2>1 DEF MadeBefore
<1>6. Current'
  <2>1. \A j \in DOMAIN conf_items' : ~conf_items'[j].illegal => j \in Made(cf)
    BY <1>b
  <2>. QED  BY <1>b, <1>c, <2>1 DEF Current
<1>7. MadeBefore'
  <2>1. \A j \in Used : j.made <= rehashes /\ j \in Item
    BY <1>b DEF MadeBefore
  <2>2. \A j \in Used : j.made <= rehashes + 1
    BY <2>1 DEF MadeBefore, Item
  <2>. QED  BY <1>b, <2>2 DEF MadeBefore
<1>8. OneIline' /\ AllFinite'
  <2>1. \A v \in Client : Iline(v)' = Iline(v)
    BY DEF Iline
  <2>. QED  BY <1>3, <2>1 DEF OneIline, AllFinite
<1>9. NothingDangles'
  <2>1. \A v \in Client : confs'[v] \subseteq DOMAIN conf_items'
    BY <1>b, <1>2
  <2>2. ASSUME NEW j \in Used PROVE ClassOf(j)' \in DOMAIN class_items'
    <3>1. j \in DOMAIN conf_items /\ conf_items[j].clients > 0
      BY <1>b
    <3>2. conf_items[j].clients = Cardinality(Holders(j))
      BY <3>1 DEF UsesCounted
    <3>3. Holders(j) # {}
      <4>1. Cardinality(Holders(j)) # 0
        BY <3>1, <3>2
      <4>. QED  BY <4>1, HoldersFinite, FS_EmptySet
    <3>4. PICK v \in Client : j \in confs[v]
      BY <3>3 DEF Holders
    <3>. QED  BY <1>a, <1>b, <1>c, <1>2, <3>1, <3>4
  <2>3. ASSUME NEW j \in Made(cf) PROVE ClassOf(j)' \in DOMAIN class_items'
    BY <1>b, <1>c
  <2>. QED  BY <1>b, <2>1, <2>2, <2>3 DEF NothingDangles
<1>10. UsesCounted'
  <2>1. ASSUME NEW j \in DOMAIN conf_items'
        PROVE  conf_items'[j].clients = Cardinality(Holders(j)')
    <3>1. CASE j \in Used
      <4>1. conf_items'[j].clients = conf_items[j].clients
        BY <3>1 DEF Reloaded
      <4>. QED  BY <1>b, <1>1, <3>1, <4>1 DEF UsesCounted
    <3>2. CASE j \in Made(cf)
      <4>1. conf_items'[j].clients = 0
        BY <3>2 DEF Reloaded
      <4>. QED  BY <1>1, <1>5, <3>2, <4>1, FS_EmptySet
    <3>. QED  BY <1>b, <3>1, <3>2
  <2>2. ASSUME NEW k \in DOMAIN class_items'
        PROVE  class_items'[k].users = Cardinality(Users(k)')
    BY <1>c, <1>3, <1>4, FS_EmptySet DEF UsesCounted
  <2>. QED  BY <2>1, <2>2 DEF UsesCounted
<1>11. NothingLeaks'
  <2>1. ASSUME NEW j \in Used PROVE Holders(j)' # {}
    <3>1. conf_items[j].clients > 0 /\ conf_items[j].clients = Cardinality(Holders(j))
      BY <1>b DEF UsesCounted
    <3>2. Holders(j) # {}
      <4>1. Cardinality(Holders(j)) # 0
        BY <3>1
      <4>. QED  BY <4>1, HoldersFinite, FS_EmptySet
    <3>. QED  BY <1>1, <3>2
  <2>2. ASSUME NEW k \in DOMAIN class_items', ~class_items'[k].active
        PROVE  Users(k)' # {}
    <3>1. k \in DOMAIN class_items /\ class_items[k].users > 0
      BY <1>c, <2>2
    <3>2. class_items[k].users = Cardinality(Users(k))
      BY <3>1 DEF UsesCounted
    <3>. QED  BY <1>3, <3>1, <3>2, FS_EmptySet
  <2>3. \A j \in DOMAIN conf_items' : conf_items'[j].illegal => j \in Used
    BY <1>b
  <2>. QED  BY <2>1, <2>2, <2>3 DEF NothingLeaks
<1>12. ASSUME NEW k PROVE AttachedTo(k)' = AttachedTo(k)
  <2>1. \A v \in Client : \A j \in Iline(v) : ClassOf(j)' = ClassOf(j)
    BY <1>b, <1>2 DEF Iline
  <2>2. \A v \in Client : Iline(v)' = Iline(v)
    BY DEF Iline
  <2>. QED  BY <2>1, <2>2 DEF AttachedTo
<1>13. CidrExact'
  <2> SUFFICES ASSUME NEW k \in DOMAIN class_items', k \notin skewed',
                      Counted(class_items'[k].limits), NEW b \in Blocks
               PROVE  class_items'[k].cidr[b] =
                        Cardinality({v \in AttachedTo(k)' : BlockOf(v, class_items'[k].limits.bits) = b})
    BY DEF CidrExact, BlockOf
  <2>1. \A v \in AttachedTo(k) : k \in DOMAIN class_items
    BY <1>a DEF AttachedTo, Iline
  <2>2. k \notin skewed
    OBVIOUS
  <2>3. CASE k \notin DOMAIN cf.class
    <3>1. /\ k \in DOMAIN class_items
          /\ class_items'[k].limits = class_items[k].limits
          /\ class_items'[k].cidr = class_items[k].cidr
      BY <1>c, <2>3 DEF Reclassed
    <3>. QED  BY <1>12, <2>2, <3>1 DEF CidrExact
  <2>4. CASE k \in DOMAIN cf.class /\ k \notin DOMAIN class_items
    <3>1. class_items'[k].cidr[b] = 0
      BY <2>4 DEF Reclassed, NoBlocks
    <3>2. AttachedTo(k)' = {}
      BY <1>12, <2>1, <2>4
    <3>3. {v \in AttachedTo(k)' : BlockOf(v, class_items'[k].limits.bits) = b} = {}
      BY <3>2
    <3>. QED  BY <3>1, <3>3, FS_EmptySet
  <2>5. CASE k \in DOMAIN cf.class /\ k \in DOMAIN class_items
    <3> DEFINE old == class_items[k].limits
               new == cf.class[k]
    <3>1. /\ class_items'[k].limits = new
          /\ class_items'[k].cidr = RebuildCidr(k, class_items[k], new)
      BY <2>5 DEF Reclassed
    <3>2. ~Misses(k, new)
      BY <2>5
    <3> HIDE DEF old, new
    <3>3. CASE ~Counted(old)
      <4>1. AttachedTo(k) = {}
        BY <2>5, <3>1, <3>2, <3>3 DEF Misses, old
      <4>2. class_items'[k].cidr[b] = 0
        BY <3>1, <3>3 DEF RebuildCidr, NoBlocks, old
      <4>3. AttachedTo(k)' = {}
        BY <1>12, <4>1
      <4>4. {v \in AttachedTo(k)' : BlockOf(v, class_items'[k].limits.bits) = b} = {}
        BY <4>3
      <4>. QED  BY <4>2, <4>4, FS_EmptySet
    <3>4. CASE Counted(old) /\ old.bits = new.bits
      <4>1. class_items'[k].cidr = class_items[k].cidr
        BY <3>1, <3>4 DEF RebuildCidr, old
      <4>2. class_items[k].cidr[b] = Cardinality({v \in AttachedTo(k) : BlockOf(v, old.bits) = b})
        BY <2>2, <2>5, <3>4 DEF CidrExact, old
      <4>. QED  BY <1>12, <3>1, <3>4, <4>1, <4>2
    <3>5. CASE Counted(old) /\ old.bits # new.bits
      <4>1. \A v \in AttachedTo(k) : place[v] = "local"
        BY <2>5, <3>1, <3>2, <3>5 DEF Misses, old
      <4>2. class_items'[k].cidr =
              [d \in Blocks |->
                 Cardinality({v \in AttachedTo(k) : place[v] = "local" /\ BlockOf(v, new.bits) = d})]
        BY <3>1, <3>5 DEF RebuildCidr, old
      <4>3. {v \in AttachedTo(k) : place[v] = "local" /\ BlockOf(v, new.bits) = b}
              = {v \in AttachedTo(k)' : BlockOf(v, new.bits) = b}
        BY <1>12, <4>1
      <4>. QED  BY <3>1, <4>2, <4>3
    <3>. QED  BY <3>3, <3>4, <3>5
  <2>. QED  BY <2>3, <2>4, <2>5
<1>14. DOMAIN conf_items' \subseteq Item
  <2>1. \A j \in Made(cf) : j \in Item
    BY DEF Reloaded
  <2>. QED  BY <1>b, <2>1
<1>. QED  BY <1>b, <1>c, <1>6, <1>7, <1>8, <1>9, <1>10, <1>11, <1>13, <1>14

-----------------------------------------------------------------------------
(* Where the clients are *)

\* Clients of address a that are counted for it.
Counts(a) == {u \in iphash : Ip[u] = a}

LEMMA CountsFinite ==
    ASSUME iphash \subseteq Client, NEW a
    PROVE  IsFiniteSet(Counts(a)) /\ Cardinality(Counts(a)) \in Nat
<1>1. Counts(a) \subseteq Client
  BY DEF Counts
<1>. QED  BY <1>1, ConfAssumption, FS_Subset, FS_CardinalityType

\* register_local_user: one client more for its address (add_one_ip).
LEMMA RegisterPlaces ==
    ASSUME PlacesInd, NEW u \in Client, NEW i, NEW to \in {"captured", "local"},
           place[u] = "out",
           confs' = [confs EXCEPT ![u] = @ \cup {i}],
           confs \in [Client -> SUBSET Item],
           place' = [place EXCEPT ![u] = to],
           iphash' = iphash \cup {u},
           ip_count' = [ip_count EXCEPT ![Ip[u]] = @ + 1]
    PROVE  PlacesInd'
<1> USE DEF PlacesInd
<1>1. place' \in [Client -> {"out", "captured", "local"}] /\ iphash' \subseteq Client
  OBVIOUS
<1>2. ASSUME NEW v \in Client, place'[v] = "out"
      PROVE  confs'[v] = {} /\ v \notin iphash'
  <2>1. v # u
    BY <1>2
  <2>. QED  BY <1>2, <2>1
<1>3. ASSUME NEW a \in DOMAIN ip_count
      PROVE  ip_count'[a] = Cardinality(Counts(a)')
  <2>1. /\ IsFiniteSet(Counts(a)) /\ Cardinality(Counts(a)) \in Nat
        /\ ip_count[a] = Cardinality(Counts(a)) /\ u \notin Counts(a)
    BY CountsFinite DEF AddressesCounted, Counts
  <2>2. Counts(a)' = IF a = Ip[u] THEN Counts(a) \cup {u} ELSE Counts(a)
    BY DEF Counts
  <2>3. Cardinality(Counts(a) \cup {u}) = Cardinality(Counts(a)) + 1
    BY <2>1, FS_AddElement
  <2>. QED  BY <2>1, <2>2, <2>3
<1>4. AddressesCounted'
  BY <1>3 DEF AddressesCounted, Counts
<1>. QED  BY <1>1, <1>2, <1>4

\* exit_client: one less, if it was counted (remove_one_ip).
LEMMA ExitPlaces ==
    ASSUME PlacesInd, NEW u \in Client,
           confs \in [Client -> SUBSET Item],
           confs' = [confs EXCEPT ![u] = @ \ confs[u]],
           place' = [place EXCEPT ![u] = "out"],
           iphash' = iphash \ {u},
           ip_count' = [ip_count EXCEPT ![Ip[u]] = IF u \in iphash THEN @ - 1 ELSE @]
    PROVE  PlacesInd'
<1> USE DEF PlacesInd
<1>1. place' \in [Client -> {"out", "captured", "local"}] /\ iphash' \subseteq Client
  OBVIOUS
<1>2. ASSUME NEW v \in Client, place'[v] = "out"
      PROVE  confs'[v] = {} /\ v \notin iphash'
  <2>1. CASE v = u
    BY <2>1
  <2>2. CASE v # u
    BY <1>2, <2>2
  <2>. QED  BY <2>1, <2>2
<1>3. ASSUME NEW a \in DOMAIN ip_count
      PROVE  ip_count'[a] = Cardinality(Counts(a)')
  <2>1. /\ IsFiniteSet(Counts(a)) /\ Cardinality(Counts(a)) \in Nat
        /\ ip_count[a] = Cardinality(Counts(a))
    BY CountsFinite DEF AddressesCounted, Counts
  <2>2. Counts(a)' = IF a = Ip[u] /\ u \in iphash THEN Counts(a) \ {u} ELSE Counts(a)
    BY DEF Counts
  <2>3. a = Ip[u] /\ u \in iphash => Cardinality(Counts(a) \ {u}) = Cardinality(Counts(a)) - 1
    BY <2>1, FS_RemoveElement DEF Counts
  <2>. QED  BY <2>1, <2>2, <2>3
<1>4. AddressesCounted'
  BY <1>3 DEF AddressesCounted, Counts
<1>. QED  BY <1>1, <1>2, <1>4

-----------------------------------------------------------------------------
(* The initial state and the steps *)

LEMMA ConfInitInd == ConfInit => ConfInd
<1> SUFFICES ASSUME ConfInit PROVE ConfInd
  OBVIOUS
<1> USE DEF ConfInit
<1>1. /\ DOMAIN class_items = {"default"} /\ DOMAIN conf_items = {}
      /\ class_items["default"] = [limits |-> DefaultClass, active |-> TRUE, users |-> 0, cidr |-> NoBlocks]
      /\ \A u \in Client : confs[u] = {}
  OBVIOUS
<1>2. \A k : Users(k) = {}
  BY <1>1, UsersDef DEF UsesAre
<1>3. class_items["default"] \in ClassItem
  <2>1. NoBlocks \in [Blocks -> Nat]
    BY DEF NoBlocks
  <2>. QED  BY <1>1, <2>1, ConfAssumption DEF ClassItem
<1>4. AllFinite /\ UsesCounted
  <2>1. class_items["default"].users = 0
    BY <1>1
  <2>. QED  BY <1>1, <1>2, <2>1, FS_EmptySet DEF AllFinite, UsesCounted
<1>5. Current /\ OneIline /\ MadeBefore /\ NothingDangles /\ NothingLeaks
  BY <1>1 DEF Current, OneIline, Iline, MadeBefore, NothingDangles, NothingLeaks
<1>6. CidrExact
  <2> SUFFICES ASSUME NEW b \in Blocks
               PROVE  class_items["default"].cidr[b] =
                 Cardinality({u \in AttachedTo("default") : BlockOf(u, class_items["default"].limits.bits) = b})
    BY <1>1 DEF CidrExact
  <2>1. AttachedTo("default") = {}
    BY <1>1 DEF AttachedTo, Iline
  <2>2. {u \in AttachedTo("default") : BlockOf(u, class_items["default"].limits.bits) = b} = {}
    BY <2>1
  <2>. QED  BY <1>1, <2>2, FS_EmptySet DEF NoBlocks
<1>7. ItemsInd
  BY <1>1, <1>3, <1>4, <1>5, <1>6, ConfAssumption DEF ItemsInd
<1>8. AddressesCounted
  <2>1. ASSUME NEW a \in DOMAIN ip_count PROVE ip_count[a] = Cardinality({u \in iphash : Ip[u] = a})
    <3>1. {u \in iphash : Ip[u] = a} = {}
      OBVIOUS
    <3>2. ip_count[a] = 0
      OBVIOUS
    <3>. QED  BY <3>1, <3>2, FS_EmptySet
  <2>. QED  BY <2>1 DEF AddressesCounted
<1>. QED  BY <1>1, <1>7, <1>8 DEF ConfInd, PlacesInd

\* Nothing of it is about the places.
LEMMA ItemsUnchanged ==
    ASSUME ItemsInd, UNCHANGED <<class_items, conf_items, confs, rehashes, skewed>>
    PROVE  ItemsInd'
<1>1. \A k : Users(k)' = Users(k)
  BY DEF Users, ClassOf
<1>2. \A u : Iline(u)' = Iline(u)
  BY DEF Iline
<1>3. \A k : AttachedTo(k)' = AttachedTo(k)
  BY <1>2 DEF AttachedTo, ClassOf
<1>4. CidrExact'
  BY <1>3 DEF ItemsInd, CidrExact, BlockOf
<1>5. Current' /\ MadeBefore' /\ OneIline' /\ AllFinite'
  BY <1>1, <1>2 DEF ItemsInd, Current, MadeBefore, OneIline, AllFinite, ClassOf
<1>6. NothingDangles' /\ NothingLeaks' /\ UsesCounted'
  BY <1>1 DEF ItemsInd, NothingDangles, NothingLeaks, UsesCounted, ClassOf, Holders
<1>. QED  BY <1>4, <1>5, <1>6 DEF ItemsInd

\* A client that is out holds nothing, so no auth{} item either.
LEMMA RegisterKeeps ==
    ASSUME ConfInd, NEW u \in Client, Register(u)
    PROVE  ConfInd'
<1>1. place[u] = "out" /\ confs[u] = {} /\ ItemsInd /\ PlacesInd /\ UNCHANGED <<rehashes, skewed>>
  BY DEF Register, ConfInd, PlacesInd
<1>2. CASE /\ place' = [place EXCEPT ![u] = "captured"]
           /\ UNCHANGED <<class_items, conf_items, confs, iphash, ip_count>>
  <2>1. ItemsInd'
    BY <1>1, <1>2, ItemsUnchanged
  <2>2. PlacesInd'
    BY <1>1, <1>2 DEF PlacesInd, AddressesCounted
  <2>. QED  BY <2>1, <2>2 DEF ConfInd
<1>3. CASE \E i \in FindAddressConf(u) :
             /\ Attach(u, i)
             /\ iphash' = iphash \cup {u}
             /\ ip_count' = [ip_count EXCEPT ![Ip[u]] = @ + 1]
             /\ \E to \in {"local", "captured"} : place' = [place EXCEPT ![u] = to]
  <2>1. PICK i \in FindAddressConf(u), to \in {"local", "captured"} :
             /\ Attach(u, i)
             /\ iphash' = iphash \cup {u}
             /\ ip_count' = [ip_count EXCEPT ![Ip[u]] = @ + 1]
             /\ place' = [place EXCEPT ![u] = to]
    BY <1>3
  <2>2. i \in DOMAIN conf_items /\ ~conf_items[i].illegal /\ i \notin confs[u] /\ Iline(u) = {}
    BY <1>1 DEF FindAddressConf, Iline
  <2>3. Attached(u, i)
    BY <1>1, <2>1, <2>2, AttachEffect
  <2>4. ItemsInd'
    BY <1>1, <2>2, <2>3, AttachKeeps
  <2>5. confs \in [Client -> SUBSET Item] /\ confs' = [confs EXCEPT ![u] = @ \cup {i}]
    BY <1>1, <2>1 DEF ItemsInd, Attach
  <2>6. PlacesInd'
    BY <1>1, <2>1, <2>5, RegisterPlaces
  <2>. QED  BY <2>4, <2>6 DEF ConfInd
<1>. QED  BY <1>2, <1>3 DEF Register

LEMMA OperKeeps ==
    ASSUME ConfInd, NEW u \in Client, Oper(u)
    PROVE  ConfInd'
<1>1. ItemsInd /\ PlacesInd /\ UNCHANGED <<place, iphash, ip_count, rehashes, skewed>>
  BY DEF Oper, ConfInd
<1>2. PICK i \in DOMAIN conf_items :
         ~conf_items[i].illegal /\ i.item.type = "oper" /\ Attach(u, i)
  BY DEF Oper
<1>3. i \notin confs[u] /\ place[u] = "local"
  BY <1>2 DEF Oper
<1>4. Attached(u, i)
  BY <1>1, <1>2, AttachEffect
<1>5. ItemsInd'
  <2>1. i.item.type = "client" => Iline(u) = {}
    BY <1>2
  <2>. QED  BY <1>1, <1>2, <1>3, <1>4, <2>1, AttachKeeps
<1>6. PlacesInd'
  <2>1. \A v \in Client : place[v] = "out" => confs'[v] = confs[v]
    BY <1>3, <1>4 DEF Attached
  <2>. QED  BY <1>1, <2>1 DEF PlacesInd, AddressesCounted
<1>. QED  BY <1>5, <1>6 DEF ConfInd

LEMMA DeoperKeeps ==
    ASSUME ConfInd, NEW u \in Client, Deoper(u)
    PROVE  ConfInd'
<1>1. ItemsInd /\ PlacesInd /\ UNCHANGED <<place, iphash, ip_count, rehashes>>
  BY DEF Deoper, ConfInd
<1> DEFINE S == confs[u] \ Iline(u)
<1>2. Detach(u, S) /\ S \in SUBSET confs[u]
  BY DEF Deoper
<1> HIDE DEF S
<1>3. Detached(u, S)
  BY <1>1, <1>2, DetachEffect
<1>4. ItemsInd'
  BY <1>1, <1>2, <1>3, DetachKeeps
<1>5. PlacesInd'
  <2>1. \A v \in Client : confs'[v] \subseteq confs[v]
    BY <1>3 DEF Detached
  <2>2. \A v \in Client : place[v] = "out" => confs'[v] = {}
    BY <1>1, <2>1 DEF PlacesInd
  <2>. QED  BY <1>1, <2>2 DEF PlacesInd, AddressesCounted
<1>. QED  BY <1>4, <1>5 DEF ConfInd

LEMMA ExitKeeps ==
    ASSUME ConfInd, NEW u \in Client, Exit(u)
    PROVE  ConfInd'
<1>1. ItemsInd /\ PlacesInd /\ rehashes' = rehashes /\ confs \in [Client -> SUBSET Item]
  BY DEF Exit, ConfInd, ItemsInd
<1>2. Detach(u, confs[u]) /\ confs[u] \in SUBSET confs[u]
  BY DEF Exit
<1>3. Detached(u, confs[u])
  BY <1>1, <1>2, DetachEffect
<1>4. ItemsInd'
  BY <1>1, <1>2, <1>3, DetachKeeps
<1>5. confs' = [confs EXCEPT ![u] = @ \ confs[u]]
  BY <1>2 DEF Detach
<1>6. PlacesInd'
  BY <1>1, <1>5, ExitPlaces DEF Exit
<1>. QED  BY <1>4, <1>6 DEF ConfInd

LEMMA RehashStepKeeps ==
    ASSUME ConfInd, Rehash
    PROVE  ConfInd'
<1>1. /\ ItemsInd /\ PlacesInd /\ rehashes < MaxRehash /\ rehashes' = rehashes + 1
      /\ UNCHANGED <<confs, place, iphash, ip_count>>
  BY DEF Rehash, ConfInd
<1>2. PICK cf \in Files :
         /\ class_items' = ClassesAfter(cf)
         /\ conf_items' = ItemsAfter(cf)
         /\ skewed' = (skewed \ {k \in skewed : k \notin DOMAIN ClassesAfter(cf)})
                      \cup {k \in DOMAIN cf.class : Misses(k, cf.class[k])}
  BY DEF Rehash
<1>3. Reloaded(cf) /\ Reclassed(cf)
  BY <1>1, <1>2, ItemsEffect, ClassesEffect
<1>4. \A k \in DOMAIN class_items' :
        k \in skewed \/ (k \in DOMAIN cf.class /\ Misses(k, cf.class[k])) => k \in skewed'
  BY <1>2
<1>5. ItemsInd'
  BY <1>1, <1>3, <1>4, RehashKeeps
<1>6. PlacesInd'
  BY <1>1 DEF PlacesInd, AddressesCounted
<1>. QED  BY <1>5, <1>6 DEF ConfInd

LEMMA ConfStepKeeps == ConfInd /\ [ConfNext]_confVars => ConfInd'
<1> SUFFICES ASSUME ConfInd, [ConfNext]_confVars PROVE ConfInd'
  OBVIOUS
<1>1. CASE \E u \in Client : Register(u) \/ Oper(u) \/ Deoper(u) \/ Exit(u)
  BY <1>1, RegisterKeeps, OperKeeps, DeoperKeeps, ExitKeeps
<1>2. CASE Rehash
  BY <1>2, RehashStepKeeps
<1>3. CASE UNCHANGED confVars
  <2>1. ItemsInd'
    BY <1>3, ItemsUnchanged DEF ConfInd, confVars
  <2>2. PlacesInd'
    BY <1>3 DEF ConfInd, PlacesInd, AddressesCounted, confVars
  <2>. QED  BY <2>1, <2>2 DEF ConfInd
<1>. QED  BY <1>1, <1>2, <1>3 DEF ConfNext

-----------------------------------------------------------------------------
(* The theorems *)

\* After any clients and any REHASHes (attach_conf, detach_conf,
\* clear_out_old_conf, check_class): the inductive invariant.
THEOREM ConfInvariant == ConfSpec => []ConfInd
<1>1. ConfInd /\ [ConfNext]_confVars => ConfInd'
  BY ConfStepKeeps
<1>. QED  BY ConfInitInd, <1>1, PTL DEF ConfSpec

\* Every item, class, client and count keeps its type, and no attach or REHASH
\* stores an item that cannot be (conf.h's AccessItem and ClassItem).
THEOREM ConfTypes == ConfSpec => []ConfTypeOK
BY ConfInvariant, IndIsEnough, PTL

\* No item and no class is freed under a client that is attached to it or kept
\* with none, and the counts behind the limits are the clients there are
\* (attach_conf, detach_conf, clear_out_old_conf, check_class).
THEOREM CountsAreExact == ConfSpec => []ConfInv
BY ConfInvariant, IndIsEnough, PTL

\* So is the count of each CIDR block, but in the classes whose list a REHASH
\* started without their clients (cidr_limit_reached, remove_from_cidr_check,
\* rebuild_cidr_class).
THEOREM BlocksAreExact == ConfSpec => []CidrExact
BY ConfInvariant, IndIsEnough, PTL

-----------------------------------------------------------------------------
(* What a channel remembers of bans.                                       *)

BanInv == BanTypeOK /\ CacheFresh

\* A membership that forgot remembers nothing (clear_ban_cache).
LEMMA ForgottenType ==
    ASSUME NEW ms \in Membership \cup {NONE}
    PROVE  /\ Forgotten(ms) \in Membership \cup {NONE}
           /\ Forgotten(ms) # NONE => ~Forgotten(ms).checked /\ ~Forgotten(ms).silenced
BY DEF Forgotten, Membership

\* can_send asks is_banned or keeps what it knows.
LEMMA CanSendType ==
    ASSUME BanTypeOK, NEW ch \in Channel, NEW u \in Member
    PROVE  /\ AfterCanSend(ch, u) \in Membership \cup {NONE}
           /\ AfterCanSend(ch, u) = NONE <=> flags[ch][u] = NONE
           /\ AfterCanSend(ch, u) # flags[ch][u] =>
                /\ AfterCanSend(ch, u).checked
                /\ AfterCanSend(ch, u).silenced = IsBanned(ch, u)
<1> DEFINE ms == flags[ch][u]
<1>1. ms \in Membership \cup {NONE}
  BY DEF BanTypeOK
<1>2. IsBanned(ch, u) \in BOOLEAN
  BY DEF IsBanned
<1>3. CASE ms = NONE \/ ms.voiced \/ ~quiet_on_ban \/ ms.checked
  BY <1>1, <1>3 DEF AfterCanSend
<1>4. CASE ~(ms = NONE \/ ms.voiced \/ ~quiet_on_ban \/ ms.checked)
  <2>1. AfterCanSend(ch, u) = [ms EXCEPT !.checked = TRUE, !.silenced = IsBanned(ch, u)]
    BY <1>4 DEF AfterCanSend
  <2>2. ms \in Membership
    BY <1>1, <1>4
  <2>3. [ms EXCEPT !.checked = TRUE, !.silenced = IsBanned(ch, u)] \in Membership
    BY <1>2, <2>2 DEF Membership
  <2> HIDE DEF ms
  <2>4. /\ AfterCanSend(ch, u).checked = TRUE
        /\ AfterCanSend(ch, u).silenced = IsBanned(ch, u)
    BY <2>1, <2>2 DEF Membership
  <2>. QED  BY <1>4, <2>1, <2>3, <2>4, BanAssumption DEF ms
<1>. QED  BY <1>3, <1>4

\* The membership of c and v is as it was, or remembers nothing, or was checked
\* just now: in each case it is fresh, unless what it rests on changed.
LEMMA StaysFresh ==
    ASSUME BanInv, NEW c \in Channel, NEW v \in Member,
           flags'[c][v] # NONE, <<c, v>> \notin aged',
           \/ /\ flags'[c][v] = flags[c][v]
              /\ <<c, v>> \notin aged /\ IsBanned(c, v)' = IsBanned(c, v)
           \/ ~flags'[c][v].checked /\ ~flags'[c][v].silenced
           \/ /\ flags'[c][v].checked
              /\ flags'[c][v].silenced = IsBanned(c, v)'
    PROVE  /\ flags'[c][v].checked => flags'[c][v].silenced = IsBanned(c, v)'
           /\ flags'[c][v].silenced => flags'[c][v].checked
BY Zenon DEF BanInv, CacheFresh

\* Type and freshness hold when nobody is on a channel, and every operation
\* keeps them.
LEMMA BanInitial == BanInit => BanInv
<1> SUFFICES ASSUME BanInit PROVE BanInv
  OBVIOUS
<1>1. BanTypeOK
  BY DEF BanInit, BanTypeOK
<1>2. CacheFresh
  BY DEF BanInit, CacheFresh
<1>. QED  BY <1>1, <1>2 DEF BanInv

LEMMA BanStep == BanInv /\ [BanNext]_banVars => BanInv'
<1> SUFFICES ASSUME BanInv, [BanNext]_banVars PROVE BanInv'
  OBVIOUS
<1> USE BanAssumption
<1>t. BanTypeOK /\ CacheFresh
  BY DEF BanInv
<1>1. ASSUME NEW ch \in Channel, NEW u \in Member, Join(ch, u)
      PROVE  BanInv'
  <2> DEFINE new == [voiced |-> FALSE, checked |-> FALSE, silenced |-> FALSE]
  <2>1. BanTypeOK'
    <3>1. new \in Membership
      BY DEF Membership
    <3>. QED  BY <1>t, <1>1, <3>1 DEF Join, BanTypeOK, lists, settings
  <2>2. ASSUME NEW c \in Channel, NEW v \in Member,
               flags'[c][v] # NONE, <<c, v>> \notin aged'
        PROVE  /\ flags'[c][v].checked => flags'[c][v].silenced = IsBanned(c, v)'
               /\ flags'[c][v].silenced => flags'[c][v].checked
    <3>1. CASE c = ch /\ v = u
      <4>1. flags'[c][v] = new
        BY <1>t, <1>1, <3>1 DEF Join, BanTypeOK
      <4>. QED  BY <4>1
    <3>2. CASE ~(c = ch /\ v = u)
      <4>1. flags'[c][v] = flags[c][v] /\ <<c, v>> \notin aged
        BY <1>t, <1>1, <2>2, <3>2 DEF Join, BanTypeOK
      <4>2. IsBanned(c, v)' = IsBanned(c, v)
        BY <1>1 DEF Join, IsBanned, lists, settings
      <4>. QED  BY <2>2, <4>1, <4>2, StaysFresh
    <3>. QED  BY <3>1, <3>2
  <2>. QED  BY <2>1, <2>2 DEF BanInv, CacheFresh
<1>2. ASSUME NEW ch \in Channel, NEW u \in Member, Part(ch, u) \/ Voice(ch, u) \/ Speak(ch, u)
      PROVE  BanInv'
  <2>1. BanTypeOK'
    <3>1. CASE Part(ch, u)
      BY <1>t, <3>1 DEF Part, BanTypeOK, lists, settings
    <3>2. CASE Voice(ch, u)
      <4>1. flags[ch][u] \in Membership
        BY <1>t, <3>2 DEF Voice, BanTypeOK
      <4>2. [flags[ch][u] EXCEPT !.voiced = ~@] \in Membership
        BY <4>1 DEF Membership
      <4>3. flags' = [flags EXCEPT ![ch] = [flags[ch] EXCEPT ![u] = [flags[ch][u] EXCEPT !.voiced = ~@]]]
        BY <3>2 DEF Voice
      <4>. QED  BY <1>t, <3>2, <4>2, <4>3 DEF Voice, BanTypeOK, lists, settings
    <3>3. CASE Speak(ch, u)
      <4>1. AfterCanSend(ch, u) \in Membership \cup {NONE}
        BY <1>t, CanSendType
      <4>. QED  BY <1>t, <3>3, <4>1 DEF Speak, BanTypeOK, lists, settings
    <3>. QED  BY <1>2, <3>1, <3>2, <3>3
  <2>2. ASSUME NEW c \in Channel, NEW v \in Member,
               flags'[c][v] # NONE, <<c, v>> \notin aged'
        PROVE  /\ flags'[c][v].checked => flags'[c][v].silenced = IsBanned(c, v)'
               /\ flags'[c][v].silenced => flags'[c][v].checked
    <3>1. IsBanned(c, v)' = IsBanned(c, v) /\ aged' = aged
      BY <1>2 DEF Part, Voice, Speak, IsBanned, lists, settings
    <3>2. CASE ~(c = ch /\ v = u)
      <4>1. flags'[c][v] = flags[c][v]
        BY <1>t, <1>2, <3>2 DEF Part, Voice, Speak, BanTypeOK
      <4>. QED  BY <2>2, <3>1, <4>1, StaysFresh
    <3>3. CASE c = ch /\ v = u /\ Part(ch, u)
      BY <1>t, <2>2, <3>3 DEF Part, BanTypeOK
    <3>4. CASE c = ch /\ v = u /\ Voice(ch, u)
      <4>1. flags[c][v] \in Membership
        BY <1>t, <3>4 DEF Voice, BanTypeOK
      <4>2. /\ flags'[c][v].checked = flags[c][v].checked
            /\ flags'[c][v].silenced = flags[c][v].silenced
        BY <1>t, <3>4, <4>1 DEF Voice, BanTypeOK, Membership
      <4>3. flags[c][v] # NONE
        BY <3>4 DEF Voice
      <4>. QED  BY <1>t, <2>2, <3>1, <4>2, <4>3 DEF CacheFresh
    <3>5. CASE c = ch /\ v = u /\ Speak(ch, u)
      <4>1. flags'[c][v] = AfterCanSend(c, v)
        BY <1>t, <3>5 DEF Speak, BanTypeOK
      <4>2. \/ flags'[c][v] = flags[c][v]
            \/ flags'[c][v].checked /\ flags'[c][v].silenced = IsBanned(c, v)
        BY <1>t, <4>1, CanSendType
      <4>. QED  BY <2>2, <3>1, <4>2, StaysFresh
    <3>. QED  BY <1>2, <3>2, <3>3, <3>4, <3>5
  <2>. QED  BY <2>1, <2>2 DEF BanInv, CacheFresh
<1>3. ASSUME NEW ch \in Channel, ClearBanCache(ch),
             banlist' \in [Channel -> SUBSET BanMask],
             exceptlist' \in [Channel -> SUBSET ExceptMask],
             \A c \in Channel \ {ch} : banlist'[c] = banlist[c] /\ exceptlist'[c] = exceptlist[c],
             UNCHANGED <<nick, host, settings>>
      PROVE  BanInv'
  <2>1. BanTypeOK'
    <3>1. \A v \in Member : Forgotten(flags[ch][v]) \in Membership \cup {NONE}
      BY <1>t, ForgottenType DEF BanTypeOK
    <3>. QED  BY <1>t, <1>3, <3>1 DEF ClearBanCache, BanTypeOK, settings
  <2>2. ASSUME NEW c \in Channel, NEW v \in Member,
               flags'[c][v] # NONE, <<c, v>> \notin aged'
        PROVE  /\ flags'[c][v].checked => flags'[c][v].silenced = IsBanned(c, v)'
               /\ flags'[c][v].silenced => flags'[c][v].checked
    <3>1. CASE c = ch
      <4>1. flags'[c][v] = Forgotten(flags[c][v]) /\ flags[c][v] \in Membership \cup {NONE}
        BY <1>t, <1>3, <3>1 DEF ClearBanCache, BanTypeOK
      <4>. QED  BY <2>2, <4>1, ForgottenType
    <3>2. CASE c # ch
      <4>1. flags'[c][v] = flags[c][v] /\ <<c, v>> \notin aged
        BY <1>t, <1>3, <2>2, <3>2 DEF ClearBanCache, BanTypeOK
      <4>2. IsBanned(c, v)' = IsBanned(c, v)
        BY <1>3, <3>2 DEF IsBanned, settings
      <4>. QED  BY <2>2, <4>1, <4>2, StaysFresh
    <3>. QED  BY <3>1, <3>2
  <2>. QED  BY <2>1, <2>2 DEF BanInv, CacheFresh
<1>4. ASSUME NEW ch \in Channel, NEW mask \in BanMask, SetBan(ch, mask)
      PROVE  BanInv'
  <2>1. /\ banlist' \in [Channel -> SUBSET BanMask]
        /\ \A c \in Channel \ {ch} : banlist'[c] = banlist[c]
    BY <1>t, <1>4 DEF SetBan, BanTypeOK
  <2>. QED  BY <1>t, <1>3, <1>4, <2>1 DEF SetBan, BanTypeOK
<1>5. ASSUME NEW ch \in Channel, NEW mask \in ExceptMask, SetExcept(ch, mask)
      PROVE  BanInv'
  <2>1. /\ exceptlist' \in [Channel -> SUBSET ExceptMask]
        /\ \A c \in Channel \ {ch} : exceptlist'[c] = exceptlist[c]
    BY <1>t, <1>5 DEF SetExcept, BanTypeOK
  <2>. QED  BY <1>t, <1>3, <1>5, <2>1 DEF SetExcept, BanTypeOK
<1>6. ASSUME NEW ch \in Channel, WipeLists(ch)
      PROVE  BanInv'
  BY <1>t, <1>3, <1>6 DEF WipeLists, BanTypeOK
<1>7. ASSUME NEW u \in Member, ClearBanCacheClient(flags, u),
             nick' \in [Member -> NickName],
             \A v \in Member \ {u} : nick'[v] = nick[v],
             UNCHANGED <<lists, host, settings>>
      PROVE  BanInv'
  <2>1. BanTypeOK'
    <3>1. \A c \in Channel : Forgotten(flags[c][u]) \in Membership \cup {NONE}
      BY <1>t, ForgottenType DEF BanTypeOK
    <3>. QED  BY <1>t, <1>7, <3>1 DEF ClearBanCacheClient, BanTypeOK, lists, settings
  <2>2. ASSUME NEW c \in Channel, NEW v \in Member,
               flags'[c][v] # NONE, <<c, v>> \notin aged'
        PROVE  /\ flags'[c][v].checked => flags'[c][v].silenced = IsBanned(c, v)'
               /\ flags'[c][v].silenced => flags'[c][v].checked
    <3>1. CASE v = u
      <4>1. flags'[c][v] = Forgotten(flags[c][v]) /\ flags[c][v] \in Membership \cup {NONE}
        BY <1>t, <1>7, <3>1 DEF ClearBanCacheClient, BanTypeOK
      <4>. QED  BY <2>2, <4>1, ForgottenType
    <3>2. CASE v # u
      <4>1. flags'[c][v] = flags[c][v] /\ <<c, v>> \notin aged
        BY <1>t, <1>7, <2>2, <3>2 DEF ClearBanCacheClient, BanTypeOK
      <4>2. IsBanned(c, v)' = IsBanned(c, v)
        BY <1>7, <3>2 DEF IsBanned, lists, settings
      <4>. QED  BY <2>2, <4>1, <4>2, StaysFresh
    <3>. QED  BY <3>1, <3>2
  <2>. QED  BY <2>1, <2>2 DEF BanInv, CacheFresh
<1>8. ASSUME NEW u \in Member, NEW new \in NickName, ForceNick(u, new)
      PROVE  BanInv'
  BY <1>t, <1>7, <1>8 DEF ForceNick, BanTypeOK
<1>9. ASSUME NEW u \in Member, NEW new \in NickName, ChangeLocalNick(u, new)
      PROVE  BanInv'
  <2>1. CASE nick' = [nick EXCEPT ![u] = new] /\ ClearBanCacheClient(flags, u)
    BY <1>t, <1>7, <1>9, <2>1 DEF ChangeLocalNick, BanTypeOK
  <2>2. ASSUME NEW T \in SUBSET Channel, UNCHANGED <<nick, aged>>,
               flags' = [ch \in Channel |-> [flags[ch] EXCEPT ![u] =
                           IF ch \in T THEN AfterCanSend(ch, u) ELSE @]]
        PROVE  BanInv'
    <3>1. BanTypeOK'
      <4>1. \A ch \in Channel : AfterCanSend(ch, u) \in Membership \cup {NONE}
        BY <1>t, CanSendType
      <4>2. \A ch \in Channel :
              [flags[ch] EXCEPT ![u] = IF ch \in T THEN AfterCanSend(ch, u) ELSE @]
                \in [Member -> Membership \cup {NONE}]
        BY <1>t, <4>1 DEF BanTypeOK
      <4>3. flags' \in [Channel -> [Member -> Membership \cup {NONE}]]
        BY <2>2, <4>2
      <4>. QED  BY <1>t, <1>9, <2>2, <4>3 DEF ChangeLocalNick, BanTypeOK, lists, settings
    <3>2. ASSUME NEW c \in Channel, NEW v \in Member,
                 flags'[c][v] # NONE, <<c, v>> \notin aged'
          PROVE  /\ flags'[c][v].checked => flags'[c][v].silenced = IsBanned(c, v)'
                 /\ flags'[c][v].silenced => flags'[c][v].checked
      <4>1. IsBanned(c, v)' = IsBanned(c, v) /\ aged' = aged
        BY <1>9, <2>2 DEF ChangeLocalNick, IsBanned, lists, settings
      <4>2. CASE v = u /\ c \in T
        <5>1. flags'[c][v] = AfterCanSend(c, v)
          BY <1>t, <2>2, <4>2 DEF BanTypeOK
        <5>2. \/ flags'[c][v] = flags[c][v]
              \/ flags'[c][v].checked /\ flags'[c][v].silenced = IsBanned(c, v)
          BY <1>t, <5>1, CanSendType
        <5>. QED  BY <3>2, <4>1, <5>2, StaysFresh
      <4>3. CASE ~(v = u /\ c \in T)
        <5>1. flags'[c][v] = flags[c][v]
          BY <1>t, <2>2, <4>3 DEF BanTypeOK
        <5>. QED  BY <3>2, <4>1, <5>1, StaysFresh
      <4>. QED  BY <4>2, <4>3
    <3>. QED  BY <3>1, <3>2 DEF BanInv, CacheFresh
  <2>3. ASSUME NEW ch \in OnChannel(u), NEW Q \in SUBSET OnChannel(u),
               UNCHANGED <<nick, aged>>,
               flags' = [c \in Channel |-> [flags[c] EXCEPT ![u] =
                           IF c \in Q \cup {ch} THEN AfterCanSend(c, u) ELSE @]]
        PROVE  BanInv'
    <3> DEFINE T == Q \cup {ch}
    <3>1. T \in SUBSET Channel
      BY DEF OnChannel
    <3> HIDE DEF T
    <3>2. flags' = [c \in Channel |-> [flags[c] EXCEPT ![u] =
                      IF c \in T THEN AfterCanSend(c, u) ELSE @]]
      BY <2>3 DEF T
    <3>. QED  BY <2>2, <2>3, <3>1, <3>2
  <2>. QED  BY <1>9, <2>1, <2>3 DEF ChangeLocalNick
<1>10. ASSUME NEW u \in Member, NEW new \in HostName, ChangeHost(u, new)
       PROVE  BanInv'
  <2>1. BanTypeOK'
    BY <1>t, <1>10 DEF ChangeHost, BanTypeOK, OnChannel, lists, settings
  <2>2. ASSUME NEW c \in Channel, NEW v \in Member,
               flags'[c][v] # NONE, <<c, v>> \notin aged'
        PROVE  /\ flags'[c][v].checked => flags'[c][v].silenced = IsBanned(c, v)'
               /\ flags'[c][v].silenced => flags'[c][v].checked
    <3>1. flags' = flags /\ <<c, v>> \notin aged
      BY <1>10, <2>2 DEF ChangeHost
    <3>2. v # u
      BY <1>10, <2>2, <3>1 DEF ChangeHost, OnChannel
    <3>3. IsBanned(c, v)' = IsBanned(c, v)
      BY <1>t, <1>10, <3>2 DEF ChangeHost, IsBanned, BanTypeOK, lists, settings
    <3>. QED  BY <2>2, <3>1, <3>3, StaysFresh
  <2>. QED  BY <2>1, <2>2 DEF BanInv, CacheFresh
<1>11. ASSUME RehashChannel PROVE BanInv'
  <2>1. BanTypeOK'
    BY <1>t, <1>11 DEF RehashChannel, BanTypeOK, lists, settings
  <2>2. ASSUME NEW c \in Channel, NEW v \in Member,
               flags'[c][v] # NONE, <<c, v>> \notin aged'
        PROVE  /\ flags'[c][v].checked => flags'[c][v].silenced = IsBanned(c, v)'
               /\ flags'[c][v].silenced => flags'[c][v].checked
    <3>1. flags' = flags /\ use_except' = use_except /\ aged' = aged
      BY <1>11, <2>2 DEF RehashChannel
    <3>2. IsBanned(c, v)' = IsBanned(c, v)
      BY <1>11, <3>1 DEF RehashChannel, IsBanned, lists
    <3>. QED  BY <2>2, <3>1, <3>2, StaysFresh
  <2>. QED  BY <2>1, <2>2 DEF BanInv, CacheFresh
<1>12. CASE UNCHANGED banVars
  <2>1. BanTypeOK'
    BY <1>t, <1>12 DEF banVars, BanTypeOK, settings
  <2>2. CacheFresh'
    BY <1>t, <1>12 DEF banVars, CacheFresh, IsBanned
  <2>. QED  BY <2>1, <2>2 DEF BanInv
<1>. QED
  BY <1>1, <1>2, <1>4, <1>5, <1>6, <1>8, <1>9, <1>10, <1>11, <1>12 DEF BanNext

\* Type and freshness, which are inductive together, hold in every behaviour.
THEOREM BansInvariant == BanSpec => []BanInv
BY BanInitial, BanStep, PTL DEF BanSpec

\* What the flags of a member say of bans is what the lists say, unless its host
\* or use_except changed since (can_send, clear_ban_cache,
\* clear_ban_cache_client).
THEOREM CacheIsFresh == BanSpec => []CacheFresh
BY BansInvariant, PTL DEF BanInv

-----------------------------------------------------------------------------
(* Bans and their files.                                                   *)

\* remove_conf_line copies a file line by line: what is copied is what is not m.
LEMMA WithoutValues ==
    ASSUME NEW listed \in Seq(Mask), NEW m
    PROVE  /\ Without(listed, m) \in Seq(Mask)
           /\ ToSet(Without(listed, m)) = ToSet(listed) \ {m}
<1> DEFINE N == Len(listed)
           Copies == Seq(Mask)
           Nil == <<>>
           Step(x, i) == IF listed[i] = m THEN x ELSE Append(x, listed[i])
           Copied(g) == [i \in 0..N |->
                           IF i = 0 THEN <<>>
                           ELSE IF listed[i] = m THEN g[i - 1]
                           ELSE Append(g[i - 1], listed[i])]
           copied == CHOOSE g : g = Copied(g)
           G == [i \in 1..N |-> [x \in Copies |-> Step(x, i)]]
<1>1. N \in Nat /\ \A i \in 1..N : listed[i] \in Mask
  OBVIOUS
<1>2. Without(listed, m) = copied[N]
  BY DEF Without
<1>3. \A x \in Copies, i \in 1..N : Step(x, i) \in Copies
  BY <1>1
<1>4. G \in [1..N -> [Copies -> Copies]]
  <2> HIDE DEF Step, Copies
  <2> QED
    BY <1>3
<1>5. Nil \in Copies
  OBVIOUS
<1>6. PICK f : f \in [0..N -> Copies] /\ f[0] = Nil /\ \A i \in 1..N : f[i] = G[i][f[i - 1]]
  <2> HIDE DEF G, N, Copies, Nil
  <2>1. PICK f : IsRun(f, N, Copies, Nil, G)
    BY <1>1, <1>4, <1>5, LoopExists
  <2> QED
    BY <2>1 DEF IsRun
<1>7. \A i \in 1..N : f[i] = Step(f[i - 1], i)
  <2> HIDE DEF Step, Copies
  <2>1. \A i \in 1..N : i - 1 \in 0..N
    BY <1>1
  <2> QED
    BY <1>6, <2>1
<1>8. f = Copied(f)
  <2> HIDE DEF N, Copies
  <2>1. f[0] = Copied(f)[0]
    BY <1>1, <1>6
  <2>2. ASSUME NEW i \in 1..N
        PROVE  f[i] = Copied(f)[i]
    <3>1. i \in 0..N /\ i # 0
      BY <1>1
    <3>2. Copied(f)[i] = Step(f[i - 1], i)
      BY <3>1
    <3> QED
      BY <1>7, <3>2
  <2>3. \A i \in 0..N : i = 0 \/ i \in 1..N
    BY <1>1
  <2>4. \A i \in 0..N : f[i] = Copied(f)[i]
    BY <2>1, <2>2, <2>3
  <2> HIDE DEF N, Copies, Step, Nil
  <2> QED
    BY <1>6, <2>4
<1>9. copied = Copied(copied)
  <2> HIDE DEF Copied
  <2> QED
    BY <1>8
<1> HIDE DEF copied
<1>10. copied[0] = <<>> /\ \A i \in 1..N : copied[i] = Step(copied[i - 1], i)
  <2>1. \A i \in 0..N : copied[i] = Copied(copied)[i]
    BY <1>9
  <2> QED
    BY <1>1, <2>1
<1> DEFINE S == {n \in 0..N : /\ copied[n] \in Seq(Mask)
                              /\ ToSet(copied[n]) = {listed[i] : i \in 1..n} \ {m}}
<1> HIDE DEF Copied, N
<1>11. 0 \in S
  <2>3. copied[0] \in Seq(Mask) /\ 0 \in 0..N
    BY <1>1, <1>10
  <2>1. ToSet(<<>>) = {}
    BY DEF ToSet
  <2>2. {listed[i] : i \in 1..0} = {}
    OBVIOUS
  <2> QED
    BY <1>10, <2>1, <2>2, <2>3
<1>12. ASSUME NEW n \in 1..N, n - 1 \in S
      PROVE  n \in S
  <2>1. copied[n - 1] \in Seq(Mask) /\ ToSet(copied[n - 1]) = {listed[i] : i \in 1..(n - 1)} \ {m}
    BY <1>12
  <2>2. {listed[i] : i \in 1..n} = {listed[i] : i \in 1..(n - 1)} \cup {listed[n]}
    BY <1>1
  <2>3. CASE listed[n] = m
    <3>1. copied[n] = copied[n - 1]
      BY <1>10, <2>3
    <3>2. ToSet(copied[n]) = {listed[i] : i \in 1..n} \ {m}
      BY <2>1, <2>2, <2>3, <3>1
    <3> QED
      BY <1>1, <2>1, <3>1, <3>2
  <2>4. CASE listed[n] # m
    <3>1. copied[n] = Append(copied[n - 1], listed[n]) /\ listed[n] \in Mask
      BY <1>1, <1>10, <2>4
    <3>2. ToSet(Append(copied[n - 1], listed[n])) = ToSet(copied[n - 1]) \cup {listed[n]}
      <4> DEFINE s == copied[n - 1]
      <4> HIDE DEF s
      <4>1. s \in Seq(Mask) /\ listed[n] \in Mask
        BY <2>1, <3>1 DEF s
      <4>2. ASSUME NEW e \in Mask
            PROVE  {Append(s, e)[i] : i \in 1..(Len(s) + 1)} = {s[i] : i \in 1..Len(s)} \cup {e}
        BY <4>1
      <4>3. ToSet(Append(s, listed[n])) = ToSet(s) \cup {listed[n]}
        <5>1. Len(Append(s, listed[n])) = Len(s) + 1 /\ DOMAIN Append(s, listed[n]) = 1..(Len(s) + 1)
          BY <4>1
        <5>2. DOMAIN s = 1..Len(s)
          BY <4>1
        <5> QED
          BY <4>1, <4>2, <5>1, <5>2 DEF ToSet
      <4> QED
        BY <4>3 DEF s
    <3>3. copied[n] \in Seq(Mask)
      BY <3>1, <2>1
    <3>4. ToSet(copied[n]) = {listed[i] : i \in 1..n} \ {m}
      BY <2>1, <2>2, <2>4, <3>1, <3>2
    <3> QED
      BY <1>1, <3>3, <3>4
  <2> QED
    BY <2>3, <2>4
<1>13. N \in S
  <2> HIDE DEF S
  <2>1. \A n \in 0..N : n \in S
    BY <1>1, <1>11, <1>12, BoundedInduction
  <2> QED
    BY <1>1, <2>1
<1>14. ToSet(listed) = {listed[i] : i \in 1..N}
  BY DEF ToSet, N
<1> QED
  BY <1>2, <1>13, <1>14

\* create_nick_resv, create_channel_resv: of the RESVs of a file those are created
\* that none before matches, so that each is matched by one that is there.
ConfMasks(t) == {c[2] : c \in {d \in ConfResv : d[1] = t}}

LEMMA CreatedValues ==
    ASSUME NEW t \in ResvType, NEW listed \in Seq(Mask)
    PROVE  /\ Created(t, listed) \subseteq ToSet(listed) \ ConfMasks(t)
           /\ \A m \in ToSet(listed) :
                \E n \in Created(t, listed) \cup ConfMasks(t) : Same(t, n, m)
<1> DEFINE N == Len(listed)
           Sets == SUBSET Mask
           Nil == ConfMasks(t)
           Step(x, i) == IF \E n \in x : Same(t, n, listed[i]) THEN x ELSE x \cup {listed[i]}
           Presents(g) == [i \in 0..N |->
                             IF i = 0 THEN {c[2] : c \in {d \in ConfResv : d[1] = t}}
                             ELSE IF \E n \in g[i - 1] : Same(t, n, listed[i]) THEN g[i - 1]
                             ELSE g[i - 1] \cup {listed[i]}]
           present == CHOOSE g : g = Presents(g)
           G == [i \in 1..N |-> [x \in Sets |-> Step(x, i)]]
<1>1. N \in Nat /\ \A i \in 1..N : listed[i] \in Mask
  OBVIOUS
<1>2. Created(t, listed) = present[N] \ ConfMasks(t)
  BY DEF Created, ConfMasks
<1>3. \A x \in Sets, i \in 1..N : Step(x, i) \in Sets
  BY <1>1
<1>4. G \in [1..N -> [Sets -> Sets]]
  <2> HIDE DEF Step, Sets
  <2> QED
    BY <1>3
<1>5. Nil \in Sets
  BY LineAssumption DEF ConfMasks
<1>6. PICK f : f \in [0..N -> Sets] /\ f[0] = Nil /\ \A i \in 1..N : f[i] = G[i][f[i - 1]]
  <2> HIDE DEF G, N, Sets, Nil
  <2>1. PICK f : IsRun(f, N, Sets, Nil, G)
    BY <1>1, <1>4, <1>5, LoopExists
  <2> QED
    BY <2>1 DEF IsRun
<1>7. \A i \in 1..N : f[i] = Step(f[i - 1], i)
  <2> HIDE DEF Step, Sets
  <2>1. \A i \in 1..N : i - 1 \in 0..N
    BY <1>1
  <2> QED
    BY <1>6, <2>1
<1>8. f = Presents(f)
  <2> HIDE DEF N, Sets
  <2>1. f[0] = Presents(f)[0]
    BY <1>1, <1>6 DEF ConfMasks
  <2>2. ASSUME NEW i \in 1..N
        PROVE  f[i] = Presents(f)[i]
    <3>1. i \in 0..N /\ i # 0
      BY <1>1
    <3>2. Presents(f)[i] = Step(f[i - 1], i)
      BY <3>1
    <3> QED
      BY <1>7, <3>2
  <2>3. \A i \in 0..N : i = 0 \/ i \in 1..N
    BY <1>1
  <2>4. \A i \in 0..N : f[i] = Presents(f)[i]
    BY <2>1, <2>2, <2>3
  <2> HIDE DEF N, Sets, Step, Nil
  <2> QED
    BY <1>6, <2>4
<1>9. present = Presents(present)
  <2> HIDE DEF Presents
  <2> QED
    BY <1>8
<1> HIDE DEF present
<1>10. present[0] = Nil /\ \A i \in 1..N : present[i] = Step(present[i - 1], i)
  <2> HIDE DEF N
  <2>1. present[0] = Nil
    BY <1>1, <1>9 DEF ConfMasks
  <2>2. ASSUME NEW i \in 1..N
        PROVE  present[i] = Step(present[i - 1], i)
    <3>1. i \in 0..N /\ i # 0
      BY <1>1
    <3>2. Presents(present)[i] = Step(present[i - 1], i)
      BY <3>1
    <3> QED
      BY <1>9, <3>2
  <2> QED
    BY <2>1, <2>2
<1> DEFINE Good(n) ==
             /\ Nil \subseteq present[n]
             /\ present[n] \subseteq Nil \cup {listed[i] : i \in 1..n}
             /\ \A i \in 1..n : \E k \in present[n] : Same(t, k, listed[i])
           S == {n \in 0..N : Good(n)}
<1> HIDE DEF Presents, N, Nil
<1>11. 0 \in S
  BY <1>1, <1>10
<1>12. ASSUME NEW n \in 1..N, n - 1 \in S
      PROVE  n \in S
  <2>1. Good(n - 1)
    BY <1>12
  <2>2. listed[n] \in Mask /\ \A i \in 1..n : i \in 1..(n - 1) \/ i = n
    BY <1>1
  <2>3. CASE \E k \in present[n - 1] : Same(t, k, listed[n])
    <3>1. present[n] = present[n - 1]
      BY <1>10, <2>3
    <3> QED
      BY <1>1, <2>1, <2>2, <2>3, <3>1
  <2>4. CASE ~ \E k \in present[n - 1] : Same(t, k, listed[n])
    <3>1. present[n] = present[n - 1] \cup {listed[n]}
      BY <1>10, <2>4
    <3>2. Same(t, listed[n], listed[n])
      BY <2>2, LineAssumption DEF Same
    <3> QED
      BY <1>1, <2>1, <2>2, <3>1, <3>2
  <2> QED
    BY <2>3, <2>4
<1>13. Good(N)
  <2> HIDE DEF S, Good
  <2>1. \A n \in 0..N : n \in S
    BY <1>1, <1>11, <1>12, BoundedInduction
  <2>2. N \in S
    BY <1>1, <2>1
  <2> QED
    BY <2>2 DEF S
<1>14. ToSet(listed) = {listed[i] : i \in 1..N}
  BY DEF ToSet, N
<1> QED
  BY <1>2, <1>13, <1>14 DEF Nil

-----------------------------------------------------------------------------
(* What the commands and files keep.                                       *)

\* a is a RESV that was not created because a permanent one, of ircd.conf or of
\* the file, matches it.
Blocked(a) ==
    /\ a.type \in ResvType
    /\ \E l \in lines :
         /\ l.type = a.type /\ l.hold = 0 /\ Same(a.type, l.mask, a.mask)
         /\ l.conf \/ l.mask \in ToSet(file[l.type])

PermanentsFiled == \A l \in lines \cup asked : l.hold = 0 => l.type \in FileType

PermanentsKept ==
    \A a \in asked : a.hold = 0 /\ <<a.type, a.mask>> \notin adrift =>
      /\ a.mask \in ToSet(file[a.type])
      /\ a \in lines \/ Blocked(a)

TemporariesKept ==
    \A a \in asked : a.hold > time /\ a.type \notin ResvType => a \in lines

TemporariesAsked == \A l \in lines : l.hold > 0 => l \in asked

\* The blocks of ircd.conf are RESVs, and a mask has one RESV at most.
OneResv ==
    /\ \A l \in lines : l.conf => l.hold = 0 /\ l.type \in ResvType
    /\ \A k, l \in lines :
         k.type \in ResvType /\ k.type = l.type /\ k.mask = l.mask => k = l

LineInd ==
    /\ LineTypeOK
    /\ PermanentsFiled
    /\ PermanentsKept
    /\ TemporariesKept
    /\ TemporariesAsked
    /\ OneResv
    /\ WithdrawnGone

LEMMA TypeFacts ==
    /\ ResvType \subseteq FileType /\ FileType \subseteq LineType
    /\ "GLINE" \notin FileType
    /\ \A t \in LineType : t # "GLINE" => t \in FileType
BY DEF ResvType, FileType, LineType

LEMMA BanType ==
    ASSUME NEW t \in LineType, NEW m \in Mask, NEW h \in Nat, NEW c \in BOOLEAN
    PROVE  /\ Ban(t, m, h, c) \in [type : LineType, mask : Mask, hold : Nat, conf : BOOLEAN]
           /\ Ban(t, m, h, FALSE) \in [type : LineType, mask : Mask, hold : Nat, conf : {FALSE}]
           /\ Ban(t, m, h, c).type = t /\ Ban(t, m, h, c).mask = m
           /\ Ban(t, m, h, c).hold = h /\ Ban(t, m, h, c).conf = c
BY DEF Ban

\* A ban is its four fields.
LEMMA BanIs ==
    ASSUME NEW a \in [type : LineType, mask : Mask, hold : Nat, conf : BOOLEAN]
    PROVE  /\ a.type \in LineType /\ a.mask \in Mask /\ a.hold \in Nat /\ a.conf \in BOOLEAN
           /\ a = Ban(a.type, a.mask, a.hold, a.conf)
BY DEF Ban

LEMMA AskedIs ==
    ASSUME LineTypeOK, NEW a \in asked
    PROVE  /\ a.type \in LineType /\ a.mask \in Mask /\ a.hold \in Nat /\ a.conf = FALSE
           /\ a.hold = 0 => a = Permanent(a.type, a.mask)
BY DEF LineTypeOK, Permanent, Ban

\* What asked for it and is not kept for a failure: AskedInForce.
LEMMA InForce == LineInd => BansAsAsked
<1> SUFFICES ASSUME LineInd, NEW a \in asked
             PROVE  IF a.hold = 0
                    THEN <<a.type, a.mask>> \notin adrift =>
                           /\ a.mask \in ToSet(file[a.type])
                           /\ a \notin lines =>
                                a.type \in ResvType /\ AlreadyPlaced(a.type, a.mask)
                    ELSE a.hold > time /\ a.type \notin ResvType => a \in lines
  BY DEF LineInd, BansAsAsked, AskedInForce
<1>1. Blocked(a) => a.type \in ResvType /\ AlreadyPlaced(a.type, a.mask)
  BY DEF Blocked, AlreadyPlaced
<1> QED
  BY <1>1 DEF LineInd, PermanentsKept, TemporariesKept

-----------------------------------------------------------------------------
(* REHASH.                                                                 *)

\* Files that a REHASH reads.
LEMMA ParsedType ==
    ASSUME NEW t \in FileType, NEW listed \in Seq(Mask), NEW l \in Parsed(t, listed)
    PROVE  /\ l = Permanent(t, l.mask) /\ l.type = t /\ l.hold = 0 /\ ~l.conf
           /\ l.mask \in Mask /\ l.mask \in ToSet(listed)
           /\ t \in ResvType => l.mask \in Created(t, listed)
<1>1. PICK m : /\ l = Permanent(t, m)
               /\ m \in IF t \in ResvType THEN Created(t, listed) ELSE ToSet(listed)
  BY DEF Parsed
<1>2. ToSet(listed) \subseteq Mask
  BY DEF ToSet
<1>3. t \in ResvType => Created(t, listed) \subseteq ToSet(listed)
  BY CreatedValues
<1> QED
  BY <1>1, <1>2, <1>3 DEF Permanent, Ban

\* What memory is made of once the files were read.
LEMMA ReadMemory ==
    ASSUME LineTypeOK, NEW L \in SUBSET lines, NEW files \in [FileType -> Seq(Mask)],
           NEW bad, ReadConfFiles(L, files, TRUE, bad), NEW l \in lines'
    PROVE  \/ l \in L /\ l.hold > 0 /\ l.type \notin ResvType
           \/ \E c \in ConfResv : l = Ban(c[1], c[2], 0, TRUE)
           \/ \E t \in FileType \ bad : l \in Parsed(t, files[t])
BY DEF ReadConfFiles, Kept

LEMMA ReadType ==
    ASSUME LineTypeOK, NEW L \in SUBSET lines, NEW files \in [FileType -> Seq(Mask)],
           NEW readable \in BOOLEAN, NEW bad, ReadConfFiles(L, files, readable, bad)
    PROVE  /\ lines' \subseteq [type : LineType, mask : Mask, hold : Nat, conf : BOOLEAN]
           /\ file' \in [FileType -> Seq(Mask)]
           /\ adrift' \subseteq FileType \X Mask
<1>1. file' \in [FileType -> Seq(Mask)]
  BY DEF ReadConfFiles
<1>2. adrift' \subseteq FileType \X Mask
  BY DEF ReadConfFiles, Disagreed, LineTypeOK
<1>3. ASSUME NEW l \in lines'
      PROVE  l \in [type : LineType, mask : Mask, hold : Nat, conf : BOOLEAN]
  <2>1. CASE ~readable
    BY <2>1 DEF ReadConfFiles, LineTypeOK
  <2>2. CASE readable /\ l \in L
    BY <2>2 DEF LineTypeOK
  <2>3. ASSUME NEW c \in ConfResv, l = Ban(c[1], c[2], 0, TRUE)
        PROVE  l \in [type : LineType, mask : Mask, hold : Nat, conf : BOOLEAN]
    BY <2>3, LineAssumption, TypeFacts DEF Ban
  <2>4. ASSUME NEW t \in FileType, l \in Parsed(t, files[t])
        PROVE  l \in [type : LineType, mask : Mask, hold : Nat, conf : BOOLEAN]
    <3>1. files[t] \in Seq(Mask)
      OBVIOUS
    <3>2. PICK m \in Mask : l = Permanent(t, m)
      BY <2>4, <3>1, ParsedType
    <3> QED
      BY <3>2, BanType, TypeFacts DEF Permanent
  <2>5. CASE readable
    <3> DEFINE Confed == \E c \in ConfResv : l = Ban(c[1], c[2], 0, TRUE)
               Read == \E t \in FileType \ bad : l \in Parsed(t, files[t])
               Old == l \in L /\ l.hold > 0 /\ l.type \notin ResvType
    <3>1. ReadConfFiles(L, files, TRUE, bad)
      BY <2>5
    <3>2. Old \/ Confed \/ Read
      BY <3>1, ReadMemory, Zenon
    <3>3. Confed => l \in [type : LineType, mask : Mask, hold : Nat, conf : BOOLEAN]
      BY <2>3
    <3>4. Read => l \in [type : LineType, mask : Mask, hold : Nat, conf : BOOLEAN]
      BY <2>4
    <3>5. Old => l \in [type : LineType, mask : Mask, hold : Nat, conf : BOOLEAN]
      BY <2>2, <2>5
    <3> QED
      BY <3>2, <3>3, <3>4, <3>5, Zenon
  <2> QED
    BY <2>1, <2>5
<1> QED
  BY <1>1, <1>2, <1>3

\* What the caller of read_conf_files did before: bans may have been taken back,
\* and memory holds the temporary ones that were not.
Reads(L) ==
    /\ L \subseteq lines /\ asked' \subseteq asked /\ time' = time
    /\ \A l \in L : l.hold > 0 => l \in asked'
    /\ \A a \in asked' : a.hold > 0 /\ a \in lines => a \in L

\* A permanent ban that is asked for and not adrift is in its file, and in memory
\* or blocked.
LEMMA ReadKeepsPermanents ==
    ASSUME LineInd, NEW L \in SUBSET lines, NEW files \in [FileType -> Seq(Mask)],
           NEW readable \in BOOLEAN, NEW bad, ReadConfFiles(L, files, readable, bad), Reads(L),
           NEW a \in asked', a.hold = 0, <<a.type, a.mask>> \notin adrift'
    PROVE  a.mask \in ToSet(file'[a.type]) /\ (a \in lines' \/ Blocked(a)')
<1> DEFINE t == a.type
           p == <<a.type, a.mask>>
<1>1. a \in asked /\ t \in FileType /\ a.mask \in Mask /\ a = Permanent(t, a.mask)
  BY AskedIs DEF LineInd, Reads, PermanentsFiled
<1>2. p \in FileType \X Mask /\ p[1] = t /\ p[2] = a.mask
  BY <1>1
<1>3. file' = files
  BY DEF ReadConfFiles
<1>4. CASE ~readable
  <2>1. p \notin Disagreed(files, L) /\ lines' = L
    BY <1>4 DEF ReadConfFiles
  <2>2. a.mask \in ToSet(files[t]) /\ a \in L
    BY <1>1, <1>2, <2>1 DEF Disagreed
  <2> QED
    BY <1>3, <2>1, <2>2
<1>5. CASE readable
  <2>1. ~(/\ p \in Disagreed(files, lines')
          /\ t \in bad \/ (a \in asked') # (a.mask \in ToSet(files[t])))
    BY <1>1, <1>2, <1>5 DEF ReadConfFiles
  <2>2. a.mask \in ToSet(files[t])
    BY <1>1, <1>2, <2>1 DEF Disagreed
  <2>3. ASSUME a \notin lines'
        PROVE  Blocked(a)'
    <3>1. t \notin bad
      BY <1>1, <1>2, <2>1, <2>3 DEF Disagreed
    <3>2. \A l \in Parsed(t, files[t]) : l \in lines'
      BY <1>1, <1>5, <3>1 DEF ReadConfFiles
    <3>3. t \in ResvType /\ a.mask \notin Created(t, files[t])
      BY <1>1, <2>2, <2>3, <3>2 DEF Parsed
    <3>4. files[t] \in Seq(Mask)
      BY <1>1
    <3>5. PICK n \in Created(t, files[t]) \cup ConfMasks(t) : Same(t, n, a.mask)
      BY <2>2, <3>3, <3>4, CreatedValues
    <3>6. CASE n \in Created(t, files[t])
      <4>1. Permanent(t, n) \in lines'
        BY <3>2, <3>3, <3>6 DEF Parsed
      <4>2. n \in ToSet(files[t])
        BY <3>3, <3>4, <3>6, CreatedValues
      <4>3. Permanent(t, n).type = t /\ Permanent(t, n).mask = n /\ Permanent(t, n).hold = 0
        BY DEF Permanent, Ban
      <4> QED
        BY <1>3, <3>3, <3>5, <4>1, <4>2, <4>3 DEF Blocked
    <3>7. CASE n \in ConfMasks(t)
      <4>1. PICK c \in ConfResv : c[1] = t /\ c[2] = n
        BY <3>7 DEF ConfMasks
      <4>2. Ban(t, n, 0, TRUE) \in lines'
        BY <1>5, <4>1 DEF ReadConfFiles
      <4>3. Ban(t, n, 0, TRUE).type = t /\ Ban(t, n, 0, TRUE).mask = n
            /\ Ban(t, n, 0, TRUE).hold = 0 /\ Ban(t, n, 0, TRUE).conf
        BY DEF Ban
      <4> QED
        BY <3>3, <3>5, <4>2, <4>3 DEF Blocked
    <3> QED
      BY <3>5, <3>6, <3>7
  <2> QED
    BY <1>3, <2>2, <2>3
<1> QED
  BY <1>4, <1>5

\* No RESV has two entries: one is not created if there is one like it.
LEMMA ReadOneResv ==
    ASSUME LineInd, NEW L \in SUBSET lines, NEW files \in [FileType -> Seq(Mask)],
           NEW readable \in BOOLEAN, NEW bad, ReadConfFiles(L, files, readable, bad)
    PROVE  OneResv'
<1>1. CASE ~readable
  BY <1>1 DEF ReadConfFiles, LineInd, OneResv
<1>2. CASE readable
  <2>1. ReadConfFiles(L, files, TRUE, bad) /\ LineTypeOK
    BY <1>2 DEF LineInd
  <2> DEFINE Confed(l) == \E c \in ConfResv : l = Ban(c[1], c[2], 0, TRUE)
             Read(l) == \E t \in FileType \ bad : l \in Parsed(t, files[t])
  <2>2. ASSUME NEW l \in lines'
        PROVE  (l.hold > 0 /\ ~l.conf /\ l.type \notin ResvType) \/ Confed(l) \/ Read(l)
    <3>1. (l \in L /\ l.hold > 0 /\ l.type \notin ResvType) \/ Confed(l) \/ Read(l)
      BY <2>1, ReadMemory
    <3>2. l \in L => (l.conf => l.hold = 0)
      BY DEF LineInd, OneResv
    <3>3. l \in L => l.conf \in BOOLEAN /\ l.hold \in Nat
      BY <2>1 DEF LineTypeOK
    <3> HIDE DEF Confed, Read
    <3> QED
      BY <3>1, <3>2, <3>3
  <2>3. ASSUME NEW l, Confed(l)
        PROVE  /\ l = Ban(l.type, l.mask, 0, TRUE) /\ l.hold = 0 /\ l.conf
               /\ l.type \in ResvType /\ l.mask \in ConfMasks(l.type)
    <3>1. PICK c \in ConfResv : l = Ban(c[1], c[2], 0, TRUE)
      BY <2>3
    <3>2. c[1] \in ResvType
      BY LineAssumption
    <3>3. l.type = c[1] /\ l.mask = c[2] /\ l.hold = 0 /\ l.conf
      BY <3>1 DEF Ban
    <3> QED
      BY <3>1, <3>2, <3>3 DEF ConfMasks
  <2>4. ASSUME NEW l, Read(l)
        PROVE  /\ l = Permanent(l.type, l.mask) /\ l.hold = 0 /\ ~l.conf
               /\ l.type \in ResvType => l.mask \notin ConfMasks(l.type)
    <3>1. PICK t \in FileType : l \in Parsed(t, files[t])
      BY <2>4
    <3>2. files[t] \in Seq(Mask)
      OBVIOUS
    <3>3. /\ l = Permanent(t, l.mask) /\ l.type = t /\ l.hold = 0 /\ ~l.conf
          /\ t \in ResvType => l.mask \in Created(t, files[t])
      BY <3>1, <3>2, ParsedType
    <3>4. t \in ResvType => Created(t, files[t]) \cap ConfMasks(t) = {}
      BY <3>2, CreatedValues
    <3> QED
      BY <3>3, <3>4
  <2> HIDE DEF Confed, Read
  <2>5. \A l \in lines' : l.conf => l.hold = 0 /\ l.type \in ResvType
    BY <2>2, <2>3, <2>4
  <2>6. ASSUME NEW k \in lines', NEW l \in lines',
               k.type \in ResvType, k.type = l.type, k.mask = l.mask
        PROVE  k = l
    <3>1. (Confed(k) \/ Read(k)) /\ (Confed(l) \/ Read(l))
      BY <2>2, <2>6
    <3>2. CASE Confed(k) /\ Confed(l)
      <4>1. k = Ban(k.type, k.mask, 0, TRUE)
        BY <2>3, <3>2, Zenon
      <4>2. l = Ban(l.type, l.mask, 0, TRUE)
        BY <2>3, <3>2, Zenon
      <4> QED
        BY <2>6, <4>1, <4>2, Zenon
    <3>3. CASE Read(k) /\ Read(l)
      <4>1. k = Permanent(k.type, k.mask)
        BY <2>4, <3>3, Zenon
      <4>2. l = Permanent(l.type, l.mask)
        BY <2>4, <3>3, Zenon
      <4> QED
        BY <2>6, <4>1, <4>2, Zenon
    <3>4. ~(Confed(k) /\ Read(l)) /\ ~(Read(k) /\ Confed(l))
      BY <2>3, <2>4, <2>6
    <3> QED
      BY <3>1, <3>2, <3>3, <3>4
  <2> QED
    BY <2>5, <2>6 DEF OneResv
<1> QED
  BY <1>1, <1>2

\* read_conf_files keeps all of it.
LEMMA ReadKeeps ==
    ASSUME LineInd, NEW L \in SUBSET lines, NEW files \in [FileType -> Seq(Mask)],
           NEW readable \in BOOLEAN, NEW bad, ReadConfFiles(L, files, readable, bad), Reads(L)
    PROVE  /\ PermanentsFiled' /\ PermanentsKept' /\ TemporariesKept'
           /\ TemporariesAsked' /\ OneResv' /\ WithdrawnGone'
<1>0. LineTypeOK /\ time \in Nat
  BY DEF LineInd, LineTypeOK
<1> DEFINE Confed(l) == \E c \in ConfResv : l = Ban(c[1], c[2], 0, TRUE)
           Read(l) == \E t \in FileType \ bad : l \in Parsed(t, files[t])
<1>1. ASSUME NEW l \in lines', readable
      PROVE  (l \in L /\ l.hold > 0 /\ l.type \notin ResvType) \/ Confed(l) \/ Read(l)
  <2>1. ReadConfFiles(L, files, TRUE, bad)
    BY <1>1
  <2> QED
    BY <1>0, <1>1, <2>1, ReadMemory
<1>2. ASSUME NEW l, Confed(l)
      PROVE  l.hold = 0 /\ l.conf /\ l.type \in FileType
  <2>1. PICK c \in ConfResv : l = Ban(c[1], c[2], 0, TRUE)
    BY <1>2
  <2> QED
    BY <2>1, LineAssumption, TypeFacts DEF Ban
<1>3. ASSUME NEW l, Read(l)
      PROVE  /\ l = Permanent(l.type, l.mask) /\ l.hold = 0 /\ l.type \in FileType
             /\ l.mask \in Mask /\ l.mask \in ToSet(files[l.type])
  <2>1. PICK t \in FileType : l \in Parsed(t, files[t])
    BY <1>3
  <2>2. files[t] \in Seq(Mask)
    OBVIOUS
  <2> QED
    BY <2>1, <2>2, ParsedType
<1> HIDE DEF Confed, Read
<1>4. PermanentsFiled'
  <2>1. \A l \in lines' : l.hold = 0 => l.type \in FileType
    <3>1. CASE readable
      BY <1>1, <1>2, <1>3, <3>1
    <3>2. CASE ~readable
      BY <3>2 DEF ReadConfFiles, LineInd, PermanentsFiled
    <3> QED
      BY <3>1, <3>2
  <2> QED
    BY <2>1 DEF Reads, LineInd, PermanentsFiled
<1>5. PermanentsKept'
  BY ReadKeepsPermanents DEF PermanentsKept
<1>6. TemporariesKept'
  <2> SUFFICES ASSUME NEW a \in asked', a.hold > time, a.type \notin ResvType
               PROVE  a \in lines'
    BY DEF TemporariesKept, Reads
  <2>0. a \in asked
    BY DEF Reads
  <2>3. a.hold \in Nat
    BY <1>0, <2>0 DEF LineTypeOK
  <2>1. a.hold > 0
    BY <1>0, <2>3
  <2>2. a \in L
    BY <2>0, <2>1 DEF Reads, LineInd, TemporariesKept
  <2> QED
    BY <2>1, <2>2 DEF ReadConfFiles, Kept
<1>7. TemporariesAsked'
  <2>1. \A l \in lines' : l.hold > 0 => l \in L
    <3>1. CASE readable
      BY <1>1, <1>2, <1>3, <3>1
    <3>2. CASE ~readable
      BY <3>2 DEF ReadConfFiles
    <3> QED
      BY <3>1, <3>2
  <2> QED
    BY <2>1 DEF TemporariesAsked, Reads
<1>8. OneResv'
  BY ReadOneResv
<1>9. WithdrawnGone'
  <2> SUFFICES ASSUME NEW l \in lines', ~l.conf, l \notin asked'
               PROVE  <<l.type, l.mask>> \in adrift'
    BY DEF WithdrawnGone
  <2> DEFINE p == <<l.type, l.mask>>
  <2>1. CASE readable
    <3>1. Read(l)
      BY <1>1, <1>2, <2>1 DEF Reads
    <3>2. /\ p \in FileType \X Mask /\ p[1] = l.type /\ p[2] = l.mask
          /\ l = Permanent(p[1], p[2]) /\ l.mask \in ToSet(files[p[1]])
      BY <1>3, <3>1
    <3>3. p \in Disagreed(files, lines')
      BY <3>2 DEF Disagreed
    <3> QED
      BY <2>1, <3>2, <3>3 DEF ReadConfFiles
  <2>2. CASE ~readable
    <3>1. l \in L /\ l.hold \in Nat /\ l.type \in LineType /\ l.mask \in Mask
          /\ l = Ban(l.type, l.mask, l.hold, l.conf) /\ l.conf = FALSE
      BY <1>0, <2>2, BanIs DEF ReadConfFiles, LineTypeOK
    <3>2. l.hold = 0
      BY <3>1 DEF Reads
    <3>3. l = Permanent(l.type, l.mask) /\ l.type \in FileType
      BY <3>1, <3>2 DEF Permanent, LineInd, PermanentsFiled
    <3>4. p \in FileType \X Mask /\ p[1] = l.type /\ p[2] = l.mask
      BY <3>1, <3>3
    <3>5. p \in Disagreed(files, L)
      BY <3>1, <3>3, <3>4 DEF Disagreed
    <3> QED
      BY <2>2, <3>5 DEF ReadConfFiles
  <2> QED
    BY <2>1, <2>2
<1> QED
  BY <1>4, <1>5, <1>6, <1>7, <1>8, <1>9

-----------------------------------------------------------------------------
(* The commands.                                                           *)

LineParts ==
    /\ PermanentsFiled /\ PermanentsKept /\ TemporariesKept
    /\ TemporariesAsked /\ OneResv /\ WithdrawnGone

LEMMA CostsType ==
    ASSUME LineTypeOK, NEW n \in Nat, Costs(n)
    PROVE  left' \in [commands : Nat, trouble : Nat]
BY DEF LineTypeOK, Costs

LEMMA TroubleType == \A b : Trouble(b) \in Nat
BY DEF Trouble

LEMMA AppendValues ==
    ASSUME NEW s \in Seq(Mask), NEW m \in Mask
    PROVE  /\ Append(s, m) \in Seq(Mask)
           /\ m \in ToSet(Append(s, m)) /\ ToSet(s) \subseteq ToSet(Append(s, m))
<1>1. Append(s, m) \in Seq(Mask) /\ Len(Append(s, m)) = Len(s) + 1 /\ Len(s) \in Nat
  OBVIOUS
<1>2. DOMAIN Append(s, m) = 1..(Len(s) + 1) /\ DOMAIN s = 1..Len(s)
  BY <1>1
<1>3. Append(s, m)[Len(s) + 1] = m /\ \A i \in 1..Len(s) : Append(s, m)[i] = s[i]
  OBVIOUS
<1> QED
  BY <1>1, <1>2, <1>3 DEF ToSet

\* A command that adds a ban to memory, and to its file or to what is adrift.
LEMMA GrowsKeeps ==
    ASSUME LineInd, NEW b, lines' = lines \cup {b}, asked' = asked \cup {b}, time' = time,
           adrift \subseteq adrift', ~b.conf, b.hold \in Nat, b.type \in LineType, b.mask \in Mask,
           \A t \in FileType : ToSet(file[t]) \subseteq ToSet(file'[t]),
           ~AlreadyPlaced(b.type, b.mask),
           b.hold = 0 => /\ b.type \in FileType
                         /\ <<b.type, b.mask>> \in adrift' \/ b.mask \in ToSet(file'[b.type])
    PROVE  LineParts'
<1>0. LineTypeOK /\ time \in Nat
  BY DEF LineInd, LineTypeOK
<1>1. PermanentsFiled'
  BY DEF LineInd, PermanentsFiled
<1>2. PermanentsKept'
  <2> SUFFICES ASSUME NEW a \in asked', a.hold = 0, <<a.type, a.mask>> \notin adrift'
               PROVE  a.mask \in ToSet(file'[a.type]) /\ (a \in lines' \/ Blocked(a)')
    BY DEF PermanentsKept
  <2>1. CASE a = b
    BY <2>1
  <2>2. CASE a \in asked
    <3>1. a.mask \in ToSet(file[a.type]) /\ (a \in lines \/ Blocked(a)) /\ a.type \in FileType
      BY <2>2 DEF LineInd, PermanentsKept, PermanentsFiled
    <3>2. Blocked(a) => Blocked(a)'
      BY TypeFacts DEF Blocked
    <3> QED
      BY <3>1, <3>2
  <2> QED
    BY <2>1, <2>2
<1>3. TemporariesKept'
  BY DEF LineInd, TemporariesKept
<1>4. TemporariesAsked'
  BY DEF LineInd, TemporariesAsked
<1>5. OneResv'
  <2>1. \A l \in lines : ~(l.type = b.type /\ l.mask = b.mask)
    BY LineAssumption DEF AlreadyPlaced, Same
  <2> QED
    BY <2>1 DEF LineInd, OneResv
<1>6. WithdrawnGone'
  BY DEF LineInd, WithdrawnGone
<1> QED
  BY <1>1, <1>2, <1>3, <1>4, <1>5, <1>6 DEF LineParts

\* Memory loses temporary bans only, time passes.
LEMMA ShrinksKeeps ==
    ASSUME LineInd, lines' \subseteq lines, asked' \subseteq asked,
           UNCHANGED <<file, adrift>>, time' \in Nat, time' >= time,
           \A l \in lines : l.hold = 0 => l \in lines',
           \A a \in asked' : a.hold > time' /\ a \in lines => a \in lines',
           \A l \in lines' : l \in asked => l \in asked'
    PROVE  LineParts'
<1>0. LineTypeOK /\ time \in Nat
  BY DEF LineInd, LineTypeOK
<1>1. PermanentsFiled'
  BY DEF LineInd, PermanentsFiled
<1>2. PermanentsKept'
  <2>1. \A a : Blocked(a) => Blocked(a)'
    BY DEF Blocked
  <2> QED
    BY <2>1 DEF LineInd, PermanentsKept
<1>3. TemporariesKept'
  <2> SUFFICES ASSUME NEW a \in asked', a.hold > time', a.type \notin ResvType
               PROVE  a \in lines'
    BY DEF TemporariesKept
  <2>1. a \in asked /\ a.hold \in Nat
    BY <1>0 DEF LineTypeOK
  <2>2. a.hold > time
    BY <1>0, <2>1
  <2> QED
    BY <2>1, <2>2 DEF LineInd, TemporariesKept
<1>4. TemporariesAsked'
  BY DEF LineInd, TemporariesAsked
<1>5. OneResv'
  BY DEF LineInd, OneResv
<1>6. WithdrawnGone'
  BY DEF LineInd, WithdrawnGone
<1> QED
  BY <1>1, <1>2, <1>3, <1>4, <1>5, <1>6 DEF LineParts

LEMMA AddedKeeps ==
    ASSUME LineInd, NEW t \in LineType, NEW m \in Mask, Added(t, m)
    PROVE  LineInd'
<1>0. LineTypeOK
  BY DEF LineInd
<1>1. ASSUME NEW fails \in BOOLEAN, Place(t, m, fails)
      PROVE  LineInd'
  <2> DEFINE b == Ban(t, m, 0, FALSE)
  <2>1. t \in FileType
    BY <1>1, TypeFacts DEF Place
  <2>2. file[t] \in Seq(Mask) /\ DOMAIN file = FileType
    BY <1>0, <2>1 DEF LineTypeOK
  <2>3. /\ b \in [type : LineType, mask : Mask, hold : Nat, conf : BOOLEAN]
        /\ b \in [type : LineType, mask : Mask, hold : Nat, conf : {FALSE}]
        /\ b.type = t /\ b.mask = m /\ b.hold = 0 /\ ~b.conf
    BY DEF Ban
  <2>4. /\ lines' = lines \cup {b} /\ asked' = asked \cup {b} /\ time' = time
        /\ ~AlreadyPlaced(b.type, b.mask) /\ user' = user
    BY <1>1, <2>3 DEF Place
  <2>5. /\ file' \in [FileType -> Seq(Mask)]
        /\ adrift \subseteq adrift' /\ adrift' \subseteq FileType \X Mask
        /\ \A u \in FileType : ToSet(file[u]) \subseteq ToSet(file'[u])
        /\ <<t, m>> \in adrift' \/ m \in ToSet(file'[t])
    <3>1. CASE fails
      BY <1>0, <1>1, <2>1, <3>1 DEF Place, WriteConfLine, LineTypeOK
    <3>2. CASE ~fails
      <4>1. file' = [file EXCEPT ![t] = Append(@, m)] /\ adrift' = adrift
        BY <1>1, <3>2 DEF Place, WriteConfLine
      <4>2. file'[t] = Append(file[t], m) /\ \A u \in FileType \ {t} : file'[u] = file[u]
        BY <2>1, <2>2, <4>1
      <4>3. /\ Append(file[t], m) \in Seq(Mask)
            /\ m \in ToSet(Append(file[t], m)) /\ ToSet(file[t]) \subseteq ToSet(Append(file[t], m))
        BY <2>2, AppendValues
      <4>4. file' \in [FileType -> Seq(Mask)]
        BY <1>0, <2>1, <4>1, <4>3 DEF LineTypeOK
      <4> QED
        BY <1>0, <2>1, <4>1, <4>2, <4>3, <4>4 DEF LineTypeOK
    <3> QED
      BY <3>1, <3>2
  <2>6. LineTypeOK'
    <3>1. Costs(Trouble(fails)) /\ MarksRehashed(t)
      BY <1>1 DEF Place
    <3>2. left' \in [commands : Nat, trouble : Nat]
      BY <1>0, <3>1, CostsType, TroubleType
    <3>3. rehashed_klines' \in BOOLEAN
      BY <3>1 DEF MarksRehashed
    <3> HIDE DEF b
    <3> QED
      BY <1>0, <2>3, <2>4, <2>5, <3>2, <3>3 DEF LineTypeOK
  <2>7. LineParts'
    <3>1. b.hold = 0 => /\ b.type \in FileType
                        /\ <<b.type, b.mask>> \in adrift' \/ b.mask \in ToSet(file'[b.type])
      BY <2>1, <2>3, <2>5
    <3>2. b.hold \in Nat /\ b.type \in LineType /\ b.mask \in Mask
      BY <2>3
    <3> HIDE DEF b
    <3> QED
      BY <2>3, <2>4, <2>5, <3>1, <3>2, GrowsKeeps
  <2> QED
    BY <2>6, <2>7 DEF LineInd, LineParts
<1>2. ASSUME NEW h \in Hold, PlaceTemporary(t, m, h)
      PROVE  LineInd'
  <2> DEFINE b == Ban(t, m, time + h, FALSE)
  <2>1. h \in Nat /\ h > 0 /\ time \in Nat /\ time + h \in Nat /\ time + h > 0
    BY <1>0, LineAssumption DEF LineTypeOK
  <2>2. /\ b \in [type : LineType, mask : Mask, hold : Nat, conf : BOOLEAN]
        /\ b \in [type : LineType, mask : Mask, hold : Nat, conf : {FALSE}]
        /\ b.type = t /\ b.mask = m /\ b.hold = time + h /\ ~b.conf
    BY <2>1 DEF Ban
  <2>3. /\ lines' = lines \cup {b} /\ asked' = asked \cup {b} /\ time' = time
        /\ ~AlreadyPlaced(b.type, b.mask) /\ user' = user /\ file' = file /\ adrift' = adrift
    BY <1>2, <2>2 DEF PlaceTemporary, disk
  <2>4. LineTypeOK'
    <3>1. Costs(0) /\ MarksRehashed(t)
      BY <1>2 DEF PlaceTemporary
    <3>2. left' \in [commands : Nat, trouble : Nat]
      BY <1>0, <3>1, CostsType
    <3>3. rehashed_klines' \in BOOLEAN
      BY <3>1 DEF MarksRehashed
    <3> HIDE DEF b
    <3> QED
      BY <1>0, <2>2, <2>3, <3>2, <3>3 DEF LineTypeOK
  <2>5. LineParts'
    <3> HIDE DEF b
    <3>1. b.hold \in Nat /\ b.hold # 0 /\ b.type \in LineType /\ b.mask \in Mask
      BY <2>1, <2>2
    <3> QED
      BY <2>2, <2>3, <3>1, GrowsKeeps
  <2> QED
    BY <2>4, <2>5 DEF LineInd, LineParts
<1> QED
  BY <1>1, <1>2 DEF Added

LEMMA LiftedKeeps ==
    ASSUME LineInd, NEW t \in LineType, NEW m \in Mask, Lifted(t, m)
    PROVE  LineInd'
<1>0. LineTypeOK /\ time \in Nat
  BY DEF LineInd, LineTypeOK
<1>1. CASE RemoveTemporary(t, m)
  <2>1. PICK l \in TemporaryOf(t, m) : lines' = lines \ {l} /\ asked' = asked \ {l}
    BY <1>1 DEF RemoveTemporary
  <2>2. l.hold > 0
    BY DEF TemporaryOf
  <2>3. UNCHANGED <<file, adrift, rehashed_klines, user, time>> /\ Costs(0)
    BY <1>1 DEF RemoveTemporary, disk
  <2>4. LineTypeOK'
    <3>1. left' \in [commands : Nat, trouble : Nat]
      BY <1>0, <2>3, CostsType
    <3> QED
      BY <1>0, <2>1, <2>3, <3>1 DEF LineTypeOK
  <2>5. LineParts'
    <3>1. \A k \in lines : k.hold = 0 => k \in lines'
      BY <2>1, <2>2
    <3>2. time' \in Nat /\ time' >= time
      BY <1>0, <2>3
    <3> QED
      BY <2>1, <2>3, <3>1, <3>2, ShrinksKeeps
  <2> QED
    BY <2>4, <2>5 DEF LineInd, LineParts
<1>2. ASSUME NEW f \in Fortunes, RemovePermanent(t, m, f)
      PROVE  LineInd'
  <2>1. t \in FileType /\ RemoveConfLine(lines, t, m, f) /\ UNCHANGED <<user, time>>
    BY <1>2, TypeFacts DEF RemovePermanent
  <2>2. f.renamed \in BOOLEAN /\ f.readable \in BOOLEAN
    BY DEF Fortunes
  <2>3. left' \in [commands : Nat, trouble : Nat]
    <3>1. Troubles(f) \in Nat
      BY DEF Troubles, Trouble
    <3> QED
      BY <1>0, <1>2, <3>1, CostsType DEF RemovePermanent
  <2>4. CASE f.opened /\ m \in ToSet(file[t])
    <3> DEFINE files == IF f.renamed THEN [file EXCEPT ![t] = Without(@, m)] ELSE file
    <3>1. ReadConfFiles(lines, files, f.readable, f.bad) /\ rehashed_klines' = TRUE
      BY <2>1, <2>4 DEF RemoveConfLine
    <3>2. asked' = asked \ {Permanent(t, m)} /\ Permanent(t, m).hold = 0
      BY <1>2, <2>4 DEF RemovePermanent, Permanent, Ban
    <3>3. files \in [FileType -> Seq(Mask)]
      <4>1. file[t] \in Seq(Mask) /\ file \in [FileType -> Seq(Mask)]
        BY <1>0, <2>1 DEF LineTypeOK
      <4>2. Without(file[t], m) \in Seq(Mask)
        BY <4>1, WithoutValues
      <4> QED
        BY <2>1, <4>1, <4>2
    <3>4. Reads(lines)
      <4>1. \A l \in lines : l.hold > 0 => l \in asked'
        BY <3>2 DEF LineInd, TemporariesAsked
      <4> QED
        BY <2>1, <3>2, <4>1 DEF Reads
    <3> HIDE DEF files
    <3>5. LineParts'
      BY <2>2, <3>1, <3>3, <3>4, ReadKeeps DEF LineParts
    <3>6. LineTypeOK'
      <4>1. /\ lines' \subseteq [type : LineType, mask : Mask, hold : Nat, conf : BOOLEAN]
            /\ file' \in [FileType -> Seq(Mask)]
            /\ adrift' \subseteq FileType \X Mask
        BY <1>0, <2>2, <3>1, <3>3, ReadType
      <4> QED
        BY <1>0, <2>1, <2>3, <3>1, <3>2, <4>1 DEF LineTypeOK
    <3> QED
      BY <3>5, <3>6 DEF LineInd, LineParts
  <2>5. CASE ~(f.opened /\ m \in ToSet(file[t]))
    <3>1. lines' = lines /\ UNCHANGED <<file, adrift, rehashed_klines, asked>>
      BY <1>2, <2>1, <2>5 DEF RemovePermanent, RemoveConfLine
    <3>2. LineTypeOK'
      BY <1>0, <2>1, <2>3, <3>1 DEF LineTypeOK
    <3>3. LineParts'
      <4>1. time' \in Nat /\ time' >= time
        BY <1>0, <2>1
      <4> QED
        BY <3>1, <4>1, ShrinksKeeps
    <3> QED
      BY <3>2, <3>3 DEF LineInd, LineParts
  <2> QED
    BY <2>4, <2>5
<1> QED
  BY <1>1, <1>2 DEF Lifted

\* UNRESV takes a RESV out of memory before it looks for the file.
LEMMA RemoveResvKeeps ==
    ASSUME LineInd, NEW t \in ResvType, NEW m \in Mask, NEW f \in Fortunes, RemoveResv(t, m, f)
    PROVE  LineInd'
<1>0. LineTypeOK /\ time \in Nat /\ t \in FileType
  BY TypeFacts DEF LineInd, LineTypeOK
<1>1. PICK l \in lines :
         /\ l.type = t /\ l.mask = m /\ ~l.conf
         /\ asked' = {a \in asked : a.type # t \/ a.mask # m}
         /\ RemoveConfLine(lines \ {l}, t, m, f)
  BY DEF RemoveResv
<1>2. /\ UNCHANGED <<user, time>> /\ f.renamed \in BOOLEAN /\ f.readable \in BOOLEAN
      /\ f.bad \in BadFiles /\ {} \in BadFiles
  BY DEF RemoveResv, Fortunes, BadFiles
<1>3. left' \in [commands : Nat, trouble : Nat]
  <2>1. Troubles(f) \in Nat
    BY DEF Troubles, Trouble
  <2> QED
    BY <1>0, <2>1, CostsType DEF RemoveResv
<1> DEFINE L == lines \ {l}
<1>4. Reads(L)
  <2>1. \A k \in L : k.hold > 0 => k \in asked'
    BY <1>1 DEF LineInd, TemporariesAsked, OneResv
  <2>2. \A a \in asked' : a \in lines => a \in L
    BY <1>1
  <2> QED
    BY <1>1, <1>2, <2>1, <2>2 DEF Reads
<1>5. PICK files \in [FileType -> Seq(Mask)], readable \in BOOLEAN, bad \in BadFiles :
         /\ ReadConfFiles(L, files, readable, bad)
         /\ rehashed_klines' \in {rehashed_klines, TRUE}
  <2>1. CASE f.opened /\ m \in ToSet(file[t])
    <3> DEFINE files == IF f.renamed THEN [file EXCEPT ![t] = Without(@, m)] ELSE file
    <3>1. ReadConfFiles(L, files, f.readable, f.bad) /\ rehashed_klines' = TRUE
      BY <1>1, <2>1 DEF RemoveConfLine
    <3>2. files \in [FileType -> Seq(Mask)]
      <4>1. file[t] \in Seq(Mask) /\ file \in [FileType -> Seq(Mask)]
        BY <1>0 DEF LineTypeOK
      <4>2. Without(file[t], m) \in Seq(Mask)
        BY <4>1, WithoutValues
      <4> QED
        BY <1>0, <4>1, <4>2
    <3> HIDE DEF files, L
    <3> QED
      BY <1>2, <3>1, <3>2
  <2>2. CASE ~(f.opened /\ m \in ToSet(file[t]))
    <3>1. /\ lines' = L /\ adrift' = adrift \cup Disagreed(file, L)
          /\ UNCHANGED <<file, rehashed_klines>>
      BY <1>1, <2>2 DEF RemoveConfLine
    <3>2. ReadConfFiles(L, file, FALSE, {})
      BY <3>1 DEF ReadConfFiles
    <3>3. file \in [FileType -> Seq(Mask)]
      BY <1>0 DEF LineTypeOK
    <3> HIDE DEF L
    <3> QED
      BY <1>2, <3>1, <3>2, <3>3
  <2> QED
    BY <2>1, <2>2
<1>6. L \in SUBSET lines
  OBVIOUS
<1> HIDE DEF L
<1>7. LineParts'
  BY <1>4, <1>5, <1>6, ReadKeeps DEF LineParts
<1>8. LineTypeOK'
  <2>1. /\ lines' \subseteq [type : LineType, mask : Mask, hold : Nat, conf : BOOLEAN]
        /\ file' \in [FileType -> Seq(Mask)]
        /\ adrift' \subseteq FileType \X Mask
    BY <1>0, <1>5, <1>6, ReadType
  <2> QED
    BY <1>0, <1>1, <1>2, <1>3, <1>5, <2>1 DEF LineTypeOK
<1> QED
  BY <1>7, <1>8 DEF LineInd, LineParts

LEMMA DoRehashKeeps ==
    ASSUME LineInd, NEW readable \in BOOLEAN, NEW bad, DoRehash(readable, bad)
    PROVE  LineInd'
<1>0. LineTypeOK /\ lines \in SUBSET lines /\ file \in [FileType -> Seq(Mask)]
  BY DEF LineInd, LineTypeOK
<1>1. /\ ReadConfFiles(lines, file, readable, bad) /\ asked' = asked
      /\ rehashed_klines' = TRUE /\ UNCHANGED <<user, time>>
  BY DEF DoRehash
<1>2. left' \in [commands : Nat, trouble : Nat]
  <2>1. Trouble(~readable) + Trouble(bad # {}) \in Nat
    BY DEF Trouble
  <2> QED
    BY <1>0, <2>1, CostsType DEF DoRehash
<1>3. Reads(lines)
  BY <1>1 DEF Reads, LineInd, TemporariesAsked
<1>4. LineParts'
  BY <1>0, <1>1, <1>3, ReadKeeps DEF LineParts
<1>5. LineTypeOK'
  <2>1. /\ lines' \subseteq [type : LineType, mask : Mask, hold : Nat, conf : BOOLEAN]
        /\ file' \in [FileType -> Seq(Mask)]
        /\ adrift' \subseteq FileType \X Mask
    BY <1>0, <1>1, ReadType
  <2> QED
    BY <1>0, <1>1, <1>2, <2>1 DEF LineTypeOK
<1> QED
  BY <1>4, <1>5 DEF LineInd, LineParts

LEMMA RestartKeeps ==
    ASSUME LineInd, NEW bad, Restart(bad)
    PROVE  LineInd'
<1>0. LineTypeOK /\ {} \in SUBSET lines /\ file \in [FileType -> Seq(Mask)]
  BY DEF LineInd, LineTypeOK
<1>1. /\ ReadConfFiles({}, file, TRUE, bad) /\ asked' = {a \in asked : a.hold = 0}
      /\ rehashed_klines' = FALSE /\ user' = [user EXCEPT !.place = "out"] /\ time' = time
  BY DEF Restart
<1>2. left' \in [commands : Nat, trouble : Nat]
  <2>1. Trouble(bad # {}) \in Nat
    BY DEF Trouble
  <2> QED
    BY <1>0, <2>1, CostsType DEF Restart
<1>3. Reads({})
  BY <1>1 DEF Reads
<1>4. LineParts'
  BY <1>0, <1>1, <1>3, ReadKeeps DEF LineParts
<1>5. LineTypeOK'
  <2>1. /\ lines' \subseteq [type : LineType, mask : Mask, hold : Nat, conf : BOOLEAN]
        /\ file' \in [FileType -> Seq(Mask)]
        /\ adrift' \subseteq FileType \X Mask
    BY <1>0, <1>1, ReadType
  <2>2. user' \in [who : {p.who : p \in Profile}, kline_exempt : BOOLEAN, gline_exempt : BOOLEAN,
                   place : {"out", "unknown", "refused", "on"}]
    BY <1>0, <1>1 DEF LineTypeOK
  <2> QED
    BY <1>0, <1>1, <1>2, <2>1, <2>2 DEF LineTypeOK
<1> QED
  BY <1>4, <1>5 DEF LineInd, LineParts

-----------------------------------------------------------------------------
(* The event loop.                                                         *)

LEMMA LoopKeeps ==
    ASSUME LineInd, CleanupTklines \/ CheckConfKlines \/ Connect \/ VerifyAccess \/ Leave \/ Tick
    PROVE  LineInd'
<1>0. LineTypeOK /\ time \in Nat
  BY DEF LineInd, LineTypeOK
<1>1. CASE CleanupTklines
  <2>1. /\ lines' = {l \in lines : l.hold = 0 \/ l.hold > time}
        /\ UNCHANGED <<file, adrift, rehashed_klines, user, time, asked, left>>
    BY <1>1 DEF CleanupTklines, disk
  <2>2. LineTypeOK'
    BY <1>0, <2>1 DEF LineTypeOK
  <2>3. time' \in Nat /\ time' >= time
    BY <1>0, <2>1
  <2>4. LineParts'
    BY <2>1, <2>3, ShrinksKeeps
  <2> QED
    BY <2>2, <2>4 DEF LineInd, LineParts
<1>2. CASE CheckConfKlines \/ Connect \/ VerifyAccess \/ Leave
  <2>1. UNCHANGED <<lines, file, adrift, time, asked, left>>
    BY <1>2 DEF CheckConfKlines, Connect, VerifyAccess, Leave, disk
  <2>2. /\ rehashed_klines' \in BOOLEAN
        /\ user' \in [who : {p.who : p \in Profile}, kline_exempt : BOOLEAN, gline_exempt : BOOLEAN,
                      place : {"out", "unknown", "refused", "on"}]
    BY <1>0, <1>2 DEF CheckConfKlines, Connect, VerifyAccess, Leave, LineTypeOK
  <2>3. LineTypeOK'
    BY <1>0, <2>1, <2>2 DEF LineTypeOK
  <2>4. time' \in Nat /\ time' >= time
    BY <1>0, <2>1
  <2>5. LineParts'
    BY <2>1, <2>4, ShrinksKeeps
  <2> QED
    BY <2>3, <2>5 DEF LineInd, LineParts
<1>3. CASE Tick
  <2>1. /\ UNCHANGED <<lines, file, adrift, rehashed_klines, user, asked, left>>
        /\ time' \in Nat /\ time' >= time
    BY <1>0, <1>3 DEF Tick, disk
  <2>2. LineTypeOK'
    BY <1>0, <2>1 DEF LineTypeOK
  <2>3. LineParts'
    BY <2>1, ShrinksKeeps
  <2> QED
    BY <2>2, <2>3 DEF LineInd, LineParts
<1> QED
  BY <1>1, <1>2, <1>3

LEMMA LineIndInit == LineInit => LineInd
<1> SUFFICES ASSUME LineInit PROVE LineInd
  OBVIOUS
<1>1. PICK p \in Profile :
         user = [who |-> p.who, kline_exempt |-> p.kline_exempt,
                 gline_exempt |-> p.gline_exempt, place |-> "out"]
  BY DEF LineInit
<1>2. \A l \in lines : /\ l.type \in ResvType /\ l.hold = 0 /\ l.conf = TRUE
                       /\ l = Ban(l.type, l.mask, 0, TRUE) /\ l.mask \in Mask
  <2> SUFFICES ASSUME NEW l \in lines
               PROVE  /\ l.type \in ResvType /\ l.hold = 0 /\ l.conf = TRUE
                      /\ l = Ban(l.type, l.mask, 0, TRUE) /\ l.mask \in Mask
    OBVIOUS
  <2>1. PICK c \in ConfResv : l = Ban(c[1], c[2], 0, TRUE)
    BY DEF LineInit
  <2> QED
    BY <2>1, LineAssumption DEF Ban
<1>3. lines \subseteq [type : LineType, mask : Mask, hold : Nat, conf : BOOLEAN]
  <2> SUFFICES ASSUME NEW l \in lines
               PROVE  l \in [type : LineType, mask : Mask, hold : Nat, conf : BOOLEAN]
    OBVIOUS
  <2>1. PICK c \in ConfResv : l = Ban(c[1], c[2], 0, TRUE)
    BY DEF LineInit
  <2> QED
    BY <2>1, LineAssumption, TypeFacts DEF Ban
<1>4. user \in [who : {q.who : q \in Profile}, kline_exempt : BOOLEAN, gline_exempt : BOOLEAN,
                place : {"out", "unknown", "refused", "on"}]
  BY <1>1, LineAssumption
<1>5. LineTypeOK
  <2>1. file \in [FileType -> Seq(Mask)] /\ rehashed_klines \in BOOLEAN
    <3>1. <<>> \in Seq(Mask) /\ file = [t \in FileType |-> <<>>] /\ rehashed_klines = FALSE
      BY DEF LineInit
    <3> QED
      BY <3>1
  <2>2. asked \subseteq [type : LineType, mask : Mask, hold : Nat, conf : {FALSE}]
    BY DEF LineInit
  <2>3. time \in Nat /\ adrift \subseteq FileType \X Mask
        /\ left \in [commands : Nat, trouble : Nat]
    BY LineAssumption DEF LineInit
  <2> QED
    BY <1>3, <1>4, <2>1, <2>2, <2>3 DEF LineTypeOK
<1>6. asked = {}
  BY DEF LineInit
<1>7. PermanentsFiled /\ TemporariesAsked /\ WithdrawnGone
  <2>1. \A l \in lines : l.type \in FileType /\ ~(l.hold > 0) /\ l.conf
    <3>1. \A l \in lines : l.type \in ResvType /\ l.hold = 0 /\ l.conf = TRUE
      BY <1>2, Zenon
    <3> QED
      BY <3>1, TypeFacts
  <2> QED
    BY <1>6, <2>1 DEF PermanentsFiled, TemporariesAsked, WithdrawnGone
<1>8. PermanentsKept /\ TemporariesKept
  BY <1>6 DEF PermanentsKept, TemporariesKept
<1>9. OneResv
  <2>1. ASSUME NEW k \in lines, NEW l \in lines, k.type = l.type, k.mask = l.mask
        PROVE  k = l
    <3>1. k = Ban(k.type, k.mask, 0, TRUE)
      BY <1>2, Zenon
    <3>2. l = Ban(l.type, l.mask, 0, TRUE)
      BY <1>2, Zenon
    <3> QED
      BY <2>1, <3>1, <3>2, Zenon
  <2> QED
    BY <1>2, <2>1 DEF OneResv
<1> QED
  BY <1>5, <1>7, <1>8, <1>9 DEF LineInd

LEMMA CommandKeeps ==
    ASSUME LineInd, NEW m \in Mask,
           \/ Kline(m) \/ Dline(m) \/ Xline(m) \/ Rkline(m) \/ Rxline(m) \/ Gline(m)
           \/ Unkline(m) \/ Undline(m) \/ Unxline(m) \/ Unrkline(m) \/ Unrxline(m)
           \/ Ungline(m) \/ Resv(m) \/ Unresv(m)
    PROVE  LineInd'
<1>1. {"KLINE", "DLINE", "XLINE", "RKLINE", "RXLINE", "GLINE"} \subseteq LineType
  BY DEF LineType, FileType
<1>2. CASE Kline(m) \/ Dline(m) \/ Xline(m) \/ Rkline(m) \/ Rxline(m) \/ Gline(m)
  BY <1>1, <1>2, AddedKeeps DEF Kline, Dline, Xline, Rkline, Rxline, Gline
<1>3. CASE Unkline(m) \/ Undline(m) \/ Unxline(m) \/ Unrkline(m) \/ Unrxline(m) \/ Ungline(m)
  BY <1>1, <1>3, LiftedKeeps DEF Unkline, Undline, Unxline, Unrkline, Unrxline, Ungline
<1>4. CASE Resv(m)
  BY <1>4, AddedKeeps, TypeFacts DEF Resv
<1>5. CASE Unresv(m)
  BY <1>5, RemoveResvKeeps DEF Unresv
<1> QED
  BY <1>2, <1>3, <1>4, <1>5

\* The bans in memory and in the files, and what was asked for, keep to one
\* another: BansAsAsked needs where its RESVs are blocked, that temporary bans
\* were asked for, and that a mask has one RESV.
THEOREM LineIndHolds == LineSpec => []LineInd
<1>1. LineInd /\ [LineNext]_lineVars => LineInd'
  <2> SUFFICES ASSUME LineInd, [LineNext]_lineVars
               PROVE  LineInd'
    OBVIOUS
  <2>1. CASE UNCHANGED lineVars
    <3>1. LineTypeOK'
      BY <2>1 DEF LineInd, LineTypeOK, lineVars
    <3>2. time' \in Nat /\ time' >= time
      BY <2>1 DEF LineInd, LineTypeOK, lineVars
    <3>3. LineParts'
      BY <2>1, <3>2, ShrinksKeeps DEF lineVars
    <3> QED
      BY <3>1, <3>3 DEF LineInd, LineParts
  <2>2. CASE LineNext
    BY <2>2, CommandKeeps, DoRehashKeeps, RestartKeeps, LoopKeeps DEF LineNext
  <2> QED
    BY <2>1, <2>2
<1> QED
  BY <1>1, LineIndInit, PTL DEF LineSpec

\* The variables have their types.
THEOREM LinesTyped == LineSpec => []LineTypeOK
<1>1. LineInd => LineTypeOK
  BY DEF LineInd
<1> QED
  BY <1>1, LineIndHolds, PTL

\* Whatever the commands, REHASHes, failures and restarts: each permanent ban
\* that was asked for is in its file and in memory, or matched by a RESV there,
\* each temporary one in memory until its time, and none comes back.
THEOREM BansStayAsAsked == LineSpec => []BansAsAsked
  BY LineIndHolds, InForce, PTL

-----------------------------------------------------------------------------
(* Whom bans cover.                                                        *)

\* Who is on may be covered by a ban only until the clients are looked at, and
\* so may who has not registered yet, by a D-line.
Covered ==
    ~rehashed_klines =>
      /\ user.place = "on" =>
           /\ Hit({"DLINE"}) => Exempted
           /\ ~Exempted /\ ~user.kline_exempt /\ ~user.gline_exempt => ~Hit(LineType \ ResvType)
      /\ user.place = "unknown" => ~Dlined

\* A step that adds no ban but RESVs leaves nobody covered who was not.
LEMMA CoveredStays ==
    ASSUME Covered, \A l \in lines' : l.type \notin ResvType => l \in lines,
           user' = user \/ user'.place \notin {"unknown", "on"},
           rehashed_klines' = rehashed_klines \/ user'.place \notin {"unknown", "on"}
    PROVE  Covered'
<1>1. CASE user'.place \notin {"unknown", "on"}
  BY <1>1 DEF Covered
<1>2. CASE user' = user /\ rehashed_klines' = rehashed_klines
  <2>1. Exempted' = Exempted
    BY <1>2 DEF Exempted
  <2>2. Hit({"DLINE"})' => Hit({"DLINE"})
    BY <1>2 DEF Hit, ResvType
  <2>3. Hit(LineType \ ResvType)' => Hit(LineType \ ResvType)
    BY <1>2 DEF Hit
  <2> QED
    BY <1>2, <2>1, <2>2, <2>3 DEF Covered, Dlined
<1> QED
  BY <1>1, <1>2

LEMMA MarksCovers ==
    ASSUME rehashed_klines'
    PROVE  Covered'
BY DEF Covered

LEMMA CommandCovers ==
    ASSUME LineInd, Covered, NEW t \in LineType, NEW m \in Mask,
           \/ Added(t, m) \/ Lifted(t, m)
           \/ t \in ResvType /\ \E f \in Fortunes : RemoveResv(t, m, f)
    PROVE  Covered'
<1>1. CASE Added(t, m)
  <2>1. /\ MarksRehashed(t) /\ user' = user
        /\ \E h : lines' = lines \cup {Ban(t, m, h, FALSE)}
    BY <1>1 DEF Added, Place, PlaceTemporary
  <2>2. PICK b : lines' = lines \cup {b} /\ b.type = t
    <3>1. \A h : Ban(t, m, h, FALSE).type = t
      BY DEF Ban
    <3> QED
      BY <2>1, <3>1
  <2>3. CASE t \in ResvType
    <3>1. rehashed_klines' = rehashed_klines
      BY <2>1, <2>3 DEF MarksRehashed, LineInd, LineTypeOK
    <3> QED
      BY <2>1, <2>2, <2>3, <3>1, CoveredStays
  <2>4. CASE t \notin ResvType
    BY <2>1, <2>4, MarksCovers DEF MarksRehashed
  <2> QED
    BY <2>3, <2>4
<1>2. ASSUME NEW L \in SUBSET lines, NEW f, RemoveConfLine(L, t, m, f), user' = user
      PROVE  Covered'
  <2>1. rehashed_klines' = TRUE \/ (lines' = L /\ UNCHANGED rehashed_klines)
    BY <1>2 DEF RemoveConfLine
  <2> QED
    BY <1>2, <2>1, CoveredStays, MarksCovers
<1>3. CASE Lifted(t, m)
  <2>1. CASE RemoveTemporary(t, m)
    <3>1. lines' \subseteq lines /\ UNCHANGED <<rehashed_klines, user>>
      BY <2>1 DEF RemoveTemporary
    <3> QED
      BY <3>1, CoveredStays
  <2>2. ASSUME NEW f \in Fortunes, RemovePermanent(t, m, f)
        PROVE  Covered'
    BY <1>2, <2>2 DEF RemovePermanent
  <2> QED
    BY <1>3, <2>1, <2>2 DEF Lifted
<1>4. ASSUME NEW f \in Fortunes, RemoveResv(t, m, f)
      PROVE  Covered'
  BY <1>2, <1>4 DEF RemoveResv
<1> QED
  BY <1>1, <1>3, <1>4

LEMMA LoopCovers ==
    ASSUME LineInd, Covered,
           CleanupTklines \/ CheckConfKlines \/ Connect \/ VerifyAccess \/ Leave \/ Tick
    PROVE  Covered'
<1>0. user \in [who : {p.who : p \in Profile}, kline_exempt : BOOLEAN, gline_exempt : BOOLEAN,
                place : {"out", "unknown", "refused", "on"}]
  BY DEF LineInd, LineTypeOK
<1>1. CASE CleanupTklines
  BY <1>1, CoveredStays DEF CleanupTklines
<1>2. CASE CheckConfKlines
  <2>1. CASE user' = user
    <3>1. UNCHANGED <<lines, user>> /\ (user.place = "on" => ~Banned)
                                    /\ (user.place = "unknown" => ~Dlined)
      <4>1. ASSUME (user.place = "on" /\ Banned) \/ (user.place = "unknown" /\ Dlined)
            PROVE  FALSE
        <5>1. user' = [user EXCEPT !.place = "out"]
          BY <1>2, <4>1, Zenon DEF CheckConfKlines
        <5>2. user'.place = "out"
          BY <1>0, <5>1
        <5> QED
          BY <2>1, <4>1, <5>2
      <4>2. lines' = lines
        BY <1>2 DEF CheckConfKlines
      <4>3. (user.place = "on" => ~Banned) /\ (user.place = "unknown" => ~Dlined)
        BY <4>1, Zenon
      <4> QED
        BY <2>1, <4>2, <4>3
    <3>2. ~Banned => (Hit({"DLINE"}) => Exempted)
      BY DEF Banned
    <3>3. ~Banned /\ ~Exempted /\ ~user.kline_exempt /\ ~user.gline_exempt =>
            ~Hit(LineType \ ResvType)
      <4>1. Hit(LineType \ ResvType) =>
               Hit({"DLINE"}) \/ Hit({"GLINE"}) \/ Hit({"KLINE", "RKLINE"})
               \/ Hit({"XLINE", "RXLINE"})
        BY DEF Hit, LineType, FileType
      <4>2. Hit({"GLINE", "KLINE", "RKLINE"}) => Hit({"GLINE"}) \/ Hit({"KLINE", "RKLINE"})
        BY DEF Hit
      <4> QED
        BY <4>1, <4>2 DEF Banned
    <3>4. Covered' = (TRUE /\ (~rehashed_klines' =>
             /\ user.place = "on" =>
                  /\ Hit({"DLINE"}) => Exempted
                  /\ ~Exempted /\ ~user.kline_exempt /\ ~user.gline_exempt =>
                       ~Hit(LineType \ ResvType)
             /\ user.place = "unknown" => ~Dlined))
      BY <3>1 DEF Covered, Hit, Exempted, Dlined
    <3> QED
      BY <3>1, <3>2, <3>3, <3>4
  <2>2. CASE user' = [user EXCEPT !.place = "out"]
    <3>1. user'.place = "out"
      BY <1>0, <2>2
    <3> QED
      BY <3>1 DEF Covered
  <2> QED
    BY <1>2, <2>1, <2>2 DEF CheckConfKlines
<1>3. CASE Connect
  <2>1. /\ user'.place = "unknown" /\ user'.who = user.who /\ ~Dlined
        /\ lines' = lines
    BY <1>0, <1>3 DEF Connect
  <2>2. ~Dlined'
    BY <2>1 DEF Dlined, Hit, Exempted
  <2> QED
    BY <2>1, <2>2 DEF Covered
<1>4. CASE VerifyAccess
  <2>1. /\ user.place = "unknown" /\ lines' = lines /\ UNCHANGED rehashed_klines
        /\ user' = [user EXCEPT !.place = IF Refused THEN "refused" ELSE "on"]
    BY <1>4 DEF VerifyAccess
  <2>2. CASE Refused
    <3>1. user'.place = "refused"
      BY <1>0, <2>1, <2>2
    <3> QED
      BY <3>1 DEF Covered
  <2>3. CASE ~Refused
    <3>1. /\ user'.place = "on" /\ user'.who = user.who
          /\ user'.kline_exempt = user.kline_exempt /\ user'.gline_exempt = user.gline_exempt
      BY <1>0, <2>1, <2>3
    <3>2. ASSUME ~rehashed_klines
          PROVE  /\ Hit({"DLINE"}) => Exempted
                 /\ ~Exempted /\ ~user.kline_exempt /\ ~user.gline_exempt =>
                      ~Hit(LineType \ ResvType)
      <4>1. ~Dlined
        BY <2>1, <3>2 DEF Covered
      <4>2. Hit(LineType \ ResvType) =>
               Hit({"DLINE"}) \/ Hit({"GLINE"}) \/ Hit({"KLINE"})
               \/ Hit({"RKLINE", "XLINE", "RXLINE"})
        BY DEF Hit, LineType, FileType
      <4> QED
        BY <2>3, <4>1, <4>2 DEF Refused, Dlined
    <3>3. /\ Exempted' = Exempted /\ Hit({"DLINE"})' = Hit({"DLINE"})
          /\ Hit(LineType \ ResvType)' = Hit(LineType \ ResvType)
      BY <2>1, <3>1 DEF Exempted, Hit
    <3> QED
      BY <2>1, <3>1, <3>2, <3>3 DEF Covered
  <2> QED
    BY <2>2, <2>3
<1>5. CASE Leave
  <2>1. lines' = lines /\ user'.place = "out" /\ UNCHANGED rehashed_klines
    BY <1>0, <1>5 DEF Leave
  <2> QED
    BY <2>1 DEF Covered
<1>6. CASE Tick
  BY <1>6, CoveredStays DEF Tick
<1> QED
  BY <1>1, <1>2, <1>3, <1>4, <1>5, <1>6

\* After io_loop has looked at the clients, no ban covers one that it does not
\* exempt, in whatever order bans, registrations and REHASHes come.
THEOREM NobodyStaysCovered == LineSpec => []NobodyCovered
<1>1. LineInit => Covered
  <2> SUFFICES ASSUME LineInit PROVE Covered
    OBVIOUS
  <2>1. user.place = "out"
    BY DEF LineInit
  <2> QED
    BY <2>1 DEF Covered
<1>2. LineInd /\ Covered /\ [LineNext]_lineVars => Covered'
  <2> SUFFICES ASSUME LineInd, Covered, [LineNext]_lineVars
               PROVE  Covered'
    OBVIOUS
  <2>1. CASE UNCHANGED lineVars
    BY <2>1, CoveredStays DEF lineVars
  <2>2. ASSUME NEW m \in Mask,
               \/ Kline(m) \/ Dline(m) \/ Xline(m) \/ Rkline(m) \/ Rxline(m) \/ Gline(m)
               \/ Unkline(m) \/ Undline(m) \/ Unxline(m) \/ Unrkline(m) \/ Unrxline(m)
               \/ Ungline(m) \/ Resv(m) \/ Unresv(m)
        PROVE  Covered'
    <3>1. \E t \in LineType :
            \/ Added(t, m) \/ Lifted(t, m)
            \/ t \in ResvType /\ \E f \in Fortunes : RemoveResv(t, m, f)
      <4>1. {"KLINE", "DLINE", "XLINE", "RKLINE", "RXLINE", "GLINE"} \subseteq LineType
        BY DEF LineType, FileType
      <4> QED
        BY <2>2, <4>1, TypeFacts
           DEF Kline, Dline, Xline, Rkline, Rxline, Gline, Unkline, Undline, Unxline,
               Unrkline, Unrxline, Ungline, Resv, Unresv
    <3> QED
      BY <3>1, CommandCovers
  <2>3. ASSUME NEW readable \in BOOLEAN, NEW bad, DoRehash(readable, bad)
        PROVE  Covered'
    BY <2>3, MarksCovers DEF DoRehash
  <2>4. ASSUME NEW bad, Restart(bad)
        PROVE  Covered'
    <3>1. user'.place = "out"
      BY <2>4 DEF Restart, LineInd, LineTypeOK
    <3> QED
      BY <3>1 DEF Covered
  <2> QED
    BY <2>1, <2>2, <2>3, <2>4, LoopCovers DEF LineNext
<1>3. Covered => NobodyCovered
  BY DEF Covered, NobodyCovered
<1> QED
  BY <1>1, <1>2, <1>3, LineIndHolds, PTL DEF LineSpec

-----------------------------------------------------------------------------
(* The lists of services.                                                  *)

Toward == CHOOSE toward \in [Server \ {Hub} -> Server] : LeadsToHub(toward)

\* Lines from the hub go down, bursts alone go up.
Up(s) == <<s, Toward[s]>>
Down(s) == <<Toward[s], s>>
Below == Server \ {Hub}
Upward == {Up(s) : s \in Below}

\* Every link is the one between a server and its neighbour towards the hub.
LEMMA TowardHub ==
    /\ Toward \in [Below -> Server] /\ LeadsToHub(Toward)
    /\ \A s \in Below : Up(s) \in Link /\ Down(s) \in Link
    /\ \A l \in Link : \E s \in Below : l = Up(s) \/ l = Down(s)
    /\ Hub \in Server
  <1>1. Toward \in [Below -> Server] /\ LeadsToHub(Toward)
    BY ListAssumption DEF Toward, Below
  <1>2. Link = UNION {{<<s, Toward[s]>>, <<Toward[s], s>>} : s \in Below}
    BY <1>1 DEF LeadsToHub, Below
  <1>3. \A s \in Below : Up(s) \in Link /\ Down(s) \in Link
    BY <1>2 DEF Up, Down
  <1>4. ASSUME NEW l \in Link PROVE \E s \in Below : l = Up(s) \/ l = Down(s)
    <2>1. PICK s \in Below : l \in {<<s, Toward[s]>>, <<Toward[s], s>>}
      BY <1>2
    <2> QED BY <2>1 DEF Up, Down
  <1> QED BY <1>1, <1>3, <1>4, ListAssumption

\* What holds of the hub and, with a server, of those it tells, holds of all.
LEMMA HubInduction ==
    ASSUME NEW S \in SUBSET Server, Hub \in S, \A s \in Below : Toward[s] \in S => s \in S
    PROVE  S = Server
  BY TowardHub DEF LeadsToHub, Below

\* No server is above the one above it.
LEMMA NoLoop ==
    ASSUME NEW s \in Below, NEW r \in Below
    PROVE  ~(Toward[s] = r /\ Toward[r] = s)
  <1> SUFFICES ASSUME Toward[s] = r, Toward[r] = s PROVE FALSE
    OBVIOUS
  <1> DEFINE S == Server \ {s, r}
  <1>1. Hub \in S
    BY TowardHub DEF Below
  <1>2. ASSUME NEW x \in Below, Toward[x] \in S PROVE x \in S
    BY <1>2 DEF Below
  <1>3. S = Server
    BY <1>1, <1>2, HubInduction
  <1> QED BY <1>3 DEF Below

\* A link has two servers for ends and goes both ways.
LEMMA LinkEnds ==
    ASSUME NEW l \in Link
    PROVE  /\ l = <<l[1], l[2]>> /\ l[1] \in Server /\ l[2] \in Server /\ l[1] # l[2]
           /\ <<l[2], l[1]>> \in Link
           /\ l \in Upward \/ <<l[2], l[1]>> \in Upward
  <1>1. PICK s \in Below : l = Up(s) \/ l = Down(s)
    BY TowardHub
  <1>2. s \in Server /\ Toward[s] \in Server /\ Toward[s] # s
    <2>1. s \in Server /\ Toward[s] \in Server
      BY TowardHub DEF Below
    <2> QED BY <2>1, NoLoop
  <1> QED BY <1>1, <1>2, TowardHub DEF Up, Down, Upward

-----------------------------------------------------------------------------
\* Whether m matches e, and E whatever is in F.
Dominates(E, F) == \A e \in F : \E m \in E : Matches(m, e)

\* find_proxy's matching, and _find_gline's, is reflexive and transitive.
LEMMA MatchesOrder ==
    ASSUME ListTypeOK
    PROVE  /\ \A e \in Entry : Matches(e, e)
           /\ \A a, b, c \in Entry : Matches(a, b) /\ Matches(b, c) => Matches(a, c)
  BY ListAssumption DEF Matches

\* No other of E matches e or is matched by it.
Alone(e, E) == \A m \in E : Matches(m, e) \/ Matches(e, m) => m = e

Held(s) == ToSet(entries[s])

\* What a list holds, and what it therefore knows.
LEMMA HeldIs ==
    ASSUME ListTypeOK, NEW s \in Server
    PROVE  /\ Held(s) \subseteq Entry
           /\ \A i \in DOMAIN entries[s] : entries[s][i] \in Held(s)
           /\ \A e \in Held(s) : \E i \in DOMAIN entries[s] : entries[s][i] = e
           /\ \A e : Known(s, e) <=> \E m \in Held(s) : Matches(m, e)
  BY DEF Held, ToSet, Known, ListTypeOK

\* No list has an entry twice.
NoTwice == \A s \in Server : \A i, j \in DOMAIN entries[s] : entries[s][i] = entries[s][j] => i = j

\* remove_gline_match, UNPROXY: the entry goes, the others stay, each once.
LEMMA RemovedValues ==
    ASSUME NEW list \in Seq(Entry), NEW e,
           \A i, j \in DOMAIN list : list[i] = list[j] => i = j
    PROVE  LET new == RemoveFirst(list, e)
           IN  /\ new \in Seq(Entry)
               /\ ToSet(new) = ToSet(list) \ {e}
               /\ \A i, j \in DOMAIN new : new[i] = new[j] => i = j
               /\ new = list <=> e \notin ToSet(list)
  <1> DEFINE new == RemoveFirst(list, e)
             n == Len(list)
             I == {i \in 1..n : list[i] = e}
  <1>0. n \in Nat /\ DOMAIN list = 1..n /\ \A i \in 1..n : list[i] \in Entry
    OBVIOUS
  <1>1. CASE \A i \in 1..n : list[i] # e
    <2>1. new = list
      BY <1>1 DEF RemoveFirst
    <2> QED BY <1>0, <1>1, <2>1 DEF ToSet
  <1>2. CASE \E i \in 1..n : list[i] = e
    <2>1. PICK k \in I : \A j \in I : k <= j
      <3>1. I \subseteq Nat /\ I # {}
        BY <1>2
      <3> QED BY <3>1, LeastNatural
    <2>2. SelectInSeq(list, LAMBDA v : v = e) \in I
      <3>1. I # {}
        BY <1>2
      <3>2. SelectInSeq(list, LAMBDA v : v = e) = (CHOOSE x \in I : \A y \in I : x <= y)
        BY <3>1 DEF SelectInSeq, Min
      <3> QED BY <2>1, <3>2
    <2>3. PICK p \in I : p = SelectInSeq(list, LAMBDA v : v = e)
      BY <2>2
    <2>4. new = SubSeq(list, 1, p - 1) \o SubSeq(list, p + 1, n)
      BY <1>2, <2>3 DEF RemoveFirst, RemoveAt
    <2> DEFINE a == SubSeq(list, 1, p - 1)
               b == SubSeq(list, p + 1, n)
    <2>10. p \in 1..n
      OBVIOUS
    <2>5. /\ a \in Seq(Entry) /\ Len(a) = p - 1
          /\ \A i \in 1..(p - 1) : a[i] = list[i]
      <3>1. /\ a \in Seq(Entry) /\ Len(a) = IF 1 <= p - 1 THEN p - 1 - 1 + 1 ELSE 0
            /\ \A i \in 1..((p - 1) - 1 + 1) : a[i] = list[1 + i - 1]
        BY <1>0, <2>10, SubSeqProperties
      <3> QED BY <1>0, <2>10, <3>1
    <2>11. /\ b \in Seq(Entry) /\ Len(b) = n - p
          /\ \A i \in 1..(n - p) : b[i] = list[p + i]
      <3>1. /\ b \in Seq(Entry) /\ Len(b) = IF p + 1 <= n THEN n - (p + 1) + 1 ELSE 0
            /\ \A i \in 1..(n - (p + 1) + 1) : b[i] = list[(p + 1) + i - 1]
        BY <1>0, <2>10, SubSeqProperties
      <3> QED BY <1>0, <2>10, <3>1
    <2>6. /\ new \in Seq(Entry) /\ Len(new) = n - 1 /\ DOMAIN new = 1..(n - 1)
          /\ \A i \in 1..(n - 1) : new[i] = IF i < p THEN list[i] ELSE list[i + 1]
      <3>1. new = a \o b
        BY <2>4
      <3> HIDE DEF a, b, new
      <3>6. /\ new \in Seq(Entry) /\ Len(new) = Len(a) + Len(b)
            /\ \A i \in 1..(Len(a) + Len(b)) :
                 new[i] = IF i <= Len(a) THEN a[i] ELSE b[i - Len(a)]
        <4>1. a \in Seq(Entry) /\ b \in Seq(Entry)
          BY <2>5, <2>11
        <4> QED BY <3>1, <4>1, ConcatProperties
      <3>2. /\ new \in Seq(Entry) /\ Len(new) = Len(a) + Len(b)
            /\ \A i \in 1..Len(a) : new[i] = a[i]
            /\ \A i \in 1..Len(b) : new[Len(a) + i] = b[i]
        <4>1. Len(a) \in Nat /\ Len(b) \in Nat
          BY <2>5, <2>10, <2>11
        <4>2. ASSUME NEW i \in 1..Len(b) PROVE new[Len(a) + i] = b[i]
          <5>1. Len(a) + i \in 1..(Len(a) + Len(b)) /\ ~(Len(a) + i <= Len(a)) /\ Len(a) + i - Len(a) = i
            BY <4>1
          <5> QED BY <3>6, <5>1
        <4> QED BY <3>6, <4>1, <4>2
      <3>3. Len(new) = n - 1 /\ DOMAIN new = 1..(n - 1)
        BY <1>0, <2>5, <2>10, <2>11, <3>2
      <3>4. ASSUME NEW i \in 1..(n - 1), i < p PROVE new[i] = list[i]
        <4>1. i \in 1..(p - 1)
          BY <1>0, <2>10, <3>4
        <4>2. i \in 1..Len(a)
          BY <2>5, <4>1
        <4> QED BY <2>5, <3>2, <4>1, <4>2
      <3>5. ASSUME NEW i \in 1..(n - 1), ~(i < p) PROVE new[i] = list[i + 1]
        <4>1. i - (p - 1) \in 1..Len(b) /\ i = Len(a) + (i - (p - 1))
          BY <1>0, <2>5, <2>10, <2>11, <3>5
        <4>2. new[i] = b[i - (p - 1)]
          BY <3>2, <4>1
        <4>3. b[i - (p - 1)] = list[p + (i - (p - 1))] /\ p + (i - (p - 1)) = i + 1
          BY <1>0, <2>10, <2>11, <4>1
        <4> QED BY <4>2, <4>3
      <3> QED BY <3>2, <3>3, <3>4, <3>5
    <2> HIDE DEF a, b
    <2> HIDE DEF new
    <2>7. ToSet(new) = ToSet(list) \ {e}
      <3>1. ASSUME NEW i \in 1..n, list[i] # e PROVE \E j \in 1..(n - 1) : new[j] = list[i]
        <4>1. i < p \/ i > p
          BY <3>1
        <4>2. CASE i < p
          BY <1>0, <2>6, <4>2
        <4>3. CASE i > p
          <5>1. i - 1 \in 1..(n - 1) /\ ~(i - 1 < p) /\ (i - 1) + 1 = i
            BY <1>0, <4>3
          <5> QED BY <2>6, <5>1
        <4> QED BY <4>1, <4>2, <4>3
      <3>2. ASSUME NEW j \in 1..(n - 1) PROVE \E i \in 1..n : new[j] = list[i] /\ list[i] # e
        <4>1. CASE j < p
          <5>1. j \in 1..n /\ j # p /\ new[j] = list[j] /\ list[p] = e
            BY <1>0, <2>6, <4>1
          <5> QED BY <1>0, <5>1
        <4>2. CASE ~(j < p)
          <5>1. j + 1 \in 1..n /\ j + 1 # p /\ new[j] = list[j + 1] /\ list[p] = e
            BY <1>0, <2>6, <4>2
          <5> QED BY <1>0, <5>1
        <4> QED BY <4>1, <4>2
      <3>3. \A x : x \in ToSet(new) <=> \E j \in 1..(n - 1) : new[j] = x
        BY <2>6 DEF ToSet
      <3>4. \A x : x \in ToSet(list) <=> \E i \in 1..n : list[i] = x
        BY <1>0 DEF ToSet
      <3>5. ASSUME NEW x, x \in ToSet(new) PROVE x \in ToSet(list) \ {e}
        BY <3>2, <3>3, <3>4, <3>5
      <3>6. ASSUME NEW x, x \in ToSet(list), x # e PROVE x \in ToSet(new)
        BY <3>1, <3>3, <3>4, <3>6
      <3> QED BY <3>5, <3>6
    <2>8. ASSUME NEW i \in 1..(n - 1), NEW j \in 1..(n - 1), new[i] = new[j] PROVE i = j
      <3> DEFINE at(x) == IF x < p THEN x ELSE x + 1
      <3>1. at(i) \in 1..n /\ at(j) \in 1..n /\ list[at(i)] = new[i] /\ list[at(j)] = new[j]
        BY <1>0, <2>6
      <3>2. at(i) = at(j)
        BY <1>0, <2>8, <3>1
      <3> QED BY <1>0, <3>2
    <2>9. new # list /\ e \in ToSet(list)
      BY <1>0, <2>6 DEF ToSet
    <2> QED BY <2>6, <2>7, <2>8, <2>9 DEF new
  <1> QED BY <1>1, <1>2

-----------------------------------------------------------------------------
\* What a line does to the list of s, and to whom it is passed on.

\* What a line becomes on the stream it is passed on to: mo_gline sends an addition
\* apart first.
Sent(q, line) ==
    IF line.cmd = "ADD" /\ ~masks
    THEN Append(Append(q, ApartMsg(line.entry, line.burst)), line)
    ELSE Append(q, line)

PassedOn(s, from, line, w) ==
    \A l \in Link : wire'[l] =
      IF l[1] = s /\ l \in established /\ l[2] # from THEN Sent(w[l], line) ELSE w[l]

SentLines(line) == IF line.cmd = "ADD" THEN AddLines(line) ELSE <<line>>

\* What an addition says, in one word and apart.
LEMMA AdditionParts ==
    /\ \A e, b : AddMsg(e, b).cmd = "ADD" /\ AddMsg(e, b).entry = e /\ AddMsg(e, b).burst = b
    /\ \A e, b : ApartMsg(e, b).cmd = "APART" /\ ApartMsg(e, b).entry = e /\ ApartMsg(e, b).burst = b
  BY DEF AddMsg, ApartMsg

\* The kinds of lines.
LEMMA LineTypes ==
    /\ \A e \in Entry, b \in BOOLEAN : AddMsg(e, b) \in Messages /\ ApartMsg(e, b) \in Messages
    /\ \A e \in Entry : DeleteMsg(e) \in Messages
    /\ ClearMsg \in Messages
    /\ Burst \subseteq Messages
    /\ \A m \in Burst : m.cmd \in {"ADD", "APART"} /\ m.burst = TRUE
    /\ \A m \in Messages : m.cmd \in {"ADD", "APART"} => m.burst \in BOOLEAN /\ (m.burst = TRUE => m \in Burst)
    /\ \A e \in Entry : AddMsg(e, FALSE) \notin Burst /\ DeleteMsg(e) \notin Burst /\ ClearMsg \notin Burst
    /\ \A m \in Messages : m.cmd \in {"ADD", "APART", "DELETE"} => m.entry \in Entry
    /\ \A m \in Messages : m.cmd \in {"ADD", "APART", "DELETE", "CLEAR"}
  <1>1. /\ \A e \in Entry, b \in BOOLEAN : AddMsg(e, b) \in Messages /\ ApartMsg(e, b) \in Messages
        /\ \A e \in Entry : DeleteMsg(e) \in Messages
        /\ ClearMsg \in Messages
        /\ Burst \subseteq Messages
    <2>1. ASSUME NEW e \in Entry, NEW b \in BOOLEAN PROVE AddMsg(e, b) \in Messages /\ ApartMsg(e, b) \in Messages
      BY DEF Messages
    <2>2. ASSUME NEW e \in Entry PROVE DeleteMsg(e) \in Messages
      BY DEF Messages
    <2>3. ClearMsg \in Messages
      BY DEF Messages
    <2>4. Burst \subseteq Messages
      BY <2>1 DEF Burst
    <2> QED BY <2>1, <2>2, <2>3, <2>4
  <1>2. \A m \in Burst : m.cmd \in {"ADD", "APART"} /\ m.burst = TRUE
    BY DEF Burst, AddMsg, ApartMsg
  <1>3. \A e \in Entry : AddMsg(e, FALSE) \notin Burst /\ DeleteMsg(e) \notin Burst
    BY <1>2 DEF AddMsg, DeleteMsg
  <1>4. ClearMsg \notin Burst
    BY <1>2 DEF ClearMsg
  <1>5. ASSUME NEW m \in Messages
        PROVE  /\ m.cmd \in {"ADD", "APART", "DELETE", "CLEAR"}
               /\ m.cmd \in {"ADD", "APART", "DELETE"} => m.entry \in Entry
    BY DEF Messages, AddMsg, ApartMsg, DeleteMsg, ClearMsg
  <1>6. ASSUME NEW m \in Messages, m.cmd \in {"ADD", "APART"}
        PROVE  m.burst \in BOOLEAN /\ (m.burst = TRUE => m \in Burst)
    <2>1. m # ClearMsg /\ m \notin {DeleteMsg(e) : e \in Entry}
      BY <1>6 DEF DeleteMsg, ClearMsg
    <2>2. PICK e \in Entry, b \in BOOLEAN : m = AddMsg(e, b) \/ m = ApartMsg(e, b)
      BY <2>1 DEF Messages
    <2>3. m.burst = b
      BY <2>2 DEF AddMsg, ApartMsg
    <2> QED BY <2>2, <2>3 DEF Burst
  <1>8. \A m \in Messages : m.cmd \in {"ADD", "APART"} => m.burst \in BOOLEAN /\ (m.burst = TRUE => m \in Burst)
    BY <1>6
  <1>9. /\ \A m \in Messages : m.cmd \in {"ADD", "APART", "DELETE"} => m.entry \in Entry
        /\ \A m \in Messages : m.cmd \in {"ADD", "APART", "DELETE", "CLEAR"}
    BY <1>5
  <1>10. \A e \in Entry : AddMsg(e, FALSE) \notin Burst /\ DeleteMsg(e) \notin Burst /\ ClearMsg \notin Burst
    BY <1>3, <1>4
  <1> QED BY <1>1, <1>2, <1>8, <1>9, <1>10

\* The line that goes before an addition.
LEMMA ApartTypes ==
    ASSUME NEW line \in Messages, line.cmd = "ADD"
    PROVE  LET apart == ApartMsg(line.entry, line.burst)
           IN  apart \in Messages /\ apart.cmd = "APART" /\ (apart \in Burst <=> line \in Burst)
  <1> DEFINE apart == ApartMsg(line.entry, line.burst)
  <1>1. line.entry \in Entry /\ line.burst \in BOOLEAN
    BY LineTypes
  <1>2. apart \in Messages /\ apart.cmd = "APART" /\ apart.burst = line.burst
    BY <1>1, LineTypes, AdditionParts
  <1> HIDE DEF apart
  <1>3. apart \in Burst <=> line \in Burst
    BY <1>2, LineTypes
  <1> QED BY <1>2, <1>3 DEF apart

\* A stream and what was sent on it.
LEMMA AppendedValues ==
    ASSUME NEW q \in Seq(Messages), NEW m \in Messages
    PROVE  LET p == Append(q, m)
           IN  /\ p \in Seq(Messages) /\ Len(q) \in Nat /\ Len(p) = Len(q) + 1
               /\ Len(p) \in DOMAIN p /\ p[Len(p)] = m
               /\ \A i \in DOMAIN q : i \in DOMAIN p /\ p[i] = q[i]
               /\ \A i \in DOMAIN p : i = Len(p) \/ (i \in DOMAIN q /\ p[i] = q[i])
  OBVIOUS

LEMMA SentValues ==
    ASSUME NEW q \in Seq(Messages), NEW line \in Messages
    PROVE  LET p == Sent(q, line)
               apart == ApartMsg(line.entry, line.burst)
           IN  /\ p \in Seq(Messages)
               /\ q \o SentLines(line) = p
               /\ \A i \in DOMAIN q : i \in DOMAIN p /\ p[i] = q[i]
               /\ \A i \in DOMAIN p :
                    \/ p[i] = line
                    \/ line.cmd = "ADD" /\ ~masks /\ p[i] = apart
                    \/ i \in DOMAIN q /\ p[i] = q[i]
  <1> DEFINE apart == ApartMsg(line.entry, line.burst)
             a == Append(q, apart)
  <1>1. CASE line.cmd = "ADD" /\ ~masks
    <2>1. apart \in Messages
      BY <1>1, ApartTypes
    <2> HIDE DEF apart
    <2>2. /\ a \in Seq(Messages)
          /\ \A i \in DOMAIN q : i \in DOMAIN a /\ a[i] = q[i]
          /\ \A i \in DOMAIN a : a[i] = apart \/ (i \in DOMAIN q /\ a[i] = q[i])
      BY <2>1, AppendedValues
    <2>3. q \o <<apart, line>> = Append(a, line)
      BY <2>1
    <2> HIDE DEF a
    <2> DEFINE p == Append(a, line)
    <2>4. /\ p \in Seq(Messages)
          /\ \A i \in DOMAIN a : i \in DOMAIN p /\ p[i] = a[i]
          /\ \A i \in DOMAIN p : p[i] = line \/ (i \in DOMAIN a /\ p[i] = a[i])
      BY <2>2, AppendedValues
    <2>5. Sent(q, line) = p /\ q \o SentLines(line) = p
      BY <1>1, <2>3 DEF Sent, SentLines, AddLines, a, apart
    <2> HIDE DEF p
    <2>6. /\ \A i \in DOMAIN q : i \in DOMAIN p /\ p[i] = q[i]
          /\ \A i \in DOMAIN p : p[i] = line \/ p[i] = apart \/ (i \in DOMAIN q /\ p[i] = q[i])
      BY <2>2, <2>4
    <2>7. p = Sent(q, line)
      BY <2>5
    <2> HIDE DEF p
    <2> QED BY <1>1, <2>4, <2>5, <2>6, <2>7 DEF apart
  <1>2. CASE ~(line.cmd = "ADD" /\ ~masks)
    <2>1. Sent(q, line) = Append(q, line) /\ q \o SentLines(line) = Append(q, line)
      BY <1>2 DEF Sent, SentLines, AddLines
    <2>2. /\ Append(q, line) \in Seq(Messages)
          /\ \A i \in DOMAIN q : i \in DOMAIN Append(q, line) /\ Append(q, line)[i] = q[i]
          /\ \A i \in DOMAIN Append(q, line) :
               Append(q, line)[i] = line \/ (i \in DOMAIN q /\ Append(q, line)[i] = q[i])
      BY AppendedValues
    <2>3. PICK p : p = Append(q, line)
      OBVIOUS
    <2>4. /\ p \in Seq(Messages) /\ \A i \in DOMAIN q : i \in DOMAIN p /\ p[i] = q[i]
          /\ \A i \in DOMAIN p : p[i] = line \/ (i \in DOMAIN q /\ p[i] = q[i])
      BY <2>2, <2>3
    <2>5. Sent(q, line) = p /\ q \o SentLines(line) = p
      BY <2>1, <2>3
    <2> QED BY ONLY <2>4, <2>5
  <1> QED BY <1>1, <1>2

\* sendto_server sends what a line becomes to each neighbour but the one it came from.
LEMMA RelayedValues ==
    ASSUME NEW w \in [Link -> Seq(Messages)], NEW s, NEW from, NEW line \in Messages,
           wire' = After(w, Relayed(s, from, SentLines(line)))
    PROVE  wire' \in [Link -> Seq(Messages)] /\ PassedOn(s, from, line, w)
  <1>1. ASSUME NEW l \in Link
        PROVE  wire'[l] = IF l[1] = s /\ l \in established /\ l[2] # from
                          THEN Sent(w[l], line) ELSE w[l]
    <2>1. w[l] \in Seq(Messages)
      OBVIOUS
    <2>2. w[l] \o SentLines(line) = Sent(w[l], line) /\ w[l] \o <<>> = w[l]
      BY <2>1, SentValues
    <2> QED BY <2>2 DEF After, Relayed
  <1>2. wire' = [l \in Link |-> wire'[l]]
    BY DEF After
  <1>3. ASSUME NEW l \in Link PROVE wire'[l] \in Seq(Messages)
    <2>1. w[l] \in Seq(Messages) /\ Sent(w[l], line) \in Seq(Messages)
      BY SentValues
    <2> QED BY <1>1, <2>1
  <1> QED BY <1>1, <1>2, <1>3 DEF PassedOn

Others(s) == \A r \in Server \ {s} : Held(r)' = Held(r)

\* mo_gline, PROXY: what an addition makes of the list and of the streams.
LEMMA AddValues ==
    ASSUME ListTypeOK, NoTwice, NEW w \in [Link -> Seq(Messages)], NEW s \in Server, NEW from,
           NEW line \in Messages, Add(s, from, line, w), masks' = masks
    PROVE  /\ line.cmd = "ADD" /\ line.entry \in Entry
           /\ entries' \in [Server -> Seq(Entry)] /\ wire' \in [Link -> Seq(Messages)] /\ NoTwice'
           /\ Others(s)
           /\ \/ /\ \E m \in Held(s) : Matches(m, line.entry)
                 /\ Held(s)' = Held(s) /\ wire' = w
              \/ /\ ~\E m \in Held(s) : Matches(m, line.entry)
                 /\ Held(s)' = Held(s) \cup {line.entry} /\ PassedOn(s, from, line, w)
  <1> DEFINE e == line.entry
             new == <<e>> \o entries[s]
             n == Len(entries[s])
  <1>1. line.cmd = "ADD" /\ e \in Entry /\ SentLines(line) = AddLines(line)
    BY LineTypes DEF Add, SentLines
  <1>2. entries[s] \in Seq(Entry) /\ entries \in [Server -> Seq(Entry)] /\ n \in Nat
    BY DEF ListTypeOK
  <1>3. /\ new \in Seq(Entry) /\ Len(new) = n + 1 /\ new[1] = e
        /\ DOMAIN new = 1..(n + 1) /\ 1 \in 1..(n + 1)
        /\ \A i \in 1..n : new[i + 1] = entries[s][i]
        /\ \A i \in 2..(n + 1) : new[i] = entries[s][i - 1]
    BY <1>1, <1>2
  <1> HIDE DEF new
  <1>4. CASE Known(s, e)
    <2>1. entries' = entries /\ wire' = w
      BY <1>2, <1>4 DEF Add
    <2>2. Others(s) /\ Held(s)' = Held(s) /\ NoTwice'
      BY <2>1 DEF Others, Held, NoTwice
    <2> QED BY <1>1, <1>2, <1>4, <2>1, <2>2, HeldIs
  <1>5. CASE ~Known(s, e)
    <2>1. entries' = [entries EXCEPT ![s] = new] /\ wire' = After(w, Relayed(s, from, SentLines(line)))
      BY <1>1, <1>5 DEF Add, new
    <2>2. ~\E m \in Held(s) : Matches(m, e)
      BY <1>5, HeldIs
    <2>3. entries'[s] = new /\ \A r \in Server \ {s} : entries'[r] = entries[r]
      BY <1>2, <2>1
    <2>4. Others(s)
      BY <2>3 DEF Others, Held
    <2>5. Held(s)' = Held(s) \cup {e}
      <3>1. \A x : x \in ToSet(new) <=> \E i \in 1..(n + 1) : new[i] = x
        BY <1>3 DEF ToSet
      <3>2. \A x : x \in ToSet(entries[s]) <=> \E i \in 1..n : entries[s][i] = x
        BY <1>2 DEF ToSet
      <3>3. ASSUME NEW x, x \in ToSet(new) PROVE x \in ToSet(entries[s]) \cup {e}
        <4>1. PICK i \in 1..(n + 1) : new[i] = x
          BY <3>1, <3>3
        <4>2. i = 1 \/ (i \in 2..(n + 1) /\ i - 1 \in 1..n)
          BY <1>2
        <4> QED BY <1>3, <3>2, <4>1, <4>2
      <3>4. ASSUME NEW x, x \in ToSet(entries[s]) \cup {e} PROVE x \in ToSet(new)
        <4>1. CASE x = e
          BY <1>2, <1>3, <3>1, <4>1
        <4>2. CASE x # e
          <5>1. PICK i \in 1..n : entries[s][i] = x
            BY <3>2, <3>4, <4>2
          <5>2. i + 1 \in 1..(n + 1)
            BY <1>2
          <5> QED BY <1>3, <3>1, <5>1, <5>2
        <4> QED BY <4>1, <4>2
      <3> QED BY <2>3, <3>3, <3>4 DEF Held
    <2>6. NoTwice'
      <3> SUFFICES ASSUME NEW r \in Server, NEW i \in DOMAIN entries'[r], NEW j \in DOMAIN entries'[r],
                          entries'[r][i] = entries'[r][j]
                   PROVE  i = j
        BY DEF NoTwice
      <3>1. CASE r # s
        BY <2>3, <3>1 DEF NoTwice
      <3>2. CASE r = s
        <4>1. i \in 1..(n + 1) /\ j \in 1..(n + 1) /\ new[i] = new[j]
          BY <1>2, <1>3, <2>3, <3>2
        <4>2. \A k \in 1..n : entries[s][k] # e
          BY <1>1, <1>2, <2>2, HeldIs, MatchesOrder
        <4>3. ASSUME NEW k \in 2..(n + 1)
              PROVE  new[k] # e /\ new[k] = entries[s][k - 1] /\ k - 1 \in 1..n
          <5>1. k - 1 \in 1..n /\ new[k] = entries[s][k - 1]
            BY <1>2, <1>3
          <5> QED BY <4>2, <5>1
        <4>4. CASE i = 1 \/ j = 1
          <5>1. i = 1 /\ j # 1 => j \in 2..(n + 1)
            BY <1>2, <4>1
          <5>2. j = 1 /\ i # 1 => i \in 2..(n + 1)
            BY <1>2, <4>1
          <5> QED BY <1>3, <4>1, <4>3, <4>4, <5>1, <5>2
        <4>5. CASE i # 1 /\ j # 1
          <5>1. i \in 2..(n + 1) /\ j \in 2..(n + 1)
            BY <1>2, <4>1, <4>5
          <5>2. i - 1 = j - 1
            BY <1>2, <4>1, <4>3, <5>1 DEF NoTwice
          <5> QED BY <1>2, <5>1, <5>2
        <4> QED BY <4>4, <4>5
      <3> QED BY <3>1, <3>2
    <2> QED BY <1>1, <1>2, <1>3, <2>1, <2>2, <2>4, <2>5, <2>6, RelayedValues
  <1> QED BY <1>4, <1>5

\* mo_ungline, UNPROXY: what a removal makes of them.
LEMMA DeleteValues ==
    ASSUME ListTypeOK, NoTwice, NEW w \in [Link -> Seq(Messages)], NEW s \in Server, NEW from,
           NEW line \in Messages, Delete(s, from, line, w), masks' = masks
    PROVE  /\ line.cmd = "DELETE" /\ line.entry \in Entry
           /\ entries' \in [Server -> Seq(Entry)] /\ wire' \in [Link -> Seq(Messages)] /\ NoTwice'
           /\ Others(s) /\ Held(s)' = Held(s) \ {line.entry}
           /\ \/ line.entry \notin Held(s) /\ wire' = w
              \/ line.entry \in Held(s) /\ PassedOn(s, from, line, w)
  <1> DEFINE e == line.entry
             new == Removed(s, e)
  <1>1. line.cmd = "DELETE" /\ e \in Entry /\ SentLines(line) = <<line>>
    BY LineTypes DEF Delete, SentLines
  <1>2. entries[s] \in Seq(Entry) /\ entries \in [Server -> Seq(Entry)]
    BY DEF ListTypeOK
  <1>3. /\ new \in Seq(Entry) /\ ToSet(new) = Held(s) \ {e}
        /\ \A i, j \in DOMAIN new : new[i] = new[j] => i = j
        /\ new = entries[s] <=> e \notin Held(s)
    BY <1>2, RemovedValues DEF NoTwice, Removed, Held
  <1>4. entries' = [entries EXCEPT ![s] = new]
    BY DEF Delete
  <1> HIDE DEF new
  <1>5. entries'[s] = new /\ \A r \in Server \ {s} : entries'[r] = entries[r]
    BY <1>2, <1>4
  <1>6. Others(s) /\ Held(s)' = Held(s) \ {e}
    BY <1>3, <1>5 DEF Others, Held
  <1>7. NoTwice'
    BY <1>3, <1>5 DEF NoTwice
  <1>8. wire' \in [Link -> Seq(Messages)]
        /\ \/ e \notin Held(s) /\ wire' = w
           \/ e \in Held(s) /\ PassedOn(s, from, line, w)
    <2>1. wire' = IF entries[s] = new THEN w ELSE After(w, Relayed(s, from, SentLines(line)))
      BY <1>1 DEF Delete, new
    <2>2. CASE e \notin Held(s)
      BY <1>3, <2>1, <2>2
    <2>3. CASE e \in Held(s)
      <3>1. wire' = After(w, Relayed(s, from, SentLines(line)))
        BY <1>3, <2>1, <2>3
      <3> QED BY <2>3, <3>1, RelayedValues
    <2> QED BY <2>2, <2>3
  <1> QED BY <1>1, <1>2, <1>3, <1>4, <1>6, <1>7, <1>8

\* SVSINFO: what it makes of them.
LEMMA ClearValues ==
    ASSUME ListTypeOK, NoTwice, NEW w \in [Link -> Seq(Messages)], NEW s \in Server, NEW from,
           NEW line \in Messages, SvsInfo(s, from, line, w), masks' = masks
    PROVE  /\ line.cmd = "CLEAR"
           /\ entries' \in [Server -> Seq(Entry)] /\ wire' \in [Link -> Seq(Messages)] /\ NoTwice'
           /\ Others(s) /\ Held(s)' = {} /\ PassedOn(s, from, line, w)
  <1>1. /\ line.cmd = "CLEAR" /\ entries' = [entries EXCEPT ![s] = <<>>]
        /\ SentLines(line) = <<line>>
    BY DEF SvsInfo, SentLines
  <1>2. wire' \in [Link -> Seq(Messages)] /\ PassedOn(s, from, line, w)
    BY <1>1, RelayedValues DEF SvsInfo
  <1>3. entries' \in [Server -> Seq(Entry)] /\ entries'[s] = <<>>
        /\ \A r \in Server \ {s} : entries'[r] = entries[r]
    BY <1>1 DEF ListTypeOK
  <1>4. Others(s) /\ Held(s)' = {} /\ NoTwice'
    BY <1>3 DEF Others, Held, ToSet, NoTwice
  <1> QED BY <1>1, <1>2, <1>3, <1>4

\* Whatever the line, one list changes and lines are only added to streams.
LEMMA HandlerValues ==
    ASSUME ListTypeOK, NoTwice, NEW w \in [Link -> Seq(Messages)], NEW s \in Server, NEW from,
           NEW line \in Messages, Handler(s, from, line, w), masks' = masks
    PROVE  /\ entries' \in [Server -> Seq(Entry)] /\ wire' \in [Link -> Seq(Messages)] /\ NoTwice'
           /\ wire' = w \/ PassedOn(s, from, line, w)
  BY AddValues, DeleteValues, ClearValues DEF Handler

-----------------------------------------------------------------------------
\* A burst is the only thing that goes up, and only to who is in the serv_list.
UpAndDown ==
    /\ \A s \in Below : \A i \in DOMAIN wire[Up(s)] : wire[Up(s)][i] \in Burst
    /\ \A l \in Link \ established : wire[l] = <<>>

\* Only a G-line comes apart, and is read as another.
NothingApart ==
    masks => /\ misread = {}
             /\ \A l \in Link : \A i \in DOMAIN wire[l] : wire[l][i].cmd # "APART"

ListBase == ListTypeOK /\ NoTwice /\ UpAndDown /\ NothingApart

\* What Receive takes off a stream.
Popped(t, s) == [wire EXCEPT ![<<t, s>>] = Tail(@)]

\* A stream whose first line has been taken.
LEMMA PoppedValues ==
    ASSUME ListTypeOK, NEW s, NEW t, <<t, s>> \in Link, wire[<<t, s>>] # <<>>
    PROVE  LET q == wire[<<t, s>>]
           IN  /\ Popped(t, s) \in [Link -> Seq(Messages)]
               /\ \A l \in Link \ {<<t, s>>} : Popped(t, s)[l] = wire[l]
               /\ Popped(t, s)[<<t, s>>] = Tail(q)
               /\ Head(q) \in Messages /\ Head(q) = q[1] /\ 1 \in DOMAIN q
               /\ Len(q) \in Nat /\ Len(Tail(q)) = Len(q) - 1
               /\ \A i \in DOMAIN Tail(q) : i + 1 \in DOMAIN q /\ Tail(q)[i] = q[i + 1]
               /\ \A i \in DOMAIN q : i = 1 \/ (i - 1 \in DOMAIN Tail(q) /\ Tail(q)[i - 1] = q[i])
  <1> DEFINE q == wire[<<t, s>>]
  <1>1. q \in Seq(Messages) /\ q # <<>> /\ wire \in [Link -> Seq(Messages)]
    BY DEF ListTypeOK
  <1>2. Tail(q) \in Seq(Messages)
    BY <1>1
  <1>3. /\ Head(q) \in Messages /\ Head(q) = q[1] /\ 1 \in DOMAIN q
        /\ Len(q) \in Nat /\ Len(Tail(q)) = Len(q) - 1
        /\ \A i \in DOMAIN Tail(q) : i + 1 \in DOMAIN q /\ Tail(q)[i] = q[i + 1]
        /\ \A i \in DOMAIN q : i = 1 \/ (i - 1 \in DOMAIN Tail(q) /\ Tail(q)[i - 1] = q[i])
    <2>1. /\ Len(q) \in Nat /\ Len(q) >= 1 /\ DOMAIN q = 1..Len(q)
          /\ Head(q) = q[1] /\ q[1] \in Messages
          /\ Len(Tail(q)) = Len(q) - 1 /\ \A i \in 1..(Len(q) - 1) : Tail(q)[i] = q[i + 1]
      BY <1>1, HeadTailProperties
    <2>2. DOMAIN Tail(q) = 1..(Len(q) - 1)
      BY <1>2, <2>1
    <2>3. ASSUME NEW i \in DOMAIN q, i # 1
          PROVE  i - 1 \in 1..(Len(q) - 1) /\ (i - 1) + 1 = i
      BY <2>1, <2>3
    <2>4. ASSUME NEW i \in 1..(Len(q) - 1) PROVE i + 1 \in 1..Len(q)
      BY <2>1
    <2> HIDE DEF q
    <2> QED BY <2>1, <2>2, <2>3, <2>4
  <1>4. /\ Popped(t, s) \in [Link -> Seq(Messages)]
        /\ \A l \in Link \ {<<t, s>>} : Popped(t, s)[l] = wire[l]
        /\ Popped(t, s)[<<t, s>>] = Tail(q)
    BY <1>1, <1>2 DEF Popped
  <1> QED BY <1>3, <1>4

\* A line that a handler got may go to whoever it is passed on to.
LEMMA HandlerBase ==
    ASSUME ListBase, NEW s \in Server, NEW from, NEW line \in Messages,
           NEW w \in [Link -> Seq(Messages)], Handler(s, from, line, w),
           masks' = masks, established' = established, said' \subseteq Entry, crossed' \in BOOLEAN,
           budget' \in [Happening -> Nat], misread' \subseteq Entry, masks => misread' = {},
           s \in Below /\ from # Toward[s] => line \in Burst,
           masks => \A l \in Link : \A i \in DOMAIN w[l] : w[l][i].cmd # "APART",
           \A r \in Below : \A i \in DOMAIN w[Up(r)] : w[Up(r)][i] \in Burst,
           \A l \in Link \ established : w[l] = <<>>
    PROVE  ListBase'
  <1>1. /\ entries' \in [Server -> Seq(Entry)] /\ wire' \in [Link -> Seq(Messages)] /\ NoTwice'
        /\ wire' = w \/ PassedOn(s, from, line, w)
    BY HandlerValues DEF ListBase
  <1>2. ListTypeOK'
    BY <1>1 DEF ListBase, ListTypeOK
  <1>3. \A l \in Link \ established : wire'[l] = <<>>
    BY <1>1 DEF PassedOn
  <1>4. ASSUME NEW r \in Below, NEW i \in DOMAIN wire'[Up(r)] PROVE wire'[Up(r)][i] \in Burst
    <2>1. Up(r) \in Link /\ Up(r)[1] = r /\ Up(r)[2] = Toward[r]
      BY TowardHub DEF Up
    <2>2. CASE wire'[Up(r)] = w[Up(r)]
      BY <1>4, <2>2
    <2>3. CASE wire'[Up(r)] # w[Up(r)]
      <3> DEFINE apart == ApartMsg(line.entry, line.burst)
                 q == w[Up(r)]
      <3>1. r = s /\ Toward[r] # from /\ wire'[Up(r)] = Sent(q, line)
        BY <1>1, <2>1, <2>3 DEF PassedOn
      <3>2. line \in Burst /\ q \in Seq(Messages)
        BY <2>1, <3>1
      <3>3. line.cmd = "ADD" => apart \in Burst
        BY <3>2, ApartTypes
      <3> HIDE DEF apart
      <3>4. \/ wire'[Up(r)][i] = line
            \/ line.cmd = "ADD" /\ wire'[Up(r)][i] = apart
            \/ i \in DOMAIN q /\ wire'[Up(r)][i] = q[i]
        <4>1. i \in DOMAIN Sent(q, line)
          BY <1>4, <3>1
        <4>2. \A j \in DOMAIN Sent(q, line) :
                \/ Sent(q, line)[j] = line
                \/ line.cmd = "ADD" /\ Sent(q, line)[j] = apart
                \/ j \in DOMAIN q /\ Sent(q, line)[j] = q[j]
          BY ONLY line \in Messages, <3>2, SentValues DEF apart
        <4> QED BY <3>1, <4>1, <4>2
      <3> QED BY <3>2, <3>3, <3>4
    <2> QED BY <2>2, <2>3
  <1>5. ASSUME masks', NEW l \in Link, NEW i \in DOMAIN wire'[l] PROVE wire'[l][i].cmd # "APART"
    <2>1. masks /\ line.cmd # "APART"
      BY <1>5 DEF Handler, Add, Delete, SvsInfo
    <2>2. CASE wire'[l] = w[l]
      BY <1>5, <2>1, <2>2
    <2>3. CASE wire'[l] # w[l]
      <3>1. wire'[l] = Sent(w[l], line) /\ w[l] \in Seq(Messages)
        BY <1>1, <2>3 DEF PassedOn
      <3>2. wire'[l][i] = line \/ (i \in DOMAIN w[l] /\ wire'[l][i] = w[l][i])
        BY <1>5, <2>1, <3>1, SentValues
      <3> QED BY <2>1, <3>2
    <2> QED BY <2>2, <2>3
  <1> QED BY <1>1, <1>2, <1>3, <1>4, <1>5 DEF ListBase, UpAndDown, NothingApart

\* What services say does so.
LEMMA ServicesBase ==
    ASSUME ListBase, NEW line \in Messages, NEW what \in Happening, FromServices(what, line),
           said' \subseteq Entry, crossed' \in BOOLEAN
    PROVE  ListBase'
  <1>1. /\ Handler(Hub, Hub, line, wire) /\ masks' = masks /\ established' = established
        /\ budget' \in [Happening -> Nat] /\ wire \in [Link -> Seq(Messages)]
        /\ misread' = misread /\ misread \subseteq Entry
    BY DEF FromServices, Spends, ListBase, ListTypeOK
  <1>2. Hub \in Server /\ Hub \notin Below
    BY TowardHub DEF Below
  <1> QED BY <1>1, <1>2, HandlerBase DEF ListBase, UpAndDown, NothingApart

\* find_user_host makes another addition of what came apart, which is placed like one.
LEMMA MisreadParts ==
    ASSUME ListTypeOK, NEW s, NEW from, NEW line \in Messages, NEW w, Misread(s, from, line, w)
    PROVE  /\ line.cmd = "APART"
           /\ \E m \in Messages :
                /\ Handler(s, from, m, w)
                /\ m.cmd = "ADD" /\ m.entry \in Entry /\ (m \in Burst <=> line \in Burst)
                /\ misread' = IF Known(s, m.entry) THEN misread ELSE misread \cup {m.entry}
                /\ crossed' = (crossed \/ (line.burst /\ ~Known(s, m.entry)))
  <1>1. line.cmd = "APART" /\ line.burst \in BOOLEAN
    BY LineTypes DEF Misread
  <1>2. PICK e \in Entry :
          /\ Add(s, from, AddMsg(e, line.burst), w)
          /\ misread' = IF Known(s, e) THEN misread ELSE misread \cup {e}
          /\ crossed' = (crossed \/ (line.burst /\ ~Known(s, e)))
    BY DEF Misread
  <1>3. PICK m \in Messages : m = AddMsg(e, line.burst)
    BY <1>1, LineTypes
  <1>4. m.cmd = "ADD" /\ m.entry = e /\ m.burst = line.burst
    BY <1>3, AdditionParts
  <1>5. m \in Burst <=> line \in Burst
    BY <1>1, <1>4, LineTypes
  <1>6. Handler(s, from, m, w)
    BY <1>2, <1>3 DEF Handler
  <1> QED BY <1>1, <1>2, <1>4, <1>5, <1>6

\* What is parsed: the first line of an established link.
LEMMA ReceiveParts ==
    ASSUME ListBase, NEW s \in Server, NEW t \in Server, Receive(s, t)
    PROVE  /\ <<t, s>> \in Link /\ wire[<<t, s>>] # <<>> /\ <<t, s>> \in established
           /\ Popped(t, s) \in [Link -> Seq(Messages)]
           /\ Head(wire[<<t, s>>]) \in Messages
           /\ \/ /\ Handler(s, t, Head(wire[<<t, s>>]), Popped(t, s))
                 /\ misread' = misread /\ crossed' = crossed
              \/ NobodyFound(Head(wire[<<t, s>>]), Popped(t, s))
              \/ Misread(s, t, Head(wire[<<t, s>>]), Popped(t, s))
           /\ masks' = masks /\ established' = established /\ said' = said
           /\ budget' = budget
  <1>1. <<s, t>> \in Link
    BY DEF Receive, ListBase, ListTypeOK
  <1>2. <<t, s>> \in Link
    BY <1>1, LinkEnds
  <1> QED BY <1>2, PoppedValues DEF Receive, Popped, ListBase, UpAndDown

\* Parsing a line leaves every list without doubles and nothing but bursts going up.
LEMMA ReceiveBase ==
    ASSUME ListBase, NEW s \in Server, NEW t \in Server, Receive(s, t)
    PROVE  ListBase'
  <1> DEFINE line == Head(wire[<<t, s>>])
             w == Popped(t, s)
             q == wire[<<t, s>>]
  <1>1. /\ <<t, s>> \in Link /\ q # <<>> /\ <<t, s>> \in established
        /\ w \in [Link -> Seq(Messages)] /\ line \in Messages
        /\ \/ Handler(s, t, line, w) /\ misread' = misread /\ crossed' = crossed
           \/ NobodyFound(line, w)
           \/ Misread(s, t, line, w)
        /\ masks' = masks /\ established' = established /\ said' = said /\ budget' = budget
    BY ReceiveParts
  <1>0. ListTypeOK
    BY DEF ListBase
  <1>6. /\ \A l \in Link \ {<<t, s>>} : w[l] = wire[l]
        /\ w[<<t, s>>] = Tail(q)
    <2>1. <<t, s>> \in Link /\ wire[<<t, s>>] # <<>>
      BY <1>1
    <2> QED BY ONLY <1>0, <2>1, PoppedValues
  <1>7. /\ line = q[1] /\ 1 \in DOMAIN q
        /\ \A i \in DOMAIN Tail(q) : i + 1 \in DOMAIN q /\ Tail(q)[i] = q[i + 1]
    <2>1. <<t, s>> \in Link /\ wire[<<t, s>>] # <<>>
      BY <1>1
    <2> QED BY ONLY <1>0, <2>1, PoppedValues
  <1> HIDE DEF w, line
  <1>2. s \in Below /\ t # Toward[s] => line \in Burst
    <2> SUFFICES ASSUME s \in Below, t # Toward[s] PROVE line \in Burst
      OBVIOUS
    <2>1. PICK r \in Below : <<t, s>> = Up(r) \/ <<t, s>> = Down(r)
      BY <1>1, TowardHub
    <2>2. <<t, s>> = Up(r)
      BY <2>1 DEF Up, Down
    <2>3. \A i \in DOMAIN q : q[i] \in Burst
      BY <2>2 DEF ListBase, UpAndDown
    <2> QED BY <1>7, <2>3
  <1>3. ASSUME NEW r \in Below, NEW i \in DOMAIN w[Up(r)] PROVE w[Up(r)][i] \in Burst
    <2>1. Up(r) \in Link
      BY TowardHub
    <2>2. CASE Up(r) = <<t, s>>
      <3>1. \A j \in DOMAIN q : q[j] \in Burst
        BY <2>2 DEF ListBase, UpAndDown
      <3>2. i \in DOMAIN Tail(q) /\ w[Up(r)][i] = Tail(q)[i]
        BY <1>3, <1>6, <2>2
      <3> HIDE DEF q
      <3> QED BY <1>7, <3>1, <3>2
    <2>3. CASE Up(r) # <<t, s>>
      BY <1>3, <1>6, <2>1, <2>3 DEF ListBase, UpAndDown
    <2> QED BY <2>2, <2>3
  <1>4. \A l \in Link \ established : w[l] = <<>>
    BY <1>1, <1>6 DEF ListBase, UpAndDown
  <1>8. ASSUME masks
        PROVE  /\ \A l \in Link : \A i \in DOMAIN w[l] : w[l][i].cmd # "APART"
               /\ misread = {} /\ line.cmd # "APART"
    <2>1. /\ \A l \in Link : \A i \in DOMAIN wire[l] : wire[l][i].cmd # "APART"
          /\ misread = {}
      BY <1>8 DEF ListBase, NothingApart
    <2>2. \A i \in DOMAIN q : q[i].cmd # "APART"
      BY <1>1, <2>1
    <2> HIDE DEF q
    <2>3. \A i \in DOMAIN w[<<t, s>>] : w[<<t, s>>][i].cmd # "APART"
      BY <1>6, <1>7, <2>2
    <2>4. \A l \in Link \ {<<t, s>>} : \A i \in DOMAIN w[l] : w[l][i].cmd # "APART"
      BY <1>6, <2>1
    <2> QED BY <1>7, <2>1, <2>2, <2>3, <2>4
  <1>5. said' \subseteq Entry /\ budget' \in [Happening -> Nat] /\ crossed \in BOOLEAN /\ misread \subseteq Entry
    BY <1>1 DEF ListBase, ListTypeOK
  <1> HIDE DEF q
  <1>9. CASE Handler(s, t, line, w) /\ misread' = misread /\ crossed' = crossed
    BY <1>1, <1>2, <1>3, <1>4, <1>5, <1>8, <1>9, HandlerBase
  <1>10. CASE NobodyFound(line, w)
    <2>1. entries' = entries /\ misread' = misread /\ crossed' = crossed /\ wire' = w
      BY <1>10 DEF NobodyFound
    <2>2. ListTypeOK'
      BY <1>1, <2>1 DEF ListBase, ListTypeOK
    <2>3. NoTwice'
      BY <2>1 DEF ListBase, NoTwice
    <2>4. UpAndDown' /\ NothingApart'
      BY <1>1, <1>3, <1>4, <1>8, <2>1 DEF UpAndDown, NothingApart
    <2> QED BY <2>2, <2>3, <2>4 DEF ListBase
  <1>11. CASE Misread(s, t, line, w)
    <2>1. PICK m \in Messages :
            /\ Handler(s, t, m, w) /\ m.entry \in Entry /\ (m \in Burst <=> line \in Burst)
            /\ misread' = IF Known(s, m.entry) THEN misread ELSE misread \cup {m.entry}
            /\ crossed' = (crossed \/ (line.burst /\ ~Known(s, m.entry)))
      BY <1>0, <1>1, <1>11, MisreadParts
    <2>2. line.cmd = "APART" /\ ~masks
      BY <1>8, <1>11 DEF Misread
    <2>3. misread' \subseteq Entry /\ crossed' \in BOOLEAN
      BY <1>5, <2>1
    <2>4. s \in Below /\ t # Toward[s] => m \in Burst
      BY <1>2, <2>1
    <2> QED BY <1>1, <1>3, <1>4, <1>5, <2>1, <2>2, <2>3, <2>4, HandlerBase
  <1> QED BY <1>1, <1>9, <1>10, <1>11

\* SEND_PROXYS sends the list, in its order.
LEMMA SentListValues ==
    ASSUME ListTypeOK, NEW s \in Server
    PROVE  /\ SendList(s) \in Seq(Messages) /\ DOMAIN SendList(s) = DOMAIN entries[s]
           /\ \A i \in DOMAIN SendList(s) : SendList(s)[i] = AddMsg(entries[s][i], TRUE)
           /\ \A i \in DOMAIN SendList(s) : SendList(s)[i] \in Burst
  <1>1. entries[s] \in Seq(Entry) /\ DOMAIN entries[s] = 1..Len(entries[s]) /\ Len(entries[s]) \in Nat
    BY DEF ListTypeOK
  <1>2. ASSUME NEW i \in DOMAIN entries[s] PROVE AddMsg(entries[s][i], TRUE) \in Burst /\ AddMsg(entries[s][i], TRUE) \in Messages
    <2>1. entries[s][i] \in Entry
      BY <1>1
    <2> QED BY <2>1, LineTypes DEF Burst
  <1>3. SendList(s) = [i \in 1..Len(entries[s]) |-> AddMsg(entries[s][i], TRUE)]
    BY <1>1 DEF SendList
  <1>4. SendList(s) \in Seq(Messages)
    <2>1. SendList(s) \in [1..Len(entries[s]) -> Messages]
      BY <1>1, <1>2, <1>3
    <2> QED BY <1>1, <2>1
  <1> QED BY <1>1, <1>2, <1>3, <1>4

\* So does server_estab.
LEMMA EstabBase ==
    ASSUME ListBase, NEW s \in Server, NEW t \in Server, ServerEstab(s, t)
    PROVE  ListBase'
  <1>1. SendList(s) \in Seq(Messages) /\ \A i \in DOMAIN SendList(s) : SendList(s)[i] \in Burst
    BY SentListValues DEF ListBase
  <1>2. /\ wire' \in [Link -> Seq(Messages)] /\ wire'[<<s, t>>] = SendList(s)
        /\ \A l \in Link \ {<<s, t>>} : wire'[l] = wire[l]
    BY <1>1 DEF ServerEstab, ListBase, ListTypeOK
  <1>3. established' = established \cup {<<s, t>>} /\ established' \subseteq Link
    BY DEF ServerEstab, ListBase, ListTypeOK
  <1>4. ListTypeOK'
    BY <1>2, <1>3 DEF ServerEstab, ListBase, ListTypeOK
  <1>5. NoTwice'
    BY DEF ServerEstab, ListBase, NoTwice
  <1>6. UpAndDown'
    BY <1>1, <1>2, <1>3, TowardHub DEF ListBase, UpAndDown
  <1>7. NothingApart'
    <2> SUFFICES ASSUME masks'
                 PROVE  /\ misread' = {}
                        /\ \A l \in Link : \A i \in DOMAIN wire'[l] : wire'[l][i].cmd # "APART"
      BY DEF NothingApart
    <2>1. /\ misread' = {}
          /\ \A l \in Link : \A i \in DOMAIN wire[l] : wire[l][i].cmd # "APART"
      BY DEF ServerEstab, ListBase, NothingApart
    <2>2. ASSUME NEW i \in DOMAIN SendList(s) PROVE SendList(s)[i].cmd = "ADD"
      <3>1. SendList(s)[i] = AddMsg(entries[s][i], TRUE)
        BY SentListValues DEF ListBase
      <3> QED BY ONLY <3>1 DEF AddMsg
    <2>3. \A i \in DOMAIN wire'[<<s, t>>] : wire'[<<s, t>>][i].cmd = "ADD"
      BY <1>2, <2>2
    <2> QED BY <1>2, <2>1, <2>3
  <1> QED BY <1>4, <1>5, <1>6, <1>7 DEF ListBase

\* What a lost connection leaves on the streams.
LEMMA BreakValues ==
    ASSUME ListBase, NEW s \in Server, NEW t \in Server, Break(s, t)
    PROVE  /\ <<s, t>> \in Link /\ <<t, s>> \in Link
           /\ wire' \in [Link -> Seq(Messages)]
           /\ \A l \in Link : wire'[l] = IF l \in {<<s, t>>, <<t, s>>} THEN <<>> ELSE wire[l]
           /\ established' = established \ {<<s, t>>, <<t, s>>}
           /\ entries' = entries /\ masks' = masks /\ said' = said /\ misread' = misread
  <1>1. <<s, t>> \in Link /\ <<t, s>> \in Link /\ wire \in [Link -> Seq(Messages)]
    BY DEF Break, ListBase, ListTypeOK
  <1>2. wire' = [wire EXCEPT ![<<s, t>>] = <<>>, ![<<t, s>>] = <<>>]
    BY DEF Break
  <1>3. <<>> \in Seq(Messages)
    OBVIOUS
  <1>4. \A l \in Link : wire'[l] = IF l \in {<<s, t>>, <<t, s>>} THEN <<>> ELSE wire[l]
    BY <1>1, <1>2
  <1>5. wire' \in [Link -> Seq(Messages)]
    BY <1>1, <1>2, <1>3
  <1> QED BY <1>1, <1>4, <1>5 DEF Break

\* So does the loss of a connection.
LEMMA BreakBase ==
    ASSUME ListBase, NEW s \in Server, NEW t \in Server, Break(s, t)
    PROVE  ListBase'
  <1>1. ListTypeOK'
    <2>1. budget' \in [Happening -> Nat] /\ crossed' \in BOOLEAN
      BY DEF Break, Spends, Happening, ListBase, ListTypeOK
    <2> QED BY <2>1, BreakValues DEF ListBase, ListTypeOK
  <1>2. NoTwice'
    BY BreakValues DEF ListBase, NoTwice
  <1>3. UpAndDown'
    <2>1. \A r \in Below : \A i \in DOMAIN wire'[Up(r)] : wire'[Up(r)][i] \in Burst
      <3> SUFFICES ASSUME NEW r \in Below, NEW i \in DOMAIN wire'[Up(r)]
                   PROVE  wire'[Up(r)][i] \in Burst
        OBVIOUS
      <3>1. Up(r) \in Link /\ DOMAIN <<>> = {}
        BY TowardHub
      <3> QED BY <3>1, BreakValues DEF ListBase, UpAndDown
    <2>2. \A l \in Link \ established' : wire'[l] = <<>>
      BY BreakValues DEF ListBase, UpAndDown
    <2> QED BY <2>1, <2>2 DEF UpAndDown
  <1>4. NothingApart'
    <2>1. DOMAIN <<>> = {}
      OBVIOUS
    <2> QED BY <2>1, BreakValues DEF ListBase, NothingApart
  <1> QED BY <1>1, <1>2, <1>3, <1>4 DEF ListBase

\* Every step keeps types, lists without doubles, and nothing but bursts going up.
LEMMA BaseKeeps == ListBase /\ [ListNext]_listVars => ListBase'
  <1> SUFFICES ASSUME ListBase, [ListNext]_listVars PROVE ListBase'
    OBVIOUS
  <1>1. ASSUME NEW e \in Entry, ServicesAdd(e) PROVE ListBase'
    <2>1. said' \subseteq Entry /\ crossed' \in BOOLEAN
      BY <1>1 DEF ServicesAdd, ListBase, ListTypeOK
    <2> QED BY <1>1, <2>1, LineTypes, ServicesBase DEF ServicesAdd, Happening
  <1>2. ASSUME NEW e \in Entry, ServicesDelete(e) PROVE ListBase'
    <2>1. said' \subseteq Entry /\ crossed' \in BOOLEAN
      BY <1>2 DEF ServicesDelete, ListBase, ListTypeOK, Together, Overlapped
    <2> QED BY <1>2, <2>1, LineTypes, ServicesBase DEF ServicesDelete, Happening
  <1>3. ASSUME ServicesClear PROVE ListBase'
    <2>1. said' \subseteq Entry /\ crossed' \in BOOLEAN
      BY <1>3 DEF ServicesClear, ListBase, ListTypeOK, Together
    <2> QED BY <1>3, <2>1, LineTypes, ServicesBase DEF ServicesClear, Happening
  <1>4. ASSUME UNCHANGED listVars PROVE ListBase'
    BY <1>4 DEF listVars, ListBase, ListTypeOK, NoTwice, UpAndDown, NothingApart
  <1> QED BY <1>1, <1>2, <1>3, <1>4, ReceiveBase, EstabBase, BreakBase DEF ListNext

-----------------------------------------------------------------------------
\* While a split or a burst is on and nothing is taken back, lists only grow.
Adds(q) == {e \in Entry : \E i \in DOMAIN q : q[i].cmd = "ADD" /\ q[i].entry = e}

OnlyAdds(q) == \A i \in DOMAIN q : q[i].cmd \in {"ADD", "APART"}

\* What a server read apart it tells those below it; the one above may not have it.
OwnUp(l) == IF l \in Upward THEN misread ELSE {}
OwnDown(l) == IF l \in Upward THEN {} ELSE misread

Growing ==
    /\ \A l \in Link : OnlyAdds(wire[l]) /\ Adds(wire[l]) \subseteq said \cup misread
    /\ \A s \in Server : Held(s) \subseteq said \cup misread
    /\ Dominates(Held(Hub), said)
    /\ \A l \in established : Dominates(Held(l[2]) \cup Adds(wire[l]), Held(l[1]) \ OwnUp(l))
    /\ \A l \in Link : Dominates(Held(l[1]), Adds(wire[l]) \ OwnDown(l))

\* Otherwise each server has been told what the one above it was, or will have been
\* once it has parsed what is on its way, but for what M was read apart.  What is taken
\* back from it nothing else overlaps.
Goes(E, line, F) ==
    \/ line.cmd = "ADD" /\ F = E \cup {line.entry}
    \/ line.cmd = "APART" /\ F = E
    \/ line.cmd = "DELETE" /\ F = E \ {line.entry} /\ Alone(line.entry, E)
    \/ line.cmd = "CLEAR" /\ F = {}

Follows(E, q, F, M) ==
    \E run \in [0..Len(q) -> SUBSET Entry] :
      /\ run[0] = E
      /\ \A i \in 1..Len(q) : Goes(run[i - 1], q[i], run[i])
      /\ run[Len(q)] \subseteq F \cup M /\ Dominates(run[Len(q)], F)

InStep(told) ==
    /\ said \subseteq told[Hub] /\ told[Hub] \subseteq said \cup misread
    /\ \A s \in Server : Held(s) \subseteq told[s] /\ Dominates(Held(s), told[s])
    /\ \A s \in Below : Follows(told[s], wire[Down(s)], told[Toward[s]], misread)

ListInd ==
    /\ ListBase
    /\ ~crossed => \/ Growing
                   \/ Together /\ \E told \in [Server -> SUBSET Entry] : InStep(told)

\* Sets that match each other's masks compose.
LEMMA DominatesThrough ==
    ASSUME ListTypeOK, NEW A \in SUBSET Entry, NEW B \in SUBSET Entry, NEW C \in SUBSET Entry,
           Dominates(A, B), Dominates(B, C)
    PROVE  Dominates(A, C)
  <1> SUFFICES ASSUME NEW c \in C PROVE \E a \in A : Matches(a, c)
    BY DEF Dominates
  <1>1. PICK b \in B : Matches(b, c)
    BY DEF Dominates
  <1>2. PICK a \in A : Matches(a, b)
    BY DEF Dominates
  <1>3. a \in Entry /\ b \in Entry /\ c \in Entry
    OBVIOUS
  <1> QED BY <1>1, <1>2, <1>3, MatchesOrder

\* A set matches its own masks.
LEMMA DominatesPart ==
    ASSUME ListTypeOK, NEW A \in SUBSET Entry, NEW B, B \subseteq A
    PROVE  Dominates(A, B)
  BY MatchesOrder DEF Dominates

\* What matches what depends on nothing but the kind of list.
LEMMA SameMasks ==
    ASSUME masks' = masks
    PROVE  /\ \A E, F : Dominates(E, F)' <=> Dominates(E, F)
           /\ \A e, E : Alone(e, E)' <=> Alone(e, E)
           /\ \A E, line, F : Goes(E, line, F)' <=> Goes(E, line, F)
           /\ \A E, q, F, M : Follows(E, q, F, M)' <=> Follows(E, q, F, M)
  <1>1. \A a, b : Matches(a, b)' <=> Matches(a, b)
    BY DEF Matches
  <1>2. \A E, F : Dominates(E, F)' <=> Dominates(E, F)
    BY <1>1 DEF Dominates
  <1>3. \A e, E : Alone(e, E)' <=> Alone(e, E)
    BY <1>1 DEF Alone
  <1>4. \A E, line, F : Goes(E, line, F)' <=> Goes(E, line, F)
    BY <1>3 DEF Goes
  <1>5. \A E, q, F, M : Follows(E, q, F, M)' <=> Follows(E, q, F, M)
    BY <1>2, <1>4 DEF Follows
  <1> QED BY <1>2, <1>3, <1>4, <1>5

\* What dominates the rest, and has no more but what was read apart, can go along.
LEMMA GoesAlong ==
    ASSUME ListTypeOK, NEW M, masks => M = {},
           NEW F \in SUBSET Entry, NEW line \in Messages, NEW F2, Goes(F, line, F2),
           NEW G \in SUBSET Entry, G \subseteq F \cup M, Dominates(G, F)
    PROVE  \E G2 \in SUBSET Entry : Goes(G, line, G2) /\ G2 \subseteq F2 \cup M /\ Dominates(G2, F2)
  <1> DEFINE e == line.entry
  <1>1. CASE line.cmd = "ADD" /\ F2 = F \cup {e}
    <2>1. e \in Entry /\ Matches(e, e)
      BY <1>1, LineTypes, MatchesOrder
    <2>2. Dominates(G \cup {e}, F2)
      BY <1>1, <2>1 DEF Dominates
    <2>3. Goes(G, line, G \cup {e}) /\ G \cup {e} \subseteq F2 \cup M
      BY <1>1 DEF Goes
    <2> QED BY <2>1, <2>2, <2>3
  <1>2. CASE line.cmd = "DELETE" /\ F2 = F \ {e} /\ Alone(e, F)
    <2>1. Alone(e, G)
      BY <1>2 DEF Alone, Matches
    <2>2. Goes(G, line, G \ {e}) /\ G \ {e} \subseteq F2 \cup M
      BY <1>2, <2>1 DEF Goes
    <2>3. Dominates(G \ {e}, F2)
      BY <1>2, <2>1 DEF Dominates, Alone
    <2> QED BY <2>2, <2>3
  <1>3. CASE line.cmd = "CLEAR" /\ F2 = {}
    BY <1>3 DEF Goes, Dominates
  <1>4. CASE line.cmd = "APART" /\ F2 = F
    BY <1>4 DEF Goes
  <1> QED BY <1>1, <1>2, <1>3, <1>4 DEF Goes

\* A server goes along with what it is told, and so does whoever it tells.
LEMMA HandlerGoes ==
    ASSUME ListBase, NEW s \in Server, NEW from, NEW line \in Messages,
           NEW w \in [Link -> Seq(Messages)], Handler(s, from, line, w), masks' = masks,
           NEW F \in SUBSET Entry, NEW F2, Goes(F, line, F2),
           Held(s) \subseteq F, Dominates(Held(s), F)
    PROVE  /\ F2 \in SUBSET Entry /\ Held(s)' \subseteq F2 /\ Dominates(Held(s)', F2)
           /\ Others(s)
           /\ \/ PassedOn(s, from, line, w)
              \/ /\ wire' = w
                 /\ \A G \in SUBSET Entry : Dominates(G, F) => Dominates(G, F2)
                 /\ F \subseteq F2
  <1> DEFINE e == line.entry
  <1>0. ListTypeOK /\ NoTwice
    BY DEF ListBase
  <1>1. CASE Add(s, from, line, w)
    <2>1. /\ line.cmd = "ADD" /\ e \in Entry /\ Others(s)
          /\ \/ /\ \E m \in Held(s) : Matches(m, e)
                /\ Held(s)' = Held(s) /\ wire' = w
             \/ /\ ~\E m \in Held(s) : Matches(m, e)
                /\ Held(s)' = Held(s) \cup {e} /\ PassedOn(s, from, line, w)
      BY <1>0, <1>1, AddValues
    <2>2. F2 = F \cup {e} /\ F2 \in SUBSET Entry
      BY <2>1 DEF Goes
    <2>3. CASE /\ \E m \in Held(s) : Matches(m, e)
               /\ Held(s)' = Held(s) /\ wire' = w
      <3>1. Dominates(Held(s)', F2)
        BY <2>2, <2>3 DEF Dominates
      <3>2. ASSUME NEW G \in SUBSET Entry, Dominates(G, F)
            PROVE  Dominates(G, F2)
        <4>1. PICK m \in Held(s) : Matches(m, e)
          BY <2>3
        <4>2. PICK g \in G : Matches(g, m)
          BY <3>2 DEF Dominates
        <4>3. Matches(g, e)
          BY <1>0, <2>1, <4>1, <4>2, MatchesOrder
        <4> QED BY <2>2, <3>2, <4>3 DEF Dominates
      <3> QED BY <2>1, <2>2, <2>3, <3>1, <3>2
    <2>4. CASE Held(s)' = Held(s) \cup {e} /\ PassedOn(s, from, line, w)
      <3>1. Matches(e, e)
        BY <1>0, <2>1, MatchesOrder
      <3>2. Dominates(Held(s)', F2)
        BY <2>2, <2>4, <3>1 DEF Dominates
      <3> QED BY <2>1, <2>2, <2>4, <3>2
    <2> QED BY <2>1, <2>3, <2>4
  <1>2. CASE Delete(s, from, line, w)
    <2>1. /\ line.cmd = "DELETE" /\ e \in Entry /\ Others(s) /\ Held(s)' = Held(s) \ {e}
          /\ \/ e \notin Held(s) /\ wire' = w
             \/ e \in Held(s) /\ PassedOn(s, from, line, w)
      BY <1>0, <1>2, DeleteValues
    <2>2. F2 = F \ {e} /\ Alone(e, F)
      BY <2>1 DEF Goes
    <2>3. Dominates(Held(s)', F2)
      BY <2>1, <2>2 DEF Dominates, Alone
    <2>4. CASE e \notin Held(s) /\ wire' = w
      <3>1. e \notin F
        <4> SUFFICES ASSUME e \in F PROVE FALSE
          OBVIOUS
        <4>1. PICK m \in Held(s) : Matches(m, e)
          BY DEF Dominates
        <4> QED BY <2>2, <2>4, <4>1 DEF Alone
      <3>2. F2 = F
        BY <2>2, <3>1
      <3> QED BY <2>1, <2>3, <2>4, <3>2
    <2> QED BY <2>1, <2>2, <2>3, <2>4
  <1>3. CASE SvsInfo(s, from, line, w)
    <2>1. line.cmd = "CLEAR" /\ Others(s) /\ Held(s)' = {} /\ PassedOn(s, from, line, w)
      BY <1>0, <1>3, ClearValues
    <2>2. F2 = {}
      BY <2>1 DEF Goes
    <2> QED BY <2>1, <2>2 DEF Dominates
  <1> QED BY <1>1, <1>2, <1>3 DEF Handler

\* Parsing the first line takes a set one step along.
LEMMA FollowsPops ==
    ASSUME NEW E, NEW q \in Seq(Messages), NEW F, NEW M, Follows(E, q, F, M), q # <<>>
    PROVE  \E E2 \in SUBSET Entry : Goes(E, Head(q), E2) /\ Follows(E2, Tail(q), F, M)
  <1> DEFINE n == Len(q)
             p == Tail(q)
  <1>1. /\ n \in Nat /\ n >= 1 /\ Len(p) = n - 1
        /\ Head(q) = q[1] /\ \A i \in 1..(n - 1) : p[i] = q[i + 1]
    BY HeadTailProperties
  <1> HIDE DEF n, p
  <1>2. PICK run \in [0..n -> SUBSET Entry] :
          /\ run[0] = E
          /\ \A i \in 1..n : Goes(run[i - 1], q[i], run[i])
          /\ run[n] \subseteq F \cup M /\ Dominates(run[n], F)
    BY DEF Follows, n
  <1> DEFINE rest == [i \in 0..(n - 1) |-> run[i + 1]]
  <1>3. rest \in [0..Len(p) -> SUBSET Entry] /\ rest[0] = run[1] /\ rest[Len(p)] = run[n]
    BY <1>1
  <1>4. ASSUME NEW i \in 1..Len(p) PROVE Goes(rest[i - 1], p[i], rest[i])
    <2>1. i + 1 \in 1..n /\ i - 1 \in 0..(n - 1) /\ (i - 1) + 1 = i /\ i \in 0..(n - 1)
          /\ i \in 1..(n - 1) /\ (i + 1) - 1 = i
      BY <1>1
    <2>2. rest[i - 1] = run[i] /\ rest[i] = run[i + 1] /\ p[i] = q[i + 1]
      BY <1>1, <2>1
    <2>3. Goes(run[(i + 1) - 1], q[i + 1], run[i + 1])
      BY <1>2, <2>1
    <2> QED BY <2>1, <2>2, <2>3
  <1> HIDE DEF rest
  <1>5. Follows(run[1], p, F, M)
    BY <1>2, <1>3, <1>4 DEF Follows
  <1>6. 1 \in 1..n /\ 1 \in 0..n /\ 1 - 1 = 0
    BY <1>1
  <1>7. Goes(run[0], q[1], run[1])
    BY <1>2, <1>6
  <1> QED BY <1>1, <1>2, <1>5, <1>6, <1>7 DEF p

\* A line more on the stream is one step more, at its end.
LEMMA FollowsAppends ==
    ASSUME NEW E, NEW q \in Seq(Messages), NEW line \in Messages, NEW F, NEW F2, NEW M,
           Follows(E, q, F, M),
           \A G \in SUBSET Entry : G \subseteq F \cup M /\ Dominates(G, F) =>
             \E G2 \in SUBSET Entry :
               Goes(G, line, G2) /\ G2 \subseteq F2 \cup M /\ Dominates(G2, F2)
    PROVE  Follows(E, Append(q, line), F2, M)
  <1> DEFINE n == Len(q)
             p == Append(q, line)
  <1>1. /\ n \in Nat /\ Len(p) = n + 1 /\ p[n + 1] = line /\ \A i \in 1..n : p[i] = q[i]
    BY AppendProperties
  <1> HIDE DEF n, p
  <1>2. PICK run \in [0..n -> SUBSET Entry] :
          /\ run[0] = E
          /\ \A i \in 1..n : Goes(run[i - 1], q[i], run[i])
          /\ run[n] \subseteq F \cup M /\ Dominates(run[n], F)
    BY DEF Follows, n
  <1>3. run[n] \in SUBSET Entry
    BY <1>1
  <1>4. PICK G2 \in SUBSET Entry : Goes(run[n], line, G2) /\ G2 \subseteq F2 \cup M /\ Dominates(G2, F2)
    BY <1>2, <1>3
  <1> DEFINE more == [i \in 0..(n + 1) |-> IF i = n + 1 THEN G2 ELSE run[i]]
  <1>5. /\ more \in [0..Len(p) -> SUBSET Entry] /\ more[0] = E /\ more[Len(p)] = G2
        /\ \A i \in 0..n : more[i] = run[i]
    BY <1>1, <1>2
  <1>6. ASSUME NEW i \in 1..Len(p) PROVE Goes(more[i - 1], p[i], more[i])
    <2>1. CASE i = n + 1
      <3>1. i - 1 = n /\ n \in 0..n /\ Len(p) = i
        BY <1>1, <2>1
      <3>2. more[i - 1] = run[n] /\ p[i] = line /\ more[i] = G2
        BY <1>1, <1>5, <2>1, <3>1
      <3> QED BY <1>4, <3>2
    <2>2. CASE i # n + 1
      <3>1. i \in 1..n /\ i \in 0..n /\ i - 1 \in 0..n
        BY <1>1, <2>2
      <3>2. more[i - 1] = run[i - 1] /\ p[i] = q[i] /\ more[i] = run[i]
        BY <1>1, <1>5, <3>1
      <3> QED BY <1>2, <3>1, <3>2
    <2> QED BY <2>1, <2>2
  <1> HIDE DEF more
  <1> QED BY <1>4, <1>5, <1>6 DEF Follows, p

\* So is what mo_gline sends, apart and in one word.
LEMMA FollowsSent ==
    ASSUME ListTypeOK, NEW M, masks => M = {}, NEW E, NEW q \in Seq(Messages),
           NEW line \in Messages, NEW F \in SUBSET Entry, NEW F2, Follows(E, q, F, M),
           Goes(F, line, F2)
    PROVE  Follows(E, Sent(q, line), F2, M)
  <1>1. \A G \in SUBSET Entry : G \subseteq F \cup M /\ Dominates(G, F) =>
          \E G2 \in SUBSET Entry :
            Goes(G, line, G2) /\ G2 \subseteq F2 \cup M /\ Dominates(G2, F2)
    BY GoesAlong
  <1>2. CASE ~(line.cmd = "ADD" /\ ~masks)
    BY <1>1, <1>2, FollowsAppends DEF Sent
  <1>3. CASE line.cmd = "ADD" /\ ~masks
    <2>1. PICK apart \in Messages : apart = ApartMsg(line.entry, line.burst) /\ apart.cmd = "APART"
      BY <1>3, ApartTypes
    <2>2. \A G \in SUBSET Entry : Goes(G, apart, G)
      BY <2>1 DEF Goes
    <2>3. Follows(E, Append(q, apart), F, M)
      BY <2>2, FollowsAppends
    <2>4. Append(q, apart) \in Seq(Messages)
      OBVIOUS
    <2>5. Follows(E, Append(Append(q, apart), line), F2, M)
      BY <1>1, <2>3, <2>4, FollowsAppends
    <2> QED BY <1>3, <2>1, <2>5 DEF Sent
  <1> QED BY <1>2, <1>3

\* What a stream ends in may grow by what was matched already, and by what was read apart.
LEMMA FollowsStays ==
    ASSUME NEW E, NEW q \in Seq(Messages), NEW F, NEW F2, NEW M, NEW M2, Follows(E, q, F, M),
           M \subseteq M2, F \subseteq F2,
           \A G \in SUBSET Entry : Dominates(G, F) => Dominates(G, F2)
    PROVE  Follows(E, q, F2, M2)
  <1>1. PICK run \in [0..Len(q) -> SUBSET Entry] :
          /\ run[0] = E
          /\ \A i \in 1..Len(q) : Goes(run[i - 1], q[i], run[i])
          /\ run[Len(q)] \subseteq F \cup M /\ Dominates(run[Len(q)], F)
    BY DEF Follows
  <1>2. run[Len(q)] \in SUBSET Entry
    <2>1. Len(q) \in 0..Len(q)
      BY LenProperties
    <2> QED BY <2>1
  <1>3. run[Len(q)] \subseteq F2 \cup M2 /\ Dominates(run[Len(q)], F2)
    BY <1>1, <1>2
  <1> QED BY <1>1, <1>3 DEF Follows

\* Who reads a G-line as another has it as well from then on, unless it is taken back:
\* nothing overlaps a G-line.
LEMMA FollowsTakes ==
    ASSUME ~masks, NEW E \in SUBSET Entry, NEW q \in Seq(Messages), NEW F, NEW M,
           Follows(E, q, F, M), NEW x \in Entry, x \in M
    PROVE  Follows(E \cup {x}, q, F, M)
  <1> DEFINE n == Len(q)
             Ends(m) == m.cmd = "CLEAR" \/ (m.cmd = "DELETE" /\ m.entry = x)
             gone(i) == \E j \in 1..i : Ends(q[j])
  <1>1. n \in Nat /\ \A i \in 1..n : q[i] \in Messages
    BY LenProperties, ElementOfSeq
  <1>2. PICK run \in [0..n -> SUBSET Entry] :
          /\ run[0] = E
          /\ \A i \in 1..n : Goes(run[i - 1], q[i], run[i])
          /\ run[n] \subseteq F \cup M /\ Dominates(run[n], F)
    BY DEF Follows
  <1> HIDE DEF n
  <1>3. ~gone(0)
    OBVIOUS
  <1>4. ASSUME NEW i \in 1..n PROVE gone(i) <=> gone(i - 1) \/ Ends(q[i])
    <2>1. \A j : j \in 1..i <=> j \in 1..(i - 1) \/ j = i
      BY <1>1
    <2> QED BY <2>1
  <1> HIDE DEF gone
  <1> DEFINE more == [i \in 0..n |-> IF gone(i) THEN run[i] ELSE run[i] \cup {x}]
  <1>5. more \in [0..n -> SUBSET Entry]
    BY <1>2
  <1>6. more[0] = E \cup {x}
    BY <1>1, <1>2, <1>3
  <1>7. more[n] \subseteq F \cup M /\ Dominates(more[n], F)
    BY <1>1, <1>2 DEF Dominates
  <1>8. ASSUME NEW i \in 1..n PROVE Goes(more[i - 1], q[i], more[i])
    <2>1. i \in 0..n /\ i - 1 \in 0..n
      BY <1>1
    <2>2. /\ more[i] = IF gone(i) THEN run[i] ELSE run[i] \cup {x}
          /\ more[i - 1] = IF gone(i - 1) THEN run[i - 1] ELSE run[i - 1] \cup {x}
      BY <2>1
    <2>3. Goes(run[i - 1], q[i], run[i])
      BY <1>2
    <2>4. \A e, S : Alone(e, S)
      BY DEF Alone, Matches
    <2> HIDE DEF more
    <2>5. CASE q[i].cmd = "ADD"
      BY <1>4, <2>2, <2>3, <2>5 DEF Goes
    <2>6. CASE q[i].cmd = "APART"
      BY <1>4, <2>2, <2>3, <2>6 DEF Goes
    <2>7. CASE q[i].cmd = "DELETE"
      BY <1>4, <2>2, <2>3, <2>4, <2>7 DEF Goes
    <2>8. CASE q[i].cmd = "CLEAR"
      BY <1>4, <2>2, <2>3, <2>8 DEF Goes
    <2> QED BY <2>3, <2>5, <2>6, <2>7, <2>8 DEF Goes
  <1> HIDE DEF more
  <1> QED BY <1>5, <1>6, <1>7, <1>8 DEF Follows, n

\* With nothing on its way the two sets stand for the same.
LEMMA FollowsAtRest ==
    ASSUME NEW E, NEW q \in Seq(Messages), NEW F, NEW M, Follows(E, q, F, M), q = <<>>
    PROVE  E \subseteq F \cup M /\ Dominates(E, F)
  <1>1. Len(q) = 0
    OBVIOUS
  <1> QED BY <1>1 DEF Follows

\* No burst, nothing up.
LEMMA NothingUp ==
    ASSUME ListBase, Together
    PROVE  /\ \A s \in Below : wire[Up(s)] = <<>>
           /\ established = Link
  <1> SUFFICES ASSUME NEW s \in Below PROVE wire[Up(s)] = <<>>
    BY DEF Together
  <1>1. Up(s) \in Link /\ wire[Up(s)] \in Seq(Messages)
    BY TowardHub DEF ListBase, ListTypeOK
  <1>2. \A i \in DOMAIN wire[Up(s)] : FALSE
    BY <1>1 DEF Together, ListBase, UpAndDown
  <1>3. wire[Up(s)] # <<>> => 1 \in DOMAIN wire[Up(s)]
    BY <1>1
  <1> QED BY <1>2, <1>3

\* A server takes one step along, with those below it.
LEMMA InStepMoves ==
    ASSUME ListBase, ListBase', Together, established' = established, masks' = masks,
           NEW told \in [Server -> SUBSET Entry], InStep(told),
           NEW s \in Server, NEW from, NEW line \in Messages, NEW w \in [Link -> Seq(Messages)],
           Handler(s, from, line, w),
           NEW F2 \in SUBSET Entry, Goes(told[s], line, F2),
           misread \subseteq misread',
           s = Hub => from = Hub /\ said' \subseteq F2 /\ F2 \subseteq said' \cup misread',
           s # Hub => /\ from = Toward[s] /\ said' = said
                      /\ Follows(F2, w[Down(s)], told[Toward[s]], misread'),
           \A r \in Below \ {s} : w[Down(r)] = wire[Down(r)]
    PROVE  \E told2 \in [Server -> SUBSET Entry] : InStep(told2)'
  <1> DEFINE told2 == [told EXCEPT ![s] = F2]
  <1>1. told2 \in [Server -> SUBSET Entry] /\ told2[s] = F2 /\ \A r \in Server \ {s} : told2[r] = told[r]
    OBVIOUS
  <1> HIDE DEF told2
  <1>2. /\ said \subseteq told[Hub] /\ told[Hub] \subseteq said \cup misread
        /\ \A r \in Server : Held(r) \subseteq told[r] /\ Dominates(Held(r), told[r])
        /\ \A r \in Below : Follows(told[r], wire[Down(r)], told[Toward[r]], misread)
    BY DEF InStep
  <1>9. masks => misread = {} /\ misread' = {}
    BY DEF ListBase, NothingApart
  <1>3. told[s] \in SUBSET Entry
    OBVIOUS
  <1>4. /\ Held(s)' \subseteq F2 /\ Dominates(Held(s)', F2) /\ Others(s)
        /\ \/ PassedOn(s, from, line, w)
           \/ /\ wire' = w
              /\ \A G \in SUBSET Entry : Dominates(G, told[s]) => Dominates(G, F2)
              /\ told[s] \subseteq F2
    <2>1. PICK F \in SUBSET Entry : F = told[s]
      BY <1>3
    <2>2. Held(s) \subseteq F /\ Dominates(Held(s), F) /\ Goes(F, line, F2)
      BY <1>2, <2>1
    <2>3. /\ Held(s)' \subseteq F2 /\ Dominates(Held(s)', F2) /\ Others(s)
          /\ \/ PassedOn(s, from, line, w)
             \/ /\ wire' = w
                /\ \A G \in SUBSET Entry : Dominates(G, F) => Dominates(G, F2)
                /\ F \subseteq F2
      BY <2>2, HandlerGoes
    <2> QED BY <2>1, <2>3
  <1>5. said' \subseteq told2[Hub] /\ told2[Hub] \subseteq said' \cup misread'
    BY <1>1, <1>2, TowardHub
  <1>6. ASSUME NEW r \in Server PROVE Held(r)' \subseteq told2[r] /\ Dominates(Held(r)', told2[r])
    <2>1. CASE r = s
      BY <1>1, <1>4, <2>1
    <2>2. CASE r # s
      <3>1. Held(r)' = Held(r)
        BY <1>4, <2>2 DEF Others
      <3> QED BY <1>1, <1>2, <2>2, <3>1
    <2> QED BY <2>1, <2>2
  <1>7. ASSUME NEW r \in Below PROVE Follows(told2[r], wire'[Down(r)], told2[Toward[r]], misread')
    <2>1. /\ Down(r) \in Link /\ Down(r)[1] = Toward[r] /\ Down(r)[2] = r
          /\ r \in Server /\ Toward[r] \in Server
      BY TowardHub DEF Down, Below
    <2>2. Toward[r] # r
      BY NoLoop
    <2>3. CASE r = s
      <3>1. s # Hub
        BY <2>3 DEF Below
      <3>2. wire'[Down(r)] = w[Down(r)]
        BY <1>4, <2>1, <2>2, <2>3 DEF PassedOn
      <3>3. told2[Toward[r]] = told[Toward[r]]
        BY <1>1, <2>1, <2>2, <2>3
      <3> QED BY <1>1, <2>3, <3>1, <3>2, <3>3
    <2>4. CASE Toward[r] = s
      <3>1. r # s /\ r # from
        <4>1. CASE s = Hub
          BY <2>2, <2>4, <4>1 DEF Below
        <4>2. CASE s # Hub
          BY <2>2, <2>4, <4>2, NoLoop DEF Below
        <4> QED BY <4>1, <4>2
      <3>2. told2[r] = told[r] /\ told2[Toward[r]] = F2 /\ w[Down(r)] = wire[Down(r)]
        BY <1>1, <2>1, <2>4, <3>1
      <3>4. w[Down(r)] \in Seq(Messages)
        BY <2>1
      <3>3. Follows(told[r], w[Down(r)], told[s], misread')
        <4>1. Follows(told[r], w[Down(r)], told[s], misread)
          BY <1>2, <2>4, <3>2
        <4> QED BY <3>4, <4>1, FollowsStays
      <3>5. CASE PassedOn(s, from, line, w)
        <4>1. Down(r) \in established
          BY <2>1 DEF Together
        <4>2. wire'[Down(r)] = Sent(w[Down(r)], line)
          BY <2>1, <2>4, <3>1, <3>5, <4>1 DEF PassedOn
        <4>3. Follows(told[r], Sent(w[Down(r)], line), F2, misread')
          BY <1>3, <1>9, <3>3, <3>4, FollowsSent DEF ListBase
        <4> QED BY <3>2, <4>2, <4>3
      <3>6. CASE /\ wire' = w
                 /\ \A G \in SUBSET Entry : Dominates(G, told[s]) => Dominates(G, F2)
                 /\ told[s] \subseteq F2
        BY <3>2, <3>3, <3>4, <3>6, FollowsStays
      <3> QED BY <1>4, <3>5, <3>6
    <2>5. CASE r # s /\ Toward[r] # s
      <3>1. wire'[Down(r)] = wire[Down(r)]
        BY <1>4, <2>1, <2>5 DEF PassedOn
      <3>2. Follows(told[r], wire[Down(r)], told[Toward[r]], misread)
        BY <1>2
      <3>3. wire[Down(r)] \in Seq(Messages)
        BY <2>1 DEF ListBase, ListTypeOK
      <3>4. Follows(told[r], wire[Down(r)], told[Toward[r]], misread')
        BY <3>2, <3>3, FollowsStays
      <3> QED BY <1>1, <2>1, <2>5, <3>1, <3>4
    <2> QED BY <2>3, <2>4, <2>5
  <1>8. InStep(told2)'
    <2>1. ASSUME NEW r \in Server
          PROVE  (Held(r) \subseteq told2[r])' /\ Dominates(Held(r), told2[r])'
      <3>1. Held(r)' \subseteq told2[r] /\ Dominates(Held(r)', told2[r])
        BY <1>6
      <3>2. \A a, b : Matches(a, b)' <=> Matches(a, b)
        BY DEF Matches
      <3> QED BY <3>1, <3>2 DEF Dominates
    <2>2. \A r \in Below : Follows(told2[r], wire[Down(r)], told2[Toward[r]], misread)'
      BY <1>7, SameMasks
    <2> QED BY <1>5, <2>1, <2>2 DEF InStep
  <1> QED BY <1>1, <1>8

-----------------------------------------------------------------------------
\* Between the two: as long as there are only additions, they are the same.
LEMMA AddsValues ==
    ASSUME NEW q \in Seq(Messages)
    PROVE  /\ \A i \in DOMAIN q : q[i].cmd = "ADD" => q[i].entry \in Adds(q)
           /\ Adds(<<>>) = {} /\ OnlyAdds(<<>>)
  <1>1. \A i \in DOMAIN q : q[i].cmd = "ADD" => q[i].entry \in Entry
    BY LineTypes
  <1> QED BY <1>1 DEF Adds, OnlyAdds

\* An addition more on a stream, and what mo_gline sends before it.
LEMMA AddsSent ==
    ASSUME NEW q \in Seq(Messages), NEW m \in Messages, m.cmd = "ADD", OnlyAdds(q)
    PROVE  Adds(Sent(q, m)) = Adds(q) \cup {m.entry} /\ OnlyAdds(Sent(q, m))
  <1> DEFINE p == Sent(q, m)
             apart == ApartMsg(m.entry, m.burst)
  <1>1. /\ \A i \in DOMAIN q : i \in DOMAIN p /\ p[i] = q[i]
        /\ \A i \in DOMAIN p : p[i] = m \/ p[i] = apart \/ (i \in DOMAIN q /\ p[i] = q[i])
    BY SentValues
  <1>2. m.entry \in Entry /\ apart.cmd = "APART"
    BY LineTypes, ApartTypes
  <1>3. \E i \in DOMAIN p : p[i] = m
    <2>1. PICK a \in Seq(Messages) : p = Append(a, m)
      <3>1. apart \in Messages
        BY ApartTypes
      <3> HIDE DEF apart
      <3>2. Append(q, apart) \in Seq(Messages)
        BY <3>1
      <3> QED BY <3>2 DEF Sent, apart
    <2>2. Len(p) \in DOMAIN p /\ p[Len(p)] = m
      BY <2>1, AppendedValues
    <2> QED BY <2>2
  <1> HIDE DEF p, apart
  <1>4. OnlyAdds(p)
    BY <1>1, <1>2 DEF OnlyAdds
  <1>5. Adds(p) = Adds(q) \cup {m.entry}
    BY <1>1, <1>2, <1>3 DEF Adds
  <1> QED BY <1>4, <1>5 DEF p

\* A line taken off a stream.
LEMMA AddsPopped ==
    ASSUME NEW q \in Seq(Messages), q # <<>>, OnlyAdds(q)
    PROVE  /\ OnlyAdds(Tail(q)) /\ Head(q).cmd \in {"ADD", "APART"}
           /\ Head(q).cmd = "ADD" => /\ Head(q).entry \in Adds(q)
                                     /\ Adds(q) = Adds(Tail(q)) \cup {Head(q).entry}
           /\ Head(q).cmd = "APART" => Adds(q) = Adds(Tail(q))
  <1> DEFINE p == Tail(q)
  <1>1. /\ Head(q) \in Messages /\ Len(q) \in Nat /\ Len(q) >= 1 /\ DOMAIN q = 1..Len(q)
        /\ Head(q) = q[1] /\ DOMAIN p = 1..(Len(q) - 1)
        /\ \A i \in 1..(Len(q) - 1) : p[i] = q[i + 1]
    BY HeadTailProperties, LenProperties
  <1> HIDE DEF p
  <1>2. /\ 1 \in DOMAIN q
        /\ \A i \in DOMAIN p : i + 1 \in DOMAIN q /\ p[i] = q[i + 1]
    BY <1>1
  <1>3. \A i \in DOMAIN q : i = 1 \/ (i - 1 \in DOMAIN p /\ p[i - 1] = q[i])
    BY <1>1
  <1>4. Head(q).cmd \in {"ADD", "APART"} /\ Head(q).entry \in Entry
    BY <1>1, <1>2, LineTypes DEF OnlyAdds
  <1>5. OnlyAdds(p)
    BY <1>2 DEF OnlyAdds
  <1>6. Adds(p) \subseteq Adds(q)
    BY <1>2 DEF Adds
  <1>7. CASE Head(q).cmd = "ADD"
    <2>1. Head(q).entry \in Adds(q)
      BY <1>1, <1>2, <1>4, <1>7 DEF Adds
    <2>2. Adds(q) \subseteq Adds(p) \cup {Head(q).entry}
      BY <1>1, <1>3 DEF Adds
    <2> QED BY <1>5, <1>6, <1>7, <2>1, <2>2 DEF p
  <1>8. CASE Head(q).cmd = "APART"
    <2>1. Adds(q) \subseteq Adds(p)
      BY <1>1, <1>3, <1>8 DEF Adds
    <2> QED BY <1>5, <1>6, <1>8, <2>1 DEF p
  <1> QED BY <1>4, <1>7, <1>8

\* Along additions, a set ends with what it had and what they add.
LEMMA FollowsAdds ==
    ASSUME NEW E \in SUBSET Entry, NEW q \in Seq(Messages), OnlyAdds(q), NEW F, NEW M
    PROVE  Follows(E, q, F, M) <=> /\ E \cup Adds(q) \subseteq F \cup M
                                   /\ Dominates(E \cup Adds(q), F)
  <1> DEFINE n == Len(q)
             one(i) == IF q[i].cmd = "ADD" THEN {q[i].entry} ELSE {}
             part(i) == UNION {one(j) : j \in 1..i}
  <1>1. n \in Nat /\ \A i \in 1..n : q[i].cmd \in {"ADD", "APART"} /\ q[i].entry \in Entry
    BY LineTypes, LenProperties DEF OnlyAdds
  <1>8. ASSUME NEW i \in 1..n, NEW S, NEW T PROVE Goes(S, q[i], T) <=> T = S \cup one(i)
    BY <1>1 DEF Goes
  <1>9. \A i \in 1..n : one(i) \in SUBSET Entry
    BY <1>1
  <1>4. part(n) = Adds(q)
    <2>1. ASSUME NEW x PROVE x \in Adds(q) <=> \E j \in 1..n : x \in one(j)
      BY <1>1 DEF Adds
    <2> QED BY <2>1
  <1> HIDE DEF one
  <1>2. part(0) = {}
    OBVIOUS
  <1>3. ASSUME NEW i \in 1..n PROVE part(i) = part(i - 1) \cup one(i)
    <2>1. \A j : j \in 1..i <=> j \in 1..(i - 1) \/ j = i
      BY <1>1
    <2> QED BY <2>1
  <1>5. ASSUME NEW i \in 0..n PROVE part(i) \in SUBSET Entry
    <2>1. \A j \in 1..i : j \in 1..n
      BY <1>1
    <2> QED BY <1>9, <2>1
  <1> HIDE DEF part, n
  <1>6. ASSUME Follows(E, q, F, M)
        PROVE  E \cup Adds(q) \subseteq F \cup M /\ Dominates(E \cup Adds(q), F)
    <2>1. PICK run \in [0..n -> SUBSET Entry] :
            /\ run[0] = E
            /\ \A i \in 1..n : Goes(run[i - 1], q[i], run[i])
            /\ run[n] \subseteq F \cup M /\ Dominates(run[n], F)
      BY <1>6 DEF Follows, n
    <2> DEFINE S == {i \in 0..n : run[i] = E \cup part(i)}
    <2>2. 0 \in S
      BY <1>1, <1>2, <2>1
    <2>3. ASSUME NEW i \in 1..n, i - 1 \in S PROVE i \in S
      <3>1. Goes(run[i - 1], q[i], run[i])
        BY <2>1
      <3>2. run[i] = run[i - 1] \cup one(i)
        BY <1>8, <3>1
      <3>3. i \in 0..n
        BY <1>1
      <3> QED BY <1>3, <2>3, <3>2, <3>3
    <2> HIDE DEF S
    <2>4. \A i \in 0..n : i \in S
      BY <1>1, <2>2, <2>3, BoundedInduction
    <2>5. n \in 0..n
      BY <1>1
    <2>6. run[n] = E \cup part(n)
      BY <2>4, <2>5 DEF S
    <2> QED BY <1>4, <2>1, <2>6
  <1>7. ASSUME E \cup Adds(q) \subseteq F \cup M, Dominates(E \cup Adds(q), F)
        PROVE  Follows(E, q, F, M)
    <2> DEFINE run == [i \in 0..n |-> E \cup part(i)]
    <2>1. run \in [0..n -> SUBSET Entry]
      BY <1>5
    <2>2. run[0] = E /\ run[n] = E \cup Adds(q)
      BY <1>1, <1>2, <1>4
    <2>3. ASSUME NEW i \in 1..n PROVE Goes(run[i - 1], q[i], run[i])
      <3>1. i \in 0..n /\ i - 1 \in 0..n
        BY <1>1
      <3>2. run[i] = run[i - 1] \cup one(i)
        BY <1>3, <3>1
      <3> QED BY <1>8, <3>2
    <2> HIDE DEF run
    <2> QED BY <1>7, <2>1, <2>2, <2>3 DEF Follows, n
  <1> QED BY <1>6, <1>7

\* When the last burst has been parsed, lists that only grew are in step: of each
\* server one can say that it was told what its list matches.
LEMMA GrownInStep ==
    ASSUME ListBase, Growing, Together
    PROVE  \E told \in [Server -> SUBSET Entry] : InStep(told)
  <1> DEFINE all == said \cup misread
             told == [s \in Server |-> {e \in all : \E m \in Held(s) : Matches(m, e)}]
  <1>0. ListTypeOK /\ said \in SUBSET Entry /\ all \in SUBSET Entry
    BY DEF ListBase, ListTypeOK
  <1>1. told \in [Server -> SUBSET Entry]
    BY <1>0
  <1>2. said \subseteq told[Hub] /\ told[Hub] \subseteq all
    BY TowardHub DEF Growing, Dominates
  <1>3. \A s \in Server : told[s] \subseteq all /\ \A e \in told[s] : \E m \in Held(s) : Matches(m, e)
    OBVIOUS
  <1>4. \A s \in Server : \A e \in all, m \in Held(s) : Matches(m, e) => e \in told[s]
    OBVIOUS
  <1>7. \A m, e : Matches(m, e) /\ e \notin misread => m \notin misread
    BY DEF ListBase, NothingApart, Matches
  <1> HIDE DEF told, all
  <1>5. ASSUME NEW s \in Server PROVE Held(s) \subseteq told[s] /\ Dominates(Held(s), told[s])
    <2>1. Held(s) \subseteq all
      BY DEF Growing, all
    <2>2. \A e \in Held(s) : e \in all /\ Matches(e, e)
      BY <1>0, <2>1, MatchesOrder
    <2> QED BY <1>3, <1>4, <2>2 DEF Dominates
  <1>6. ASSUME NEW s \in Below PROVE Follows(told[s], wire[Down(s)], told[Toward[s]], misread)
    <2>1. /\ Down(s) \in Link /\ Down(s)[1] = Toward[s] /\ Down(s)[2] = s
          /\ Up(s) \in Link /\ Up(s)[1] = s /\ Up(s)[2] = Toward[s]
          /\ s \in Server /\ Toward[s] \in Server
          /\ Up(s) \in Upward /\ Down(s) \notin Upward
      <3>1. \A r \in Below : Down(s) # Up(r)
        BY NoLoop DEF Up, Down
      <3> QED BY <3>1, TowardHub DEF Up, Down, Below, Upward
    <2> DEFINE p == Toward[s]
               A == Adds(wire[Down(s)])
    <2>2. wire[Down(s)] \in Seq(Messages) /\ OnlyAdds(wire[Down(s)])
          /\ A \subseteq all /\ A \subseteq Entry
      BY <1>0, <2>1 DEF Growing, ListTypeOK, all
    <2>3. wire[Up(s)] = <<>> /\ established = Link
      BY NothingUp
    <2>4. Adds(wire[Up(s)]) = {}
      BY <2>3 DEF Adds
    <2>5. /\ Dominates(Held(s) \cup A, Held(p)) /\ Dominates(Held(p), A \ misread)
          /\ Dominates(Held(p), Held(s) \ misread)
      <3>1. OwnUp(Up(s)) = misread /\ OwnUp(Down(s)) = {} /\ OwnDown(Down(s)) = misread
        BY <2>1 DEF OwnUp, OwnDown
      <3>2. /\ Dominates(Held(s) \cup A, Held(p) \ {}) /\ Dominates(Held(p), A \ misread)
            /\ Dominates(Held(p) \cup {}, Held(s) \ misread)
        BY <2>1, <2>3, <2>4, <3>1 DEF Growing
      <3>3. Held(p) \ {} = Held(p) /\ Held(p) \cup {} = Held(p)
        OBVIOUS
      <3> QED BY <3>2, <3>3
    <2> HIDE DEF p, A
    <2>6. told[s] \cup A \subseteq told[p] \cup misread
      <3>1. ASSUME NEW e \in told[s], e \notin misread PROVE e \in told[p]
        <4>1. PICK m \in Held(s) : Matches(m, e)
          BY <1>3, <2>1
        <4>2. PICK k \in Held(p) : Matches(k, m)
          BY <1>7, <2>5, <3>1, <4>1 DEF Dominates
        <4>3. e \in all /\ e \in Entry /\ m \in Entry /\ k \in Entry
          BY <1>0, <1>3, <2>1, HeldIs DEF p
        <4>4. Matches(k, e)
          BY <1>0, <4>1, <4>2, <4>3, MatchesOrder
        <4> QED BY <1>4, <2>1, <4>3, <4>4 DEF p
      <3>2. ASSUME NEW e \in A, e \notin misread PROVE e \in told[p]
        BY <1>4, <2>1, <2>2, <2>5, <3>2 DEF p, Dominates
      <3> QED BY <3>1, <3>2
    <2>7. Dominates(told[s] \cup A, told[p])
      <3>1. Held(s) \cup A \subseteq told[s] \cup A
        BY <1>5, <2>1
      <3>2. ASSUME NEW e \in told[p] PROVE \E m \in told[s] \cup A : Matches(m, e)
        <4>1. PICK k \in Held(p) : Matches(k, e)
          BY <1>3, <2>1 DEF p
        <4>2. PICK m \in Held(s) \cup A : Matches(m, k)
          BY <2>5 DEF Dominates
        <4>3. e \in Entry /\ m \in Entry /\ k \in Entry
          BY <1>0, <1>3, <2>1, <2>2, HeldIs DEF p
        <4>4. Matches(m, e)
          BY <1>0, <4>1, <4>2, <4>3, MatchesOrder
        <4> QED BY <3>1, <4>4
      <3> QED BY <3>2 DEF Dominates
    <2>8. told[s] \in SUBSET Entry
      BY <1>1, <2>1
    <2> QED BY <2>2, <2>6, <2>7, <2>8, FollowsAdds DEF p, A
  <1> QED BY <1>1, <1>2, <1>5, <1>6 DEF InStep, all

\* Lists in step with nothing but additions on their way are growing ones, so a split
\* finds them so.
LEMMA InStepGrows ==
    ASSUME ListBase, Together, NEW told \in [Server -> SUBSET Entry], InStep(told),
           \A l \in Link : OnlyAdds(wire[l])
    PROVE  Growing
  <1> DEFINE all == said \cup misread
  <1>0. ListTypeOK /\ wire \in [Link -> Seq(Messages)] /\ said \in SUBSET Entry
    BY DEF ListBase, ListTypeOK
  <1>1. /\ said \subseteq told[Hub] /\ told[Hub] \subseteq all
        /\ \A s \in Server : Held(s) \subseteq told[s] /\ Dominates(Held(s), told[s])
        /\ \A s \in Below : Follows(told[s], wire[Down(s)], told[Toward[s]], misread)
    BY DEF InStep
  <1>2. ASSUME NEW s \in Below
        PROVE  /\ told[s] \cup Adds(wire[Down(s)]) \subseteq told[Toward[s]] \cup misread
               /\ Dominates(told[s] \cup Adds(wire[Down(s)]), told[Toward[s]])
    <2>1. Down(s) \in Link /\ s \in Server
      BY TowardHub DEF Below
    <2>2. told[s] \in SUBSET Entry /\ wire[Down(s)] \in Seq(Messages) /\ OnlyAdds(wire[Down(s)])
      BY <1>0, <2>1
    <2> QED BY <1>1, <2>2, FollowsAdds
  <1> DEFINE S == {s \in Server : told[s] \subseteq all}
  <1>3. S = Server
    <2>1. Hub \in S
      BY <1>1, TowardHub
    <2>2. \A s \in Below : Toward[s] \in S => s \in S
      BY <1>2 DEF Below
    <2> HIDE DEF S
    <2>3. S \in SUBSET Server
      BY DEF S
    <2> QED BY <2>1, <2>2, <2>3, HubInduction
  <1>4. \A s \in Server : told[s] \subseteq all
    BY <1>3
  <1>5. \A s \in Server : Held(s) \subseteq all
    BY <1>1, <1>4
  <1>6. Dominates(Held(Hub), said)
    BY <1>1, TowardHub DEF Dominates
  <1>7. ASSUME NEW s \in Below
        PROVE  /\ Down(s) \in Link /\ Down(s)[1] = Toward[s] /\ Down(s)[2] = s
               /\ Up(s) \in Link /\ Up(s)[1] = s /\ Up(s)[2] = Toward[s]
               /\ s \in Server /\ Toward[s] \in Server
               /\ OwnUp(Up(s)) = misread /\ OwnUp(Down(s)) = {} /\ OwnDown(Down(s)) = misread
               /\ wire[Up(s)] = <<>> /\ Adds(wire[Up(s)]) = {}
               /\ Adds(wire[Down(s)]) \subseteq Entry
               /\ Held(s) \subseteq Entry /\ Held(Toward[s]) \subseteq Entry
               /\ told[s] \subseteq Entry /\ told[Toward[s]] \subseteq Entry
    <2>1. wire[Up(s)] = <<>>
      BY NothingUp
    <2>2. s \in Server /\ Toward[s] \in Server
      BY TowardHub DEF Below
    <2>3. \A r \in Below : Down(s) # Up(r)
      BY NoLoop DEF Up, Down
    <2>4. OwnUp(Up(s)) = misread /\ OwnUp(Down(s)) = {} /\ OwnDown(Down(s)) = misread
      BY <2>3 DEF OwnUp, OwnDown, Upward
    <2>5. Adds(wire[Up(s)]) = {} /\ Adds(wire[Down(s)]) \subseteq Entry
      BY <2>1 DEF Adds
    <2>6. /\ Held(s) \subseteq Entry /\ Held(Toward[s]) \subseteq Entry
          /\ told[s] \subseteq Entry /\ told[Toward[s]] \subseteq Entry
      BY <1>0, <2>2, HeldIs
    <2>7. /\ Down(s) \in Link /\ Down(s)[1] = Toward[s] /\ Down(s)[2] = s
          /\ Up(s) \in Link /\ Up(s)[1] = s /\ Up(s)[2] = Toward[s]
      BY TowardHub DEF Up, Down
    <2> QED BY ONLY <2>1, <2>2, <2>4, <2>5, <2>6, <2>7
  <1>8. ASSUME NEW s \in Below
        PROVE  /\ Adds(wire[Down(s)]) \subseteq all
               /\ Dominates(Held(s) \cup Adds(wire[Down(s)]), Held(Toward[s]))
               /\ Dominates(Held(Toward[s]), Adds(wire[Down(s)]) \ misread)
               /\ Dominates(Held(Toward[s]) \cup Adds(wire[Up(s)]), Held(s) \ misread)
               /\ Dominates(Held(s), Adds(wire[Up(s)]))
    <2> DEFINE p == Toward[s]
               A == Adds(wire[Down(s)])
    <2>1. /\ A \subseteq Entry /\ Held(s) \subseteq Entry /\ Held(p) \subseteq Entry
          /\ told[s] \subseteq Entry /\ told[p] \subseteq Entry
          /\ s \in Server /\ p \in Server /\ Adds(wire[Up(s)]) = {}
      BY <1>7
    <2>2. told[s] \cup A \subseteq told[p] \cup misread /\ Dominates(told[s] \cup A, told[p])
      BY <1>2
    <2>3. /\ Held(s) \subseteq told[s] /\ Dominates(Held(s), told[s])
          /\ Held(p) \subseteq told[p] /\ Dominates(Held(p), told[p]) /\ told[p] \subseteq all
      BY <1>1, <1>4, <2>1
    <2> HIDE DEF p, A
    <2>4. Dominates(Held(s) \cup A, told[s] \cup A)
      BY <1>0, <2>1, <2>3, MatchesOrder DEF Dominates
    <2>5. Dominates(Held(s) \cup A, told[p])
      <3>1. Held(s) \cup A \in SUBSET Entry /\ told[s] \cup A \in SUBSET Entry /\ told[p] \in SUBSET Entry
        BY <2>1
      <3> QED BY <1>0, <2>2, <2>4, <3>1, DominatesThrough
    <2>6. /\ Dominates(Held(s) \cup A, Held(p)) /\ Dominates(Held(p), A \ misread)
          /\ Dominates(Held(p), Held(s) \ misread)
      BY <2>2, <2>3, <2>5 DEF Dominates
    <2>7. A \subseteq all
      BY <2>2, <2>3
    <2>8. Dominates(Held(p) \cup {}, Held(s) \ misread) /\ Dominates(Held(s), {})
      BY <2>6 DEF Dominates
    <2> QED BY <2>1, <2>6, <2>7, <2>8 DEF p, A
  <1>9. ASSUME NEW l \in Link
        PROVE  /\ Adds(wire[l]) \subseteq all
               /\ Dominates(Held(l[2]) \cup Adds(wire[l]), Held(l[1]) \ OwnUp(l))
               /\ Dominates(Held(l[1]), Adds(wire[l]) \ OwnDown(l))
    <2>1. PICK s \in Below : l = Up(s) \/ l = Down(s)
      BY TowardHub
    <2>2. CASE l = Up(s)
      <3>1. Adds(wire[l]) = {} /\ l[1] = s /\ l[2] = Toward[s]
        BY <1>7, <2>2
      <3>2. OwnUp(l) = misread
        BY <1>7, <2>2
      <3>3. Dominates(Held(s), {} \ OwnDown(l))
        BY DEF Dominates
      <3> QED BY <1>8, <2>2, <3>1, <3>2, <3>3
    <2>3. CASE l = Down(s)
      <3>1. l[1] = Toward[s] /\ l[2] = s
        BY <1>7, <2>3
      <3>2. OwnUp(l) = {} /\ OwnDown(l) = misread
        BY <1>7, <2>3
      <3>3. Held(l[1]) \ {} = Held(l[1])
        OBVIOUS
      <3> QED BY <1>8, <2>3, <3>1, <3>2, <3>3
    <2> QED BY <2>1, <2>2, <2>3
  <1>10. established = Link
    BY DEF Together
  <1> QED BY <1>5, <1>6, <1>9, <1>10 DEF Growing

-----------------------------------------------------------------------------
\* What there is to show of a step of growing lists.
LEMMA GrowsOn ==
    ASSUME masks' = masks,
           \A l \in Link : OnlyAdds(wire'[l]) /\ Adds(wire'[l]) \subseteq said' \cup misread',
           \A r \in Server : Held(r)' \subseteq said' \cup misread',
           Dominates(Held(Hub)', said'),
           \A l \in established' :
             Dominates(Held(l[2])' \cup Adds(wire'[l]), Held(l[1])' \ OwnUp(l)'),
           \A l \in Link : Dominates(Held(l[1])', Adds(wire'[l]) \ OwnDown(l)')
    PROVE  Growing'
  <1>1. \A a, b : Matches(a, b)' <=> Matches(a, b)
    BY DEF Matches
  <1>2. Dominates(Held(Hub), said)'
    BY <1>1 DEF Dominates
  <1>3. \A l \in established' : Dominates(Held(l[2]) \cup Adds(wire[l]), Held(l[1]) \ OwnUp(l))'
    BY <1>1 DEF Dominates, Adds
  <1>4. \A l \in Link : Dominates(Held(l[1]), Adds(wire[l]) \ OwnDown(l))'
    BY <1>1 DEF Dominates, Adds
  <1>5. \A l \in Link : OnlyAdds(wire[l])' /\ (Adds(wire[l]) \subseteq said \cup misread)'
    BY DEF OnlyAdds, Adds
  <1> QED BY <1>2, <1>3, <1>4, <1>5 DEF Growing

\* An addition, said by services, parsed, or read apart from what the one above it
\* sends, keeps the lists growing.
LEMMA AddGrows ==
    ASSUME ListBase, ListBase', Growing, NEW s \in Server, NEW from, NEW line \in Messages,
           NEW w \in [Link -> Seq(Messages)], Handler(s, from, line, w), line.cmd = "ADD",
           masks' = masks, established' = established,
           said \subseteq said', said' \subseteq said \cup {line.entry}, s = Hub \/ said' = said,
           misread \subseteq misread', line.entry \in said' \cup misread',
           \/ s = Hub /\ from = Hub
           \/ <<from, s>> \in Link /\ line.entry \in Adds(wire[<<from, s>>])
           \/ <<s, from>> \in Upward /\ line.entry \in misread',
           \A l \in Link : OnlyAdds(w[l]) /\ Adds(w[l]) \subseteq Adds(wire[l]),
           \A l \in Link : l # <<from, s>> => Adds(wire[l]) \subseteq Adds(w[l]),
           \A l \in Link : Adds(wire[l]) \subseteq Adds(w[l]) \cup {line.entry}
    PROVE  Growing'
  <1> DEFINE e == line.entry
             all2 == said' \cup misread'
  <1>0. ListTypeOK /\ NoTwice /\ e \in Entry /\ Matches(e, e)
    BY LineTypes, MatchesOrder DEF ListBase
  <1>1. Add(s, from, line, w)
    BY DEF Handler, Delete, SvsInfo
  <1>2. /\ Others(s)
        /\ \/ /\ \E m \in Held(s) : Matches(m, e)
              /\ Held(s)' = Held(s) /\ wire' = w
           \/ Held(s)' = Held(s) \cup {e} /\ PassedOn(s, from, line, w)
    BY <1>0, <1>1, AddValues
  <1>3. /\ \A r \in Server : Held(r) \subseteq Held(r)' /\ Held(r)' \subseteq Entry
        /\ \A r \in Server \ {s} : Held(r)' = Held(r)
        /\ Held(s)' \subseteq Held(s) \cup {e} /\ \E m \in Held(s)' : Matches(m, e)
    <2>1. \A r \in Server : Held(r) \subseteq Entry
      BY <1>0, HeldIs
    <2> QED BY <1>0, <1>2, <2>1 DEF Others
  <1>4. ASSUME NEW l \in Link
        PROVE  /\ OnlyAdds(wire'[l]) /\ Adds(w[l]) \subseteq Adds(wire'[l])
               /\ Adds(wire'[l]) \subseteq Adds(w[l]) \cup IF l[1] = s THEN {e} ELSE {}
               /\ Held(s)' = Held(s) \/ (l[1] = s /\ l \in established /\ l[2] # from => e \in Adds(wire'[l]))
    <2>1. CASE wire' = w /\ Held(s)' = Held(s)
      BY <2>1
    <2>2. CASE PassedOn(s, from, line, w)
      <3>1. CASE l[1] = s /\ l \in established /\ l[2] # from
        <4>1. wire'[l] = Sent(w[l], line) /\ w[l] \in Seq(Messages)
          BY <2>2, <3>1 DEF PassedOn
        <4>2. Adds(wire'[l]) = Adds(w[l]) \cup {e} /\ OnlyAdds(wire'[l])
          BY <4>1, AddsSent
        <4> QED BY <3>1, <4>2
      <3>2. CASE ~(l[1] = s /\ l \in established /\ l[2] # from)
        <4>1. wire'[l] = w[l]
          BY <2>2, <3>2 DEF PassedOn
        <4> QED BY <3>2, <4>1
      <3> QED BY <3>1, <3>2
    <2> QED BY <1>2, <2>1, <2>2
  <1>14. /\ \A l : OwnUp(l) \subseteq OwnUp(l)' /\ OwnDown(l) \subseteq OwnDown(l)'
    BY DEF OwnUp, OwnDown
  <1> HIDE DEF e
  <1>5. \A l \in Link : l[1] \in Server /\ l[2] \in Server /\ l[1] # l[2] /\ l = <<l[1], l[2]>>
    BY LinkEnds
  <1>6. /\ \A l \in Link : Adds(wire[l]) \subseteq all2
        /\ \A r \in Server : Held(r) \subseteq all2
        /\ Dominates(Held(Hub), said)
        /\ \A l \in established : Dominates(Held(l[2]) \cup Adds(wire[l]), Held(l[1]) \ OwnUp(l))
        /\ \A l \in Link : Dominates(Held(l[1]), Adds(wire[l]) \ OwnDown(l))
    BY DEF Growing
  <1>7. /\ said' \subseteq said \cup {e} /\ (s = Hub \/ said' = said) /\ e \in all2
    BY DEF e
  <1> HIDE DEF all2
  <1>8. ASSUME NEW l \in Link PROVE Adds(wire'[l]) \subseteq all2
    <2>1. Adds(w[l]) \subseteq all2
      BY <1>6
    <2> QED BY <1>4, <1>7, <2>1
  <1>9. ASSUME NEW r \in Server PROVE Held(r)' \subseteq all2
    BY <1>3, <1>6, <1>7
  <1>10. Dominates(Held(Hub)', said')
    <2>1. Hub \in Server
      BY TowardHub
    <2>2. Dominates(Held(Hub)', said)
      BY <1>3, <1>6, <2>1 DEF Dominates
    <2>3. CASE said' = said
      BY <2>2, <2>3 DEF Dominates
    <2>4. CASE s = Hub
      BY <1>3, <1>7, <2>2, <2>4 DEF Dominates
    <2> QED BY <1>7, <2>3, <2>4
  <1>11. ASSUME NEW l \in Link PROVE Dominates(Held(l[1])', Adds(wire'[l]) \ OwnDown(l)')
    <2>1. Dominates(Held(l[1])', Adds(w[l]) \ OwnDown(l)')
      BY <1>3, <1>5, <1>6, <1>14 DEF Dominates
    <2>2. CASE l[1] = s
      BY <1>3, <1>4, <2>1, <2>2 DEF Dominates
    <2>3. CASE l[1] # s
      BY <1>4, <2>1, <2>3 DEF Dominates
    <2> QED BY <2>2, <2>3
  <1>12. ASSUME NEW l \in established
         PROVE  Dominates(Held(l[2])' \cup Adds(wire'[l]), Held(l[1])' \ OwnUp(l)')
    <2>0. l \in Link
      BY <1>0 DEF ListTypeOK
    <2> DEFINE a == l[1]
               b == l[2]
               X == Held(b)' \cup Adds(wire'[l])
    <2>1. a \in Server /\ b \in Server /\ a # b /\ l = <<a, b>>
      BY <1>5, <2>0
    <2>2. X \in SUBSET Entry /\ Held(b) \cup Adds(wire[l]) \in SUBSET Entry /\ Held(a) \in SUBSET Entry
      BY <1>0, <1>3, <2>1, HeldIs DEF Adds
    <2>3. Dominates(X, Held(b) \cup Adds(wire[l]))
      <3> SUFFICES ASSUME NEW x \in Held(b) \cup Adds(wire[l]) PROVE \E m \in X : Matches(m, x)
        BY DEF Dominates
      <3>1. x \in Entry /\ Matches(x, x)
        BY <1>0, <2>2, MatchesOrder
      <3>2. CASE x \in Held(b) \cup Adds(w[l])
        BY <1>3, <1>4, <2>0, <2>1, <3>1, <3>2
      <3>3. CASE x \notin Held(b) \cup Adds(w[l])
        <4>1. l = <<from, s>> /\ x = e
          BY <2>0, <3>3 DEF e
        <4>2. b = s
          BY <4>1
        <4> QED BY <1>3, <4>1, <4>2
      <3> QED BY <3>2, <3>3
    <2>4. Dominates(X, Held(a) \ OwnUp(l)')
      <3>1. Dominates(Held(b) \cup Adds(wire[l]), Held(a) \ OwnUp(l))
        BY <1>6
      <3>2. Held(a) \ OwnUp(l) \in SUBSET Entry
        BY <2>2
      <3> HIDE DEF X
      <3>3. Dominates(X, Held(a) \ OwnUp(l))
        BY <1>0, <2>2, <2>3, <3>1, <3>2, DominatesThrough
      <3> QED BY <1>14, <3>3 DEF Dominates
    <2>5. CASE Held(a)' = Held(a)
      BY <2>4, <2>5
    <2>6. CASE Held(a)' # Held(a)
      <3>1. a = s /\ Held(a)' \subseteq Held(a) \cup {e}
        BY <1>3, <2>1, <2>6
      <3>2. e \in OwnUp(l)' \/ \E m \in X : Matches(m, e)
        <4>1. CASE b # from
          BY <1>0, <1>4, <2>0, <2>6, <3>1, <4>1 DEF e
        <4>2. CASE b = from
          <5>0. b # s /\ l = <<s, from>>
            BY <2>1, <3>1, <4>2
          <5>1. CASE l \in Upward /\ e \in misread'
            BY <5>1 DEF OwnUp
          <5>2. CASE /\ <<from, s>> \in Link /\ e \in Adds(wire[<<from, s>>])
                     /\ ~(l \in Upward /\ e \in misread')
            <6>1. e \notin OwnDown(<<from, s>>)
              <7>1. <<from, s>> \in Upward \/ <<s, from>> \in Upward
                BY <5>2, LinkEnds
              <7> QED BY <5>0, <5>2, <7>1 DEF OwnDown
            <6>2. Dominates(Held(b), Adds(wire[<<b, s>>]) \ OwnDown(<<b, s>>))
              <7>1. <<from, s>>[1] = from
                OBVIOUS
              <7>2. Dominates(Held(<<from, s>>[1]), Adds(wire[<<from, s>>]) \ OwnDown(<<from, s>>))
                BY <1>6, <5>2
              <7> QED BY <4>2, <7>1, <7>2
            <6>3. PICK m \in Held(b) : Matches(m, e)
              BY <4>2, <5>2, <6>1, <6>2 DEF Dominates
            <6> QED BY <1>3, <2>1, <6>3
          <5> QED BY <2>1, <4>2, <5>0, <5>1, <5>2 DEF e
        <4> QED BY <4>1, <4>2
      <3> HIDE DEF X
      <3>3. Dominates(X, Held(a)' \ OwnUp(l)')
        BY <2>4, <3>1, <3>2 DEF Dominates
      <3> QED BY <3>3 DEF X
    <2> QED BY <2>5, <2>6
  <1>13. \A l \in Link : OnlyAdds(wire'[l])
    BY <1>4
  <1> QED BY <1>8, <1>9, <1>10, <1>11, <1>12, <1>13, GrowsOn DEF all2

\* server_estab of two growing lists: each end sends the other what it has.
LEMMA EstabGrows ==
    ASSUME ListBase, Growing, NEW s \in Server, NEW t \in Server, ServerEstab(s, t)
    PROVE  Growing'
  <1>0. ListTypeOK /\ said \subseteq Entry
    BY DEF ListBase, ListTypeOK
  <1>1. /\ <<s, t>> \in Link /\ established' = established \cup {<<s, t>>}
        /\ wire' = [wire EXCEPT ![<<s, t>>] = SendList(s)] /\ wire \in [Link -> Seq(Messages)]
        /\ masks' = masks /\ entries' = entries /\ said' = said /\ misread' = misread
    BY <1>0 DEF ServerEstab, ListTypeOK
  <1>2. /\ DOMAIN SendList(s) = DOMAIN entries[s]
        /\ \A i \in DOMAIN SendList(s) : SendList(s)[i] = AddMsg(entries[s][i], TRUE)
    BY <1>0, SentListValues
  <1>3. OnlyAdds(SendList(s)) /\ Adds(SendList(s)) = Held(s)
    <2>1. ASSUME NEW i \in DOMAIN SendList(s)
          PROVE  SendList(s)[i].cmd = "ADD" /\ SendList(s)[i].entry = entries[s][i]
      <3>1. SendList(s)[i] = AddMsg(entries[s][i], TRUE)
        BY <1>2
      <3> QED BY ONLY <3>1 DEF AddMsg
    <2>2. Held(s) \subseteq Entry /\ (\A e \in Held(s) : \E i \in DOMAIN entries[s] : entries[s][i] = e)
          /\ \A i \in DOMAIN entries[s] : entries[s][i] \in Held(s)
      BY <1>0, HeldIs
    <2> QED BY <1>2, <2>1, <2>2 DEF OnlyAdds, Adds
  <1>4. wire'[<<s, t>>] = SendList(s) /\ \A l \in Link \ {<<s, t>>} : wire'[l] = wire[l]
    BY <1>1
  <1>5. \A r \in Server : Held(r)' = Held(r)
    BY <1>1 DEF Held
  <1>6. Dominates(Held(s), Held(s)) /\ Dominates(Held(t) \cup Held(s), Held(s))
    BY <1>0, HeldIs, MatchesOrder DEF Dominates
  <1>7. /\ \A l \in Link : OnlyAdds(wire[l]) /\ Adds(wire[l]) \subseteq said \cup misread
        /\ \A r \in Server : Held(r) \subseteq said \cup misread
        /\ Dominates(Held(Hub), said)
        /\ \A l \in established : Dominates(Held(l[2]) \cup Adds(wire[l]), Held(l[1]) \ OwnUp(l))
        /\ \A l \in Link : Dominates(Held(l[1]), Adds(wire[l]) \ OwnDown(l))
    BY DEF Growing
  <1>8. \A l \in Link : OnlyAdds(wire'[l]) /\ Adds(wire'[l]) \subseteq said \cup misread
    BY <1>3, <1>4, <1>7
  <1>9. \A l \in Link : Dominates(Held(l[1]), Adds(wire'[l]) \ OwnDown(l))
    BY <1>3, <1>4, <1>6, <1>7 DEF Dominates
  <1>10. \A l \in established' : Dominates(Held(l[2]) \cup Adds(wire'[l]), Held(l[1]) \ OwnUp(l))
    <2> SUFFICES ASSUME NEW l \in established' PROVE Dominates(Held(l[2]) \cup Adds(wire'[l]), Held(l[1]) \ OwnUp(l))
      OBVIOUS
    <2>1. CASE l = <<s, t>>
      BY <1>3, <1>4, <1>6, <2>1 DEF Dominates
    <2>2. CASE l # <<s, t>>
      <3>1. l \in established /\ wire'[l] = wire[l]
        BY <1>0, <1>1, <1>4, <2>2 DEF ListTypeOK
      <3> QED BY <1>7, <3>1
    <2> QED BY <2>1, <2>2
  <1>11. \A l \in Link : Held(l[1])' = Held(l[1]) /\ Held(l[2])' = Held(l[2])
    BY <1>5, LinkEnds
  <1>12. established' \subseteq Link
    BY <1>0, <1>1 DEF ListTypeOK
  <1>13. Held(Hub)' = Held(Hub)
    BY <1>5, TowardHub
  <1>14. \A l \in established' : Dominates(Held(l[2])' \cup Adds(wire'[l]), Held(l[1])' \ OwnUp(l))
    BY <1>10, <1>11, <1>12
  <1>15. \A l : OwnUp(l)' = OwnUp(l) /\ OwnDown(l)' = OwnDown(l)
    BY <1>1 DEF OwnUp, OwnDown
  <1> QED BY <1>1, <1>5, <1>7, <1>8, <1>9, <1>11, <1>13, <1>14, <1>15, GrowsOn

\* A connection lost while lists grow: what was on its way is not owed any more.
LEMMA BreakGrows ==
    ASSUME ListBase, Growing, NEW s \in Server, NEW t \in Server, Break(s, t)
    PROVE  Growing'
  <1>0. ListTypeOK
    BY DEF ListBase
  <1>1. /\ \A l \in Link : wire'[l] = <<>> \/ wire'[l] = wire[l]
        /\ \A l \in established' : l \in established /\ l \in Link /\ wire'[l] = wire[l]
        /\ entries' = entries /\ masks' = masks /\ said' = said /\ misread' = misread
    BY <1>0, BreakValues DEF ListTypeOK
  <1>2. \A r \in Server : Held(r)' = Held(r)
    BY <1>1 DEF Held
  <1>3. /\ \A l \in Link : OnlyAdds(wire[l]) /\ Adds(wire[l]) \subseteq said \cup misread
        /\ \A r \in Server : Held(r) \subseteq said \cup misread
        /\ Dominates(Held(Hub), said)
        /\ \A l \in established : Dominates(Held(l[2]) \cup Adds(wire[l]), Held(l[1]) \ OwnUp(l))
        /\ \A l \in Link : Dominates(Held(l[1]), Adds(wire[l]) \ OwnDown(l))
    BY DEF Growing
  <1>4. OnlyAdds(<<>>) /\ Adds(<<>>) = {}
    BY DEF OnlyAdds, Adds
  <1>5. ASSUME NEW l \in Link
        PROVE  /\ OnlyAdds(wire'[l]) /\ Adds(wire'[l]) \subseteq said \cup misread
               /\ Dominates(Held(l[1]), Adds(wire'[l]) \ OwnDown(l))
    <2>1. CASE wire'[l] = <<>>
      BY <1>4, <2>1 DEF Dominates
    <2> QED BY <1>1, <1>3, <2>1
  <1>6. \A l \in established' : Dominates(Held(l[2]) \cup Adds(wire'[l]), Held(l[1]) \ OwnUp(l))
    BY <1>1, <1>3
  <1>7. \A l \in Link : Held(l[1])' = Held(l[1]) /\ Held(l[2])' = Held(l[2])
    BY <1>2, LinkEnds
  <1>8. Held(Hub)' = Held(Hub)
    BY <1>2, TowardHub
  <1>9. \A l \in established' : Dominates(Held(l[2])' \cup Adds(wire'[l]), Held(l[1])' \ OwnUp(l))
    BY <1>1, <1>6, <1>7
  <1>10. \A l : OwnUp(l)' = OwnUp(l) /\ OwnDown(l)' = OwnDown(l)
    BY <1>1 DEF OwnUp, OwnDown
  <1> QED BY <1>1, <1>2, <1>3, <1>5, <1>7, <1>8, <1>9, <1>10, GrowsOn

-----------------------------------------------------------------------------
\* A handler starts no burst.
LEMMA TogetherStays ==
    ASSUME ListBase, Together, NEW s \in Server, NEW from, NEW line \in Messages,
           NEW w \in [Link -> Seq(Messages)], Handler(s, from, line, w), line \notin Burst,
           masks' = masks, established' = established,
           \A l \in Link : \A i \in DOMAIN w[l] : w[l][i] \notin Burst
    PROVE  Together'
  <1>1. wire' = w \/ PassedOn(s, from, line, w)
    BY HandlerValues DEF ListBase
  <1>2. ASSUME NEW l \in Link, NEW i \in DOMAIN wire'[l] PROVE wire'[l][i] \notin Burst
    <2>1. CASE wire'[l] = w[l]
      BY <1>2, <2>1
    <2>2. CASE wire'[l] # w[l]
      <3> DEFINE apart == ApartMsg(line.entry, line.burst)
      <3>1. wire'[l] = Sent(w[l], line) /\ w[l] \in Seq(Messages)
        BY <1>1, <2>2 DEF PassedOn
      <3>2. line.cmd = "ADD" => apart \notin Burst
        BY ApartTypes
      <3>3. \A j \in DOMAIN Sent(w[l], line) :
              \/ Sent(w[l], line)[j] = line
              \/ line.cmd = "ADD" /\ Sent(w[l], line)[j] = apart
              \/ j \in DOMAIN w[l] /\ Sent(w[l], line)[j] = w[l][j]
        BY ONLY <3>1, line \in Messages, SentValues
      <3> HIDE DEF apart
      <3>4. \/ wire'[l][i] = line
            \/ line.cmd = "ADD" /\ wire'[l][i] = apart
            \/ i \in DOMAIN w[l] /\ wire'[l][i] = w[l][i]
        BY <1>2, <3>1, <3>3
      <3> QED BY <3>2, <3>4
    <2> QED BY <2>1, <2>2
  <1> QED BY <1>2 DEF Together

\* Services say something that is new to the hub or not.
LEMMA ServicesInStep ==
    ASSUME ListBase, ListBase', Together, NEW told \in [Server -> SUBSET Entry], InStep(told),
           NEW line \in Messages, line \notin Burst, NEW what, FromServices(what, line),
           NEW F2 \in SUBSET Entry, Goes(told[Hub], line, F2),
           said' \subseteq F2, F2 \subseteq said' \cup misread
    PROVE  Together' /\ \E told2 \in [Server -> SUBSET Entry] : InStep(told2)'
  <1>1. /\ Handler(Hub, Hub, line, wire) /\ masks' = masks /\ established' = established
        /\ wire \in [Link -> Seq(Messages)] /\ misread' = misread
    BY DEF FromServices, ListBase, ListTypeOK
  <1>2. Hub \in Server
    BY TowardHub
  <1>3. Together'
    BY <1>1, <1>2, TogetherStays DEF Together
  <1>4. \E told2 \in [Server -> SUBSET Entry] : InStep(told2)'
    BY <1>1, <1>2, InStepMoves
  <1> QED BY <1>3, <1>4

\* A server parses what the one above it says.
LEMMA ReceiveInStep ==
    ASSUME ListBase, ListBase', Together, NEW told \in [Server -> SUBSET Entry], InStep(told),
           NEW s \in Server, NEW t \in Server, Receive(s, t)
    PROVE  Together' /\ \E told2 \in [Server -> SUBSET Entry] : InStep(told2)'
  <1> DEFINE q == wire[<<t, s>>]
             line == Head(q)
             w == Popped(t, s)
  <1>1. /\ <<t, s>> \in Link /\ q # <<>> /\ w \in [Link -> Seq(Messages)] /\ line \in Messages
        /\ \/ Handler(s, t, line, w) /\ misread' = misread
           \/ NobodyFound(line, w)
           \/ Misread(s, t, line, w)
        /\ masks' = masks /\ established' = established /\ said' = said
    BY ReceiveParts
  <1>2. /\ \A l \in Link \ {<<t, s>>} : w[l] = wire[l]
        /\ w[<<t, s>>] = Tail(q)
    <2>1. ListTypeOK
      BY DEF ListBase
    <2>2. <<t, s>> \in Link /\ wire[<<t, s>>] # <<>>
      BY <1>1
    <2> QED BY ONLY <2>1, <2>2, PoppedValues
  <1>3. /\ line = q[1] /\ 1 \in DOMAIN q
        /\ \A i \in DOMAIN Tail(q) : i + 1 \in DOMAIN q /\ Tail(q)[i] = q[i + 1]
    <2>1. ListTypeOK
      BY DEF ListBase
    <2> QED BY ONLY <1>1, <2>1, PoppedValues
  <1>4. q \in Seq(Messages)
    BY <1>1 DEF ListBase, ListTypeOK
  <1> HIDE DEF line, w
  <1>5. s \in Below /\ t = Toward[s] /\ <<t, s>> = Down(s)
    <2>1. PICK r \in Below : <<t, s>> = Up(r) \/ <<t, s>> = Down(r)
      BY <1>1, TowardHub
    <2>2. <<t, s>> # Up(r)
      BY <1>1, NothingUp
    <2> QED BY <2>1, <2>2 DEF Down
  <1>6. line \notin Burst
    BY <1>1, <1>3 DEF Together
  <1>7. \A l \in Link : \A i \in DOMAIN w[l] : w[l][i] \notin Burst
    <2> SUFFICES ASSUME NEW l \in Link, NEW i \in DOMAIN w[l] PROVE w[l][i] \notin Burst
      OBVIOUS
    <2>1. CASE l = <<t, s>>
      <3>1. \A j \in DOMAIN q : q[j] \notin Burst
        BY <1>1 DEF Together
      <3> HIDE DEF q
      <3> QED BY <1>2, <1>3, <2>1, <3>1
    <2>2. CASE l # <<t, s>>
      BY <1>2, <2>2 DEF Together
    <2> QED BY <2>1, <2>2
  <1>8. Follows(told[s], q, told[t], misread)
    BY <1>5 DEF InStep
  <1>9. PICK F2 \in SUBSET Entry : Goes(told[s], line, F2) /\ Follows(F2, Tail(q), told[t], misread)
    <2>1. \E E2 \in SUBSET Entry : Goes(told[s], Head(q), E2) /\ Follows(E2, Tail(q), told[t], misread)
      BY ONLY <1>1, <1>4, <1>8, FollowsPops
    <2> QED BY <2>1 DEF line
  <1>10. Follows(F2, w[Down(s)], told[Toward[s]], misread) /\ w[Down(s)] \in Seq(Messages)
    BY <1>1, <1>2, <1>5, <1>9
  <1>11. \A r \in Below \ {s} : w[Down(r)] = wire[Down(r)]
    <2> SUFFICES ASSUME NEW r \in Below \ {s} PROVE w[Down(r)] = wire[Down(r)]
      OBVIOUS
    <2>1. Down(r) \in Link /\ Down(r) # <<t, s>>
      BY TowardHub DEF Down
    <2> QED BY <1>2, <2>1
  <1>12. s # Hub /\ told[s] \in SUBSET Entry
    BY <1>5 DEF Below
  <1>13. line.cmd = "APART" => ~masks /\ F2 = told[s]
    BY <1>1, <1>3, <1>9 DEF ListBase, NothingApart, Goes
  <1> HIDE DEF q
  <1>14. CASE Handler(s, t, line, w) /\ misread' = misread
    <2>1. Together'
      BY <1>1, <1>6, <1>7, <1>14, TogetherStays
    <2>2. \E told2 \in [Server -> SUBSET Entry] : InStep(told2)'
      BY <1>1, <1>5, <1>9, <1>10, <1>11, <1>12, <1>14, InStepMoves
    <2> QED BY <2>1, <2>2
  <1>15. CASE NobodyFound(line, w)
    <2>1. wire' = w /\ entries' = entries /\ misread' = misread /\ F2 = told[s]
      BY <1>13, <1>15 DEF NobodyFound
    <2>2. Together'
      BY <1>1, <1>7, <2>1 DEF Together
    <2>3. \A r \in Server : Held(r)' = Held(r)
      BY <2>1 DEF Held
    <2>4. \A r \in Below : Follows(told[r], wire'[Down(r)], told[Toward[r]], misread)
      BY <1>10, <1>11, <2>1 DEF InStep
    <2>5. InStep(told)'
      <3>1. \A r \in Below : Follows(told[r], wire[Down(r)], told[Toward[r]], misread)'
        BY <1>1, <2>1, <2>4, SameMasks
      <3>2. \A r \in Server : (Held(r) \subseteq told[r])' /\ Dominates(Held(r), told[r])'
        BY <1>1, <2>3, SameMasks DEF InStep
      <3>3. (said \subseteq told[Hub] /\ told[Hub] \subseteq said \cup misread)'
        BY <1>1, <2>1 DEF InStep
      <3> QED BY <3>1, <3>2, <3>3 DEF InStep
    <2> QED BY <2>2, <2>5
  <1>16. CASE Misread(s, t, line, w)
    <2>1. PICK m \in Messages :
            /\ Handler(s, t, m, w)
            /\ m.cmd = "ADD" /\ m.entry \in Entry /\ (m \in Burst <=> line \in Burst)
            /\ misread' = IF Known(s, m.entry) THEN misread ELSE misread \cup {m.entry}
      BY <1>1, <1>16, MisreadParts DEF ListBase
    <2>2. ~masks /\ F2 = told[s]
      BY <1>1, <1>13, <1>16, MisreadParts DEF ListBase
    <2>3. Together'
      BY <1>1, <1>6, <1>7, <2>1, TogetherStays
    <2>4. PICK F3 \in SUBSET Entry : F3 = told[s] \cup {m.entry}
      BY <1>12, <2>1
    <2>5. Goes(told[s], m, F3) /\ misread \subseteq misread'
      BY <2>1, <2>4 DEF Goes
    <2>6. Follows(F3, w[Down(s)], told[Toward[s]], misread')
      <3>1. CASE Known(s, m.entry)
        <4>1. m.entry \in Held(s)
          BY <2>2, <3>1, HeldIs DEF Matches, ListBase
        <4>2. F3 = F2
          BY <2>2, <2>4, <4>1 DEF InStep
        <4> QED BY <1>10, <2>1, <3>1, <4>2
      <3>2. CASE ~Known(s, m.entry)
        <4>1. Follows(F2, w[Down(s)], told[Toward[s]], misread')
          BY <1>10, <2>5, FollowsStays
        <4>2. m.entry \in misread'
          BY <2>1, <3>2
        <4> QED BY <1>10, <2>1, <2>2, <2>4, <4>1, <4>2, FollowsTakes
      <3> QED BY <3>1, <3>2
    <2>7. \E told2 \in [Server -> SUBSET Entry] : InStep(told2)'
      <3>1. Handler(s, Toward[s], m, w) /\ masks' = masks /\ established' = established /\ said' = said
        BY <1>1, <1>5, <2>1
      <3>2. w \in [Link -> Seq(Messages)]
        BY <1>1
      <3> QED BY <1>11, <1>12, <2>5, <2>6, <3>1, <3>2, InStepMoves
    <2> QED BY <2>3, <2>7
  <1> QED BY <1>1, <1>14, <1>15, <1>16

\* A server parses an addition, of a burst or not, or what goes before it.
LEMMA ReceiveGrows ==
    ASSUME ListBase, ListBase', Growing, NEW s \in Server, NEW t \in Server, Receive(s, t),
           ~crossed'
    PROVE  Growing'
  <1> DEFINE q == wire[<<t, s>>]
             line == Head(q)
             w == Popped(t, s)
  <1>1. /\ <<t, s>> \in Link /\ q # <<>> /\ w \in [Link -> Seq(Messages)] /\ line \in Messages
        /\ \/ Handler(s, t, line, w) /\ misread' = misread
           \/ NobodyFound(line, w)
           \/ Misread(s, t, line, w)
        /\ masks' = masks /\ established' = established /\ said' = said
    BY ReceiveParts
  <1>2. /\ \A l \in Link \ {<<t, s>>} : w[l] = wire[l]
        /\ w[<<t, s>>] = Tail(q)
        /\ line = q[1] /\ 1 \in DOMAIN q
    <2>1. ListTypeOK
      BY DEF ListBase
    <2>2. <<t, s>> \in Link /\ wire[<<t, s>>] # <<>>
      BY <1>1
    <2> QED BY ONLY <2>1, <2>2, PoppedValues
  <1>3. q \in Seq(Messages) /\ OnlyAdds(q) /\ Adds(q) \subseteq said \cup misread
    BY <1>1 DEF ListBase, ListTypeOK, Growing
  <1>4. /\ line.cmd \in {"ADD", "APART"} /\ OnlyAdds(Tail(q))
        /\ line.cmd = "ADD" => /\ line.entry \in Adds(q)
                                /\ Adds(q) = Adds(Tail(q)) \cup {line.entry}
        /\ line.cmd = "APART" => Adds(q) = Adds(Tail(q))
    BY ONLY <1>1, <1>3, AddsPopped
  <1> HIDE DEF w, line
  <1>5. ASSUME NEW l \in Link
        PROVE  /\ OnlyAdds(w[l]) /\ Adds(w[l]) \subseteq Adds(wire[l])
               /\ l # <<t, s>> => Adds(wire[l]) \subseteq Adds(w[l])
               /\ line.cmd = "ADD" => Adds(wire[l]) \subseteq Adds(w[l]) \cup {line.entry}
               /\ line.cmd = "APART" => Adds(wire[l]) = Adds(w[l])
    <2>1. CASE l = <<t, s>>
      BY <1>2, <1>4, <2>1
    <2>2. CASE l # <<t, s>>
      BY <1>2, <2>2 DEF Growing
    <2> QED BY <2>1, <2>2
  <1>6. ASSUME line.cmd = "APART", entries' = entries, wire' = w, misread' = misread
        PROVE  Growing'
    <2>1. \A r : Held(r)' = Held(r)
      BY <1>6 DEF Held
    <2>2. \A l \in Link : OnlyAdds(wire'[l]) /\ Adds(wire'[l]) = Adds(wire[l])
      BY <1>5, <1>6
    <2>3. \A l : OwnUp(l)' = OwnUp(l) /\ OwnDown(l)' = OwnDown(l)
      BY <1>6 DEF OwnUp, OwnDown
    <2>4. established \subseteq Link
      BY DEF ListBase, ListTypeOK
    <2>5. \A l \in Link : OnlyAdds(wire'[l]) /\ Adds(wire'[l]) \subseteq said' \cup misread'
      BY <1>1, <1>6, <2>2 DEF Growing
    <2>6. (\A r \in Server : Held(r)' \subseteq said' \cup misread') /\ Dominates(Held(Hub)', said')
      BY <1>1, <1>6, <2>1 DEF Growing
    <2>7. \A l \in established' :
            Dominates(Held(l[2])' \cup Adds(wire'[l]), Held(l[1])' \ OwnUp(l)')
      BY <1>1, <2>1, <2>2, <2>3, <2>4 DEF Growing
    <2>8. \A l \in Link : Dominates(Held(l[1])', Adds(wire'[l]) \ OwnDown(l)')
      BY <2>1, <2>2, <2>3 DEF Growing
    <2>9. masks' = masks
      BY <1>1
    <2> QED BY ONLY <2>5, <2>6, <2>7, <2>8, <2>9, GrowsOn
  <1>7. CASE Handler(s, t, line, w) /\ misread' = misread
    <2>1. line.cmd = "ADD"
      BY <1>4, <1>7 DEF Handler, Add, Delete, SvsInfo
    <2>2. line.entry \in Adds(wire[<<t, s>>]) /\ line.entry \in said' \cup misread'
      BY <1>1, <1>3, <1>4, <1>7, <2>1
    <2>3. /\ <<t, s>> \in Link /\ w \in [Link -> Seq(Messages)] /\ line \in Messages
          /\ masks' = masks /\ established' = established /\ said' = said
      BY <1>1
    <2> HIDE DEF q
    <2> QED BY <1>5, <1>7, <2>1, <2>2, <2>3, AddGrows
  <1>8. CASE NobodyFound(line, w)
    BY <1>6, <1>8 DEF NobodyFound
  <1>9. CASE Misread(s, t, line, w)
    <2>1. ListTypeOK
      BY DEF ListBase
    <2>2. PICK m \in Messages :
            /\ Handler(s, t, m, w)
            /\ m.cmd = "ADD" /\ m.entry \in Entry
            /\ misread' = IF Known(s, m.entry) THEN misread ELSE misread \cup {m.entry}
            /\ crossed' = (crossed \/ (line.burst /\ ~Known(s, m.entry)))
      BY <1>1, <1>9, <2>1, MisreadParts
    <2>3. line.cmd = "APART"
      BY <1>9 DEF Misread
    <2>4. CASE Known(s, m.entry)
      <3>1. Add(s, t, m, w)
        BY <2>2 DEF Handler, Delete, SvsInfo
      <3>2. wire' = w /\ entries' = entries /\ misread' = misread
        <4>1. entries \in [Server -> Seq(Entry)]
          BY <2>1 DEF ListTypeOK
        <4> QED BY <2>2, <2>4, <3>1, <4>1 DEF Add
      <3> QED BY <1>6, <2>3, <3>2
    <2>5. CASE ~Known(s, m.entry)
      <3>1. line \notin Burst
        BY <2>2, <2>5, LineTypes
      <3>2. <<s, t>> \in Upward
        <4>1. PICK r \in Below : <<t, s>> = Up(r) \/ <<t, s>> = Down(r)
          BY <1>1, TowardHub DEF Up, Down
        <4>2. <<t, s>> # Up(r)
          BY <1>2, <3>1 DEF ListBase, UpAndDown
        <4> QED BY <4>1, <4>2 DEF Up, Down, Upward
      <3>3. m.entry \in misread' /\ misread \subseteq misread'
        BY <2>2, <2>5
      <3>4. /\ w \in [Link -> Seq(Messages)]
            /\ masks' = masks /\ established' = established /\ said' = said
        BY <1>1
      <3>5. \A l \in Link : /\ OnlyAdds(w[l]) /\ Adds(w[l]) \subseteq Adds(wire[l])
                             /\ Adds(wire[l]) \subseteq Adds(w[l])
        BY <1>5, <2>3
      <3> HIDE DEF q
      <3> QED BY <2>2, <3>2, <3>3, <3>4, <3>5, AddGrows
    <2> QED BY <2>4, <2>5
  <1> QED BY <1>1, <1>7, <1>8, <1>9

\* Services add while a split or a burst is on.
LEMMA ServicesAddGrows ==
    ASSUME ListBase, ListBase', Growing, NEW e \in Entry, ServicesAdd(e)
    PROVE  Growing'
  <1>1. PICK line \in Messages : line = AddMsg(e, FALSE)
    BY LineTypes
  <1>2. /\ Handler(Hub, Hub, line, wire) /\ masks' = masks /\ established' = established
        /\ wire \in [Link -> Seq(Messages)] /\ said' = said \cup {e} /\ misread' = misread
        /\ Hub \in Server
    BY <1>1, TowardHub DEF ServicesAdd, FromServices, ListBase, ListTypeOK
  <1>3. line.cmd = "ADD" /\ line.entry = e
    BY <1>1, AdditionParts
  <1>4. \A l \in Link : OnlyAdds(wire[l])
    BY DEF Growing
  <1> QED BY <1>2, <1>3, <1>4, AddGrows

\* The empty lists of a new network are in step.
LEMMA ListInitially == ListInit => ListInd
  <1> SUFFICES ASSUME ListInit PROVE ListInd
    OBVIOUS
  <1>0. <<>> \in Seq(Messages) /\ <<>> \in Seq(Entry)
    OBVIOUS
  <1>1. ListTypeOK
    BY <1>0, ListAssumption DEF ListInit, ListTypeOK
  <1>2. NoTwice /\ UpAndDown /\ NothingApart
    BY TowardHub DEF ListInit, NoTwice, UpAndDown, NothingApart
  <1>3. \A s \in Server : Held(s) = {}
    BY DEF ListInit, Held, ToSet
  <1>4. \A l \in Link : wire[l] = <<>> /\ l[1] \in Server /\ l[2] \in Server
    BY LinkEnds DEF ListInit
  <1>5. Growing
    BY <1>1, <1>3, <1>4, AddsValues, TowardHub DEF Growing, ListInit, Dominates, ListTypeOK
  <1> QED BY <1>1, <1>2, <1>5 DEF ListInd, ListBase

\* One case for every action, and for growing lists and lists in step.
LEMMA ListStep == ListInd /\ [ListNext]_listVars => ListInd'
  <1> SUFFICES ASSUME ListInd, [ListNext]_listVars PROVE ListInd'
    OBVIOUS
  <1> DEFINE Agreed == Together /\ \E told \in [Server -> SUBSET Entry] : InStep(told)
  <1>1. ListBase /\ ListBase'
    BY BaseKeeps DEF ListInd
  <1>2. ~crossed => Growing \/ Agreed
    BY DEF ListInd
  <1>3. Growing /\ Together => Agreed
    BY <1>1, GrownInStep
  <1>4. ListTypeOK
    BY <1>1 DEF ListBase
  <1> SUFFICES ASSUME ~crossed' PROVE Growing' \/ Agreed'
    BY <1>1 DEF ListInd
  <1> HIDE DEF Agreed
  <1>5. ASSUME NEW e \in Entry, ServicesAdd(e) PROVE Growing' \/ Agreed'
    <2>1. ~crossed
      BY <1>5 DEF ServicesAdd
    <2>2. CASE Growing
      BY <1>1, <1>5, <2>2, ServicesAddGrows
    <2>3. CASE Agreed
      <3>1. PICK line \in Messages : line = AddMsg(e, FALSE)
        BY LineTypes
      <3>2. line \notin Burst /\ FromServices("add", line) /\ line.cmd = "ADD" /\ line.entry = e
        BY <1>5, <3>1, LineTypes, AdditionParts DEF ServicesAdd
      <3>3. PICK told \in [Server -> SUBSET Entry] : InStep(told)
        BY <2>3 DEF Agreed
      <3>4. PICK F2 \in SUBSET Entry : F2 = told[Hub] \cup {e}
        BY TowardHub
      <3>5. said' \subseteq F2 /\ F2 \subseteq said' \cup misread
        BY <1>5, <3>3, <3>4 DEF ServicesAdd, InStep
      <3>6. Goes(told[Hub], line, F2)
        BY <3>2, <3>4 DEF Goes
      <3> QED BY <1>1, <2>3, <3>2, <3>3, <3>5, <3>6, ServicesInStep DEF Agreed
    <2> QED BY <1>2, <2>1, <2>2, <2>3
  <1>6. ASSUME NEW e \in Entry, ServicesDelete(e) PROVE Growing' \/ Agreed'
    <2>1. ~crossed /\ Together /\ ~Overlapped(e)
      BY <1>6 DEF ServicesDelete
    <2>2. Agreed
      BY <1>2, <1>3, <2>1
    <2>3. PICK line \in Messages : line = DeleteMsg(e)
      BY LineTypes
    <2>4. line \notin Burst /\ FromServices("delete", line) /\ line.cmd = "DELETE" /\ line.entry = e
      BY <1>6, <2>3, LineTypes DEF ServicesDelete, DeleteMsg
    <2>5. PICK told \in [Server -> SUBSET Entry] : InStep(told)
      BY <2>2 DEF Agreed
    <2>6. PICK F2 \in SUBSET Entry : F2 = told[Hub] \ {e}
      BY TowardHub
    <2>7. said' \subseteq F2 /\ F2 \subseteq said' \cup misread
      BY <1>6, <2>5, <2>6 DEF ServicesDelete, InStep
    <2>8. Alone(e, told[Hub])
      <3>1. masks => told[Hub] = said
        BY <1>1, <2>5 DEF ListBase, NothingApart, InStep
      <3> QED BY <1>4, <2>1, <3>1 DEF Alone, Matches, Overlapped
    <2>9. Goes(told[Hub], line, F2)
      BY <2>4, <2>6, <2>8 DEF Goes
    <2> QED BY <1>1, <2>1, <2>4, <2>5, <2>7, <2>9, ServicesInStep DEF Agreed
  <1>7. ASSUME ServicesClear PROVE Growing' \/ Agreed'
    <2>1. ~crossed /\ Together
      BY <1>7 DEF ServicesClear
    <2>2. Agreed
      BY <1>2, <1>3, <2>1
    <2>3. PICK line \in Messages : line = ClearMsg
      BY LineTypes
    <2>4. line \notin Burst /\ FromServices("clear", line) /\ line.cmd = "CLEAR"
      <3>1. line.cmd = "CLEAR"
        BY <2>3 DEF ClearMsg
      <3>2. line \notin Burst
        BY <3>1, LineTypes
      <3> QED BY <1>7, <2>3, <3>1, <3>2 DEF ServicesClear
    <2>5. PICK told \in [Server -> SUBSET Entry] : InStep(told)
      BY <2>2 DEF Agreed
    <2>6. PICK F2 \in SUBSET Entry : F2 = {}
      OBVIOUS
    <2>7. said' \subseteq F2 /\ F2 \subseteq said' \cup misread
      BY <1>7, <2>6 DEF ServicesClear
    <2>8. Goes(told[Hub], line, F2)
      BY <2>4, <2>6 DEF Goes
    <2> QED BY <1>1, <2>1, <2>4, <2>5, <2>7, <2>8, ServicesInStep DEF Agreed
  <1>8. ASSUME NEW s \in Server, NEW t \in Server, Receive(s, t) PROVE Growing' \/ Agreed'
    <2>1. ~crossed
      <3>1. \/ crossed' = crossed
            \/ NobodyFound(Head(wire[<<t, s>>]), Popped(t, s))
            \/ Misread(s, t, Head(wire[<<t, s>>]), Popped(t, s))
        BY <1>1, <1>8, ReceiveParts
      <3> QED BY <3>1 DEF NobodyFound, Misread
    <2>2. CASE Growing
      BY <1>1, <1>8, <2>2, ReceiveGrows
    <2>3. CASE Agreed
      BY <1>1, <1>8, <2>3, ReceiveInStep DEF Agreed
    <2> QED BY <1>2, <2>1, <2>2, <2>3
  <1>9. ASSUME NEW s \in Server, NEW t \in Server, ServerEstab(s, t) PROVE Growing' \/ Agreed'
    <2>1. ~crossed /\ ~Together
      BY <1>9 DEF ServerEstab, Together
    <2>2. Growing
      BY <1>2, <2>1 DEF Agreed
    <2> QED BY <1>1, <1>9, <2>2, EstabGrows
  <1>10. ASSUME NEW s \in Server, NEW t \in Server, Break(s, t) PROVE Growing' \/ Agreed'
    <2>1. ~crossed /\ \A l \in Link : OnlyAdds(wire[l])
      <3>1. ~crossed /\ \A l \in Link : \A i \in DOMAIN wire[l] : wire[l][i].cmd \notin {"DELETE", "CLEAR"}
        BY <1>10 DEF Break
      <3>2. ASSUME NEW l \in Link, NEW i \in DOMAIN wire[l] PROVE wire[l][i] \in Messages
        BY <1>4, ElementOfSeq DEF ListTypeOK
      <3> QED BY <3>1, <3>2, LineTypes DEF OnlyAdds
    <2>2. Growing
      BY <1>1, <1>2, <2>1, InStepGrows DEF Agreed
    <2> QED BY <1>1, <1>10, <2>2, BreakGrows
  <1>11. ASSUME UNCHANGED listVars PROVE Growing' \/ Agreed'
    <2>1. /\ masks' = masks /\ entries' = entries /\ established' = established /\ wire' = wire
          /\ said' = said /\ misread' = misread /\ crossed' = crossed
      BY <1>11 DEF listVars
    <2>2. CASE Growing
      <3>1. (\A r : Held(r)' = Held(r)) /\ \A l : OwnUp(l)' = OwnUp(l) /\ OwnDown(l)' = OwnDown(l)
        BY <2>1 DEF Held, OwnUp, OwnDown
      <3>2. /\ \A l \in Link : OnlyAdds(wire'[l]) /\ Adds(wire'[l]) \subseteq said' \cup misread'
            /\ \A r \in Server : Held(r)' \subseteq said' \cup misread'
            /\ Dominates(Held(Hub)', said')
        BY <2>1, <2>2, <3>1 DEF Growing
      <3>3. \A l \in established' :
              Dominates(Held(l[2])' \cup Adds(wire'[l]), Held(l[1])' \ OwnUp(l)')
        BY <2>1, <2>2, <3>1 DEF Growing
      <3>4. \A l \in Link : Dominates(Held(l[1])', Adds(wire'[l]) \ OwnDown(l)')
        BY <2>1, <2>2, <3>1 DEF Growing
      <3>5. masks' = masks
        BY <2>1
      <3>6. Growing'
        BY ONLY <3>2, <3>3, <3>4, <3>5, GrowsOn
      <3> QED BY <3>6
    <2>3. CASE Agreed
      <3>1. PICK told \in [Server -> SUBSET Entry] : InStep(told)
        BY <2>3 DEF Agreed
      <3>2. \A r \in Server : Held(r)' = Held(r)
        BY <2>1 DEF Held
      <3>3. InStep(told)'
        BY <2>1, <3>1, <3>2, SameMasks DEF InStep
      <3>4. Together'
        BY <2>1, <2>3 DEF Agreed, Together
      <3> QED BY <3>3, <3>4 DEF Agreed
    <2> QED BY <1>2, <2>1, <2>2, <2>3
  <1> QED BY <1>5, <1>6, <1>7, <1>8, <1>9, <1>10, <1>11 DEF ListNext

\* The lists and what is on its way, through every addition, removal, burst and
\* split, and through every G-line that is read as another: mo_gline, PROXY,
\* UNPROXY, SVSINFO, server_estab, find_user_host.
THEOREM ListIndHolds == ListSpec => []ListInd
  BY ListInitially, ListStep, PTL DEF ListSpec

\* The lists, the streams and what services said keep their types.
THEOREM ListsTyped == ListSpec => []ListTypeOK
  <1>1. ListInd => ListTypeOK
    BY DEF ListInd, ListBase
  <1> QED BY <1>1, ListIndHolds, PTL

\* With nothing on its way, what services said comes down to every server.
LEMMA RestAgrees == ListInd => ListsAgree
  <1> DEFINE all == said \cup misread
  <1> SUFFICES ASSUME ListInd, established = Link, \A l \in Link : wire[l] = <<>>, ~crossed,
                      NEW s \in Server
               PROVE  /\ Meaning(said) \subseteq Meaning(ToSet(entries[s]))
                      /\ Meaning(ToSet(entries[s])) \subseteq Meaning(all)
    BY DEF ListsAgree
  <1>0. ListBase /\ ListTypeOK /\ said \in SUBSET Entry /\ misread \in SUBSET Entry
    BY DEF ListInd, ListBase, ListTypeOK
  <1>1. Together
    BY DEF Together
  <1>2. PICK told \in [Server -> SUBSET Entry] : InStep(told)
    BY <1>0, <1>1, GrownInStep DEF ListInd
  <1>3. ASSUME NEW r \in Below
        PROVE  told[r] \subseteq told[Toward[r]] \cup misread /\ Dominates(told[r], told[Toward[r]])
    <2>1. Follows(told[r], wire[Down(r)], told[Toward[r]], misread) /\ wire[Down(r)] = <<>>
      BY <1>2, TowardHub DEF InStep, Down
    <2>2. <<>> \in Seq(Messages)
      OBVIOUS
    <2> QED BY <2>1, <2>2, FollowsAtRest
  <1> DEFINE S == {r \in Server : told[r] \subseteq all /\ Dominates(told[r], said)}
  <1>4. Hub \in S
    <2>1. said \subseteq told[Hub] /\ told[Hub] \subseteq all /\ Hub \in Server
      BY <1>2, TowardHub DEF InStep
    <2>2. told[Hub] \in SUBSET Entry
      BY <2>1
    <2> QED BY <1>0, <2>1, <2>2, DominatesPart
  <1>5. ASSUME NEW r \in Below, Toward[r] \in S PROVE r \in S
    <2>1. r \in Server /\ told[r] \in SUBSET Entry /\ told[Toward[r]] \in SUBSET Entry
      BY <1>5 DEF Below
    <2> QED BY <1>0, <1>3, <1>5, <2>1, DominatesThrough
  <1>6. s \in S
    <2> HIDE DEF S
    <2>1. S \in SUBSET Server
      BY DEF S
    <2> QED BY <1>4, <1>5, <2>1, HubInduction
  <1>7. Held(s) \subseteq all /\ Dominates(Held(s), said)
    <2>1. Held(s) \subseteq told[s] /\ Dominates(Held(s), told[s]) /\ told[s] \in SUBSET Entry
      BY <1>2 DEF InStep
    <2>2. Held(s) \in SUBSET Entry
      BY <1>0, HeldIs
    <2> QED BY <1>0, <1>6, <2>1, <2>2, DominatesThrough
  <1>8. CASE masks
    <2>1. ASSUME NEW e \in Entry, NEW m \in said, <<m, e>> \in Covers
          PROVE  \E k \in Held(s) : <<k, e>> \in Covers
      <3>1. PICK k \in Held(s) : Matches(k, m)
        BY <1>7 DEF Dominates
      <3>2. k \in Entry /\ m \in Entry /\ <<k, m>> \in Covers
        BY <1>0, <1>7, <1>8, <3>1 DEF Matches
      <3> QED BY <2>1, <3>2, ListAssumption
    <2> QED BY <1>7, <1>8, <2>1 DEF Meaning, Held
  <1>9. CASE ~masks
    <2>1. ASSUME NEW e \in said PROVE e \in Held(s)
      <3>1. PICK k \in Held(s) : Matches(k, e)
        BY <1>7 DEF Dominates
      <3> QED BY <1>9, <3>1 DEF Matches
    <2> QED BY <1>7, <1>9, <2>1 DEF Meaning, Held
  <1> QED BY <1>8, <1>9

\* At rest every server remembers what services said, and nothing else but what some
\* server read a G-line apart as (mo_gline, PROXY, server_estab).
THEOREM ListsStayAlike == ListSpec => []ListsAgree
  BY RestAgrees, ListIndHolds, PTL
=============================================================================
