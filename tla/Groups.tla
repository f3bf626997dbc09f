------------------------------- MODULE Groups -------------------------------
(***************************************************************************)
(* One group of the GroupManager (groups.rs) behind the cipher_group_*     *)
(* functions of ffi.rs.  A manager holds only the groups its user created. *)
(* The group key is named by the epoch that drew it; who was a member      *)
(* while a key was current is taken to know that key.  leave_group refuses *)
(* an Owner, which we are in every group we hold: it changes nothing.      *)
(***************************************************************************)
EXTENDS Vec, SequencesExt

CONSTANTS
    Us,           \* our_address
    Other,        \* other addresses
    MaxEpoch,     \* bound: how often the key is drawn
    MaxInvited    \* bound: how many addresses a group is created with

ASSUME GroupsAssumption == Us \notin Other /\ MaxEpoch \in Nat

VARIABLES
    members,      \* GroupInfo::members: addresses and roles; << >> before
    epoch,        \* GroupInfo::epoch
    key,          \* GroupInfo::group_key
    settings,     \* name, pin, slow mode, link, username: those set so far
    knows         \* history: the keys an address was a member for

groupsVars == <<members, epoch, key, settings, knows>>

Address == Other \cup {Us}
Role == {"Owner", "Admin", "Moderator", "Member", "Restricted"}
Setting == {"name", "pinned", "slow_mode", "join_link", "username"}

GroupsInit == /\ members = <<>>
              /\ epoch = 0
              /\ key = 0
              /\ settings = {}
              /\ knows = [a \in Address |-> {}]

Addresses(ms) == {ms[i].address : i \in DOMAIN ms}
Entry(a, role) == [address |-> a, role |-> role]
RoleOf(a) == LET first == SelectInSeq(members, LAMBDA m : m.address = a)
             IN IF first = 0 THEN "none" ELSE members[first].role
\* check_admin.
IsAdmin == RoleOf(Us) \in {"Owner", "Admin"}

\* GroupPermissions::default_for: the rights a role comes with.
Right == {"send_messages", "send_media", "add_members", "change_info",
          "delete_messages", "ban_users", "pin_messages"}
DefaultFor(role) ==
    CASE role \in {"Owner", "Admin"} -> Right
      [] role = "Moderator" -> Right \ {"add_members", "change_info"}
      [] role = "Member" -> {"send_messages", "send_media"}
      [] OTHER -> {}

\* Every member learns the current key.
Learn == knows' = [a \in Address |->
                     IF a \in Addresses(members') THEN knows[a] \cup {key'}
                     ELSE knows[a]]

\* create_group: the invited are taken as they come, twice or ourselves too.
CreateGroup(invited) ==
    /\ members = <<>>
    /\ members' = <<Entry(Us, "Owner")>>
                    \o [i \in DOMAIN invited |-> Entry(invited[i], "Member")]
    /\ epoch' = 0
    /\ key' = 0
    /\ settings' = {"name"}
    /\ Learn

\* Slip: the epoch is counted and the key kept.
CountEpoch ==
    /\ epoch' = epoch + 1
    /\ key' = key
\* The key is drawn again.
Rotate ==
    /\ epoch' = epoch + 1
    /\ key' = epoch + 1

AddMember(a) ==
    /\ IsAdmin
    /\ epoch < MaxEpoch
    /\ a \notin Addresses(members)
    /\ members' = Append(members, Entry(a, "Member"))
    /\ Rotate
    /\ Learn
    /\ UNCHANGED settings

\* remove_member: every entry of the address goes, unless one is an Owner;
\* the key rotates even when there was none.
RemoveMember(a) ==
    /\ IsAdmin
    /\ epoch < MaxEpoch
    /\ Entry(a, "Owner") \notin ToSet(members)
    /\ members' = Retain(members,
                       {i \in DOMAIN members : members[i].address # a})
    /\ Rotate
    /\ Learn
    /\ UNCHANGED settings

\* update_member_permissions: the first entry of the address, to any role, to
\* Owner too.
UpdatePermissions(a, role) ==
    LET i == SelectInSeq(members, LAMBDA m : m.address = a) IN
    /\ IsAdmin
    /\ i # 0
    /\ members[i].role # "Owner"
    /\ members' = [members EXCEPT ![i].role = role]
    /\ UNCHANGED <<epoch, key, settings, knows>>

\* update_name, pin_message, set_slow_mode, generate_join_link and
\* register_group_username (which may fail).  Our Owner entry keeps the
\* permissions it came with, for nobody can change it.
May(setting) ==
    CASE setting = "pinned" -> "pin_messages" \in DefaultFor(RoleOf(Us))
      [] setting = "join_link" -> "add_members" \in DefaultFor(RoleOf(Us))
      [] OTHER -> IsAdmin

Change(setting) ==
    /\ May(setting)
    /\ settings' = settings \cup {setting}
    /\ UNCHANGED <<members, epoch, key, knows>>

GroupsNext ==
    \/ \E n \in 0 .. MaxInvited : \E invited \in [1 .. n -> Address] :
          CreateGroup(invited)
    \/ \E a \in Address : \/ AddMember(a)
                          \/ RemoveMember(a)
                          \/ \E role \in Role : UpdatePermissions(a, role)
    \/ \E setting \in Setting : Change(setting)

GroupsSpec == GroupsInit /\ [][GroupsNext]_groupsVars

-----------------------------------------------------------------------------
GroupsTypeOK ==
    /\ members \in Seq([address : Address, role : Role])
    /\ epoch \in 0 .. MaxEpoch
    /\ key \in 0 .. MaxEpoch
    /\ settings \in SUBSET Setting
    /\ knows \in [Address -> SUBSET (0 .. MaxEpoch)]

\* Forward secrecy and post-compromise security, as the comments on the key
\* rotation have it: the members, and nobody who was removed, however often
\* and under whichever duplicate entries, know the current key; a newcomer
\* knows no key from before.
KeyIsTheMembers ==
    members # <<>> => {a \in Address : key \in knows[a]} = Addresses(members)
=============================================================================
