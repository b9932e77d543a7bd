------------------------ MODULE AccessControlService ------------------------
(***************************************************************************)
(* Who may manage whom: predicates on the copies of users a request holds. *)
(* A user is a record with at least a name, a role and a group.            *)
(***************************************************************************)
EXTENDS Naturals

CONSTANT NoGroup    \* the group "" of a user without a group

USER == 0
GROUP_MANAGER == 1
GLOBAL_MODERATOR == 2
GLOBAL_ADMINISTRATOR == 100

USER_ROLE == {USER, GROUP_MANAGER, GLOBAL_MODERATOR, GLOBAL_ADMINISTRATOR}

isAdmin(user) == user.role = GLOBAL_ADMINISTRATOR
isModerator(user) == user.role = GLOBAL_MODERATOR

canListAllUsers(actor) == isAdmin(actor) \/ isModerator(actor)

canCreateUser(actor, targetRole) ==
  isAdmin(actor) \/ (isModerator(actor) /\ targetRole <= GROUP_MANAGER)

(* newRoles holds the role to be given, or nothing. *)
canModifyUser(actor, target, newRoles) ==
  \/ isAdmin(actor)
  \/ /\ isModerator(actor)
     /\ target.role < GLOBAL_MODERATOR
     /\ \A r \in newRoles : r <= GROUP_MANAGER

canDeleteUser(actor, target) ==
  /\ actor.name # target.name
  /\ isAdmin(actor) \/ (isModerator(actor) /\ target.role < GLOBAL_MODERATOR)

canManageGroupMembers(actor, group) ==
  \/ canListAllUsers(actor)
  \/ actor.role = GROUP_MANAGER /\ group # NoGroup /\ actor.group = group

canAddToGroup(actor, target, group) ==
  /\ canManageGroupMembers(actor, group)
  /\ \/ isAdmin(actor)
     \/ isModerator(actor) /\ target.role < GLOBAL_MODERATOR
     \/ ~canListAllUsers(actor) /\ target.role = USER /\ target.group = NoGroup

canRemoveFromGroup(actor, target, group) ==
  /\ canManageGroupMembers(actor, group)
  /\ \/ isAdmin(actor)
     \/ isModerator(actor) /\ target.role < GLOBAL_MODERATOR
     \/ ~canListAllUsers(actor) /\ target.role <= GROUP_MANAGER
=============================================================================
