------------------------------- MODULE Policy -------------------------------
(***************************************************************************)
(* Roles, and the roles that hold the capabilities the other modules ask   *)
(* for.                                                                    *)
(***************************************************************************)

Roles == {"ENGINEER", "SENIOR_ENGINEER", "MANAGER", "ADMIN", "OWNER"}

CustodyRoles == {"ENGINEER", "SENIOR_ENGINEER"}
OperateRoles == {"ENGINEER", "SENIOR_ENGINEER", "ADMIN", "OWNER"}
AdminRoles   == {"ADMIN", "OWNER"}

\* movement.read_own or .read_all, and movement.read_all
MovementReadRoles == {"ENGINEER", "SENIOR_ENGINEER", "ADMIN", "OWNER"}
ReadAllRoles      == {"SENIOR_ENGINEER", "ADMIN", "OWNER"}

\* procurement.read, .create, .manage and .accept
ReadRoles    == {"SENIOR_ENGINEER", "MANAGER", "ADMIN", "OWNER"}
CreateRoles  == {"ADMIN", "OWNER"}
ManageRoles  == {"MANAGER"}
AcceptRoles  == {"SENIOR_ENGINEER", "ADMIN", "OWNER"}
=============================================================================
