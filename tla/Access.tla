------------------------------- MODULE Access --------------------------------
(***************************************************************************)
(* Users and their sessions, and the registry of drivers, vehicles and     *)
(* warehouses, whose routes call the repositories directly.                *)
(*                                                                         *)
(* Rows are deleted for good and their natural keys become free again.     *)
(* Refresh tokens are keys of Redis: consuming one (GETDEL) is one atomic  *)
(* step, issuing its successor another, and a logout, a second refresh     *)
(* with the same token or a deactivation of the user may come in between.  *)
(* Here a consumed token keeps its row, so that a token's descent can be   *)
(* told.  Passwords, access tokens and their denylist are left out: an     *)
(* access token changes nothing and expires.                               *)
(***************************************************************************)
EXTENDS OptimisticRows

CONSTANTS
  Accounts, Emails,
  Drivers, Licences,
  Vehicles, Plates,
  Warehouses, Codes,
  RefreshTokens

\* The unique index of drivers by user.
Profile(u) == <<u, "profile">>

ASSUME AccessAssumption ==
  /\ UNION {Accounts, Emails, Drivers, Licences, Vehicles, Plates, Warehouses, Codes,
            RefreshTokens} \subseteq Ids
  /\ \A u \in Accounts : Profile(u) \in Ids \ Licences

AccountRows == [status : {"active", "inactive"}, deleted : {FALSE}, code : Emails,
                role : {"admin", "driver"}]

DriverRows == [status : {"available", "busy"}, deleted : {FALSE}, code : Licences,
               user : Accounts]

VehicleRows == [status : {"active", "maintenance"}, deleted : {FALSE}, code : Plates]

WarehouseRows == [status : {"open"}, deleted : {FALSE}, code : Codes]

\* chain: the token of the login it descends from.
TokenRows == [status : {"live", "spent"}, deleted : {FALSE}, user : Accounts,
              chain : RefreshTokens]

-----------------------------------------------------------------------------
(* Rows with a natural key *)

CreateKeyed(r, op, x, row) ==
  /\ Fresh(x) /\ ~Exists(row.code)
  /\ Prepare(r, Plan(op, [y \in {x, row.code} |-> IF y = x THEN row ELSE Entry(x)], Idle))

\* The old key becomes free.
Rename(r, op, x, code) ==
  /\ Exists(x) /\ ~Exists(code)
  /\ Prepare(r, Plan(op, [y \in Among({x, code, db[x].code}) |->
                            CASE y = x -> [db[x] EXCEPT !.code = code]
                              [] y = code -> Entry(x)
                              [] OTHER -> Absent], Idle))

DeleteKeyed(r, op, x) ==
  /\ Exists(x)
  /\ Prepare(r, Plan(op, [y \in Among({x, db[x].code}) |-> Absent], Idle))

-----------------------------------------------------------------------------
(* Users *)

CreateUser(r) ==
  /\ Asked(r, "create_account")
  /\ \E u \in Among(Accounts), email \in Among(Emails), role \in {"admin", "driver"} :
       CreateKeyed(r, "create_account", u, [status |-> "active", deleted |-> FALSE,
                                            code |-> email, role |-> role])

\* Name, password, is_active; email and role cannot be changed.
UpdateUser(r) ==
  /\ Asked(r, "update_account")
  /\ \E u \in Among(Accounts), status \in {"active", "inactive"} :
       Exists(u) /\ Write(r, "update_account", u, [db[u] EXCEPT !.status = status])

\* With a driver profile the delete fails (its user_id would become null).  A
\* profile made at the same moment goes with the user (ON DELETE CASCADE); here
\* the later of the two requests fails.
DeleteUser(r) ==
  /\ Asked(r, "delete_account")
  /\ \E u \in Among(Accounts) :
       /\ Exists(u)
       /\ Profile(u) \in DOMAIN db => ~Exists(Profile(u))
       /\ Prepare(r, Plan("delete_account",
                          [y \in Among({u, db[u].code, Profile(u)}) |-> Absent], Idle))

-----------------------------------------------------------------------------
(* Drivers, vehicles, warehouses *)

CreateDriver(r) ==
  /\ Asked(r, "create_driver")
  /\ \E d \in Among(Drivers), licence \in Among(Licences), u \in Among(Accounts) :
       /\ Fresh(d) /\ ~Exists(licence)
       /\ Exists(u) /\ ~Exists(Profile(u))
       /\ Prepare(r, Plan("create_driver",
            [y \in Among({d, licence, Profile(u)}) |->
               IF y = d THEN [status |-> "available", deleted |-> FALSE, code |-> licence,
                              user |-> u]
               ELSE Entry(d)], Idle))

UpdateDriver(r) ==
  /\ Asked(r, "update_driver")
  /\ \E d \in Among(Drivers), licence \in Among(Licences) :
       Rename(r, "update_driver", d, licence)

\* By the driver: PATCH /drivers/me.
SetAvailability(r) ==
  /\ Asked(r, "set_availability")
  /\ \E d \in Among(Drivers), status \in {"available", "busy"} :
       Exists(d) /\ Write(r, "set_availability", d, [db[d] EXCEPT !.status = status])

DeleteDriver(r) ==
  /\ Asked(r, "delete_driver")
  /\ \E d \in Among(Drivers) :
       /\ Exists(d)
       /\ Prepare(r, Plan("delete_driver",
                          [y \in Among({d, db[d].code, Profile(db[d].user)}) |-> Absent], Idle))

CreateVehicle(r) ==
  /\ Asked(r, "create_vehicle")
  /\ \E v \in Among(Vehicles), plate \in Among(Plates) :
       CreateKeyed(r, "create_vehicle", v,
                   [status |-> "active", deleted |-> FALSE, code |-> plate])

UpdateVehicle(r) ==
  /\ Asked(r, "update_vehicle")
  /\ \E v \in Among(Vehicles) :
       \/ \E plate \in Among(Plates) : Rename(r, "update_vehicle", v, plate)
       \/ \E status \in {"active", "maintenance"} :
            Exists(v) /\ Write(r, "update_vehicle", v, [db[v] EXCEPT !.status = status])

DeleteVehicle(r) ==
  /\ Asked(r, "delete_vehicle")
  /\ \E v \in Among(Vehicles) : DeleteKeyed(r, "delete_vehicle", v)

CreateWarehouse(r) ==
  /\ Asked(r, "create_warehouse")
  /\ \E w \in Among(Warehouses), code \in Among(Codes) :
       CreateKeyed(r, "create_warehouse", w,
                   [status |-> "open", deleted |-> FALSE, code |-> code])

\* All but the code.
UpdateWarehouse(r) ==
  /\ Asked(r, "update_warehouse")
  /\ \E w \in Among(Warehouses) : Exists(w) /\ Write(r, "update_warehouse", w, db[w])

DeleteWarehouse(r) ==
  /\ Asked(r, "delete_warehouse")
  /\ \E w \in Among(Warehouses) : DeleteKeyed(r, "delete_warehouse", w)

-----------------------------------------------------------------------------
(* Sessions *)

ActiveUser(u) == u \in DOMAIN db /\ InStatus(u, {"active"})

\* authenticate and issue_token_pair; a registration ends the same way.
Login(r) ==
  /\ Asked(r, "login")
  /\ \E u \in Among(Accounts), t \in Among(RefreshTokens) :
       /\ ActiveUser(u)
       /\ Insert(r, "login", t, [status |-> "live", deleted |-> FALSE, user |-> u, chain |-> t])

\* Fault: the token is read where it should be taken.
ConsumeRefreshTokenFault(r) ==
  /\ Asked(r, "refresh")
  /\ \E t \in Among(RefreshTokens) :
       /\ InStatus(t, {"live"})
       /\ Prepare(r, Plan("refresh", Row(t, db[t]), [pc |-> "refreshing", token |-> t]))

\* The first step of refresh_tokens.  Of two requests with one token, the second
\* finds nothing.
ConsumeRefreshToken(r) ==
  /\ Asked(r, "refresh")
  /\ \E t \in Among(RefreshTokens) :
       /\ InStatus(t, {"live"})
       /\ Prepare(r, Plan("refresh", Row(t, [db[t] EXCEPT !.status = "spent"]),
                          [pc |-> "refreshing", token |-> t]))

\* The second.  If the user is gone or inactive the request ends, and the token is
\* lost.
IssueTokenPair(r) ==
  /\ req[r].pc = "refreshing"
  /\ ActiveUser(db[req[r].token].user)
  /\ \E t \in Among(RefreshTokens) :
       Insert(r, "issue", t, [db[req[r].token] EXCEPT !.status = "live"])

\* Whoever has the token may revoke it; one that is gone already is no error.
Logout(r) ==
  /\ Asked(r, "logout")
  /\ \E t \in Among(RefreshTokens) :
       InStatus(t, {"live"}) /\ Write(r, "logout", t, [db[t] EXCEPT !.status = "spent"])

\* By the routes that lead to them: users, drivers, vehicles, warehouses, authentication.
UserStep(r) == CreateUser(r) \/ UpdateUser(r) \/ DeleteUser(r)

DriverStep(r) == CreateDriver(r) \/ UpdateDriver(r) \/ SetAvailability(r) \/ DeleteDriver(r)

VehicleStep(r) == CreateVehicle(r) \/ UpdateVehicle(r) \/ DeleteVehicle(r)

WarehouseStep(r) == CreateWarehouse(r) \/ UpdateWarehouse(r) \/ DeleteWarehouse(r)

SessionStep(r) == Login(r) \/ ConsumeRefreshToken(r) \/ IssueTokenPair(r) \/ Logout(r)

AccessStep(r) ==
  UserStep(r) \/ DriverStep(r) \/ VehicleStep(r) \/ WarehouseStep(r) \/ SessionStep(r)

-----------------------------------------------------------------------------
(* Properties *)

AccessTyped ==
  /\ \A u \in Among(Accounts) : Exists(u) => db[u] \in AccountRows
  /\ \A d \in Among(Drivers) : Exists(d) => db[d] \in DriverRows
  /\ \A v \in Among(Vehicles) : Exists(v) => db[v] \in VehicleRows
  /\ \A w \in Among(Warehouses) : Exists(w) => db[w] \in WarehouseRows
  /\ \A t \in Among(RefreshTokens) : Exists(t) => db[t] \in TokenRows

\* An email, licence, plate or code names one row of its table, and a user has one
\* driver profile, whoever creates, renames and deletes at the same time
\* (docs/03 section 3.2).
KeysIdentify ==
  /\ \A table \in {Accounts, Drivers, Vehicles, Warehouses} :
       \A x, y \in Among(table) :
         Exists(x) /\ Exists(y) /\ db[x].code = db[y].code => x = y
  /\ \A d, e \in Among(Drivers) :
       Exists(d) /\ Exists(e) /\ db[d].user = db[e].user => d = e

\* TokenService: a refresh token is used once.  However often it is presented, by
\* however many clients at a time, one login has at most one token that still works.
OneLiveToken ==
  \A t, u \in Among(RefreshTokens) :
    InStatus(t, {"live"}) /\ InStatus(u, {"live"}) /\ db[t].chain = db[u].chain => t = u

AccessInv == AccessTyped /\ KeysIdentify /\ OneLiveToken
=============================================================================
