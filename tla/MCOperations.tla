---------------------------- MODULE MCOperations -----------------------------
(* Rows for TLC, which of them are looked at together, and who does what.    *)
EXTENDS Operations, TLC

CONSTANTS cat1, cat2, mod1, unit1, ship1, perm1, perm2, esc1, restr1, axle1, chk1, chk2, cert1,
          p1, p2, m1, m2, k1, k2, e1, e2, u1, g1,
          t1, t2, c1, c2, n1, n2, a1, a2, a3, i1, i2,
          w1, w2, x1, x2, d1, d2, l1, l2, v1, v2, h1, h2, s1, s2, o1, o2, f1, f2, f3,
          r1, r2

MCIds == {cat1, cat2, mod1, unit1, ship1, perm1, perm2, esc1, restr1, axle1, chk1, chk2,
          cert1, p1, p2, m1, m2, k1, k2, e1, e2, u1, Slot(k1, g1), Slot(k2, g1),
          t1, t2, c1, c2, n1, n2, a1, a2, a3, i1, i2, Processed(i1),
          w1, w2, x1, x2, d1, d2, l1, l2, v1, v2, h1, h2, s1, s2, o1, o2, f1, f2, f3,
          Profile(w1), Profile(w2)}

UnitCalls == {"create_equipment", "update_equipment", "reserve", "assign_equipment",
              "delete_equipment", "restore_equipment"} \cup DOMAIN EquipmentOperations

PermitCalls == {"create_permit", "approve_permit", "update_permit", "delete_permit",
                "restore_permit"} \cup DOMAIN PermitOperations

PartnerCalls == {"create_partner", "update_partner", "suspend_partner", "activate_partner",
                 "delete_partner"}

KeyCalls == {"create_key", "revoke_key", "rotate_key"}

InboundCalls == {"call", "process_inbound", "reject_inbound"}

SubscriptionCalls == {"create_subscription", "update_subscription", "activate_subscription",
                      "deactivate_subscription", "delete_subscription", "rotate_secret"}

TemplateCalls == {"create_template", "update_template", "activate_template",
                  "deactivate_template", "delete_template", "restore_template"}

NotificationCalls == {"create_notification", "queue_notification", "send_notification",
                      "retry_notification", "cancel_notification", "mark_read"}

EventCalls == {"handle_domain_event", "replay_event"}

AccountCalls == {"create_account", "update_account", "delete_account"}

DriverCalls == {"create_driver", "update_driver", "set_availability", "delete_driver"}

VehicleCalls == {"create_vehicle", "update_vehicle", "delete_vehicle"}

WarehouseCalls == {"create_warehouse", "update_warehouse", "delete_warehouse"}

SessionCalls == {"login", "refresh", "logout"}

\* Reference data and records; a unit and a shipment; permits for a shipment;
\* a shipment before the gate, with a permit, an escort or checks.
Reference == {cat1, cat2, mod1, unit1, restr1, axle1, cert1}
Yard == {unit1, ship1}
Licensing == {ship1, perm1, perm2}
Permitted == {unit1, ship1, perm1}
Escorted == {unit1, ship1, esc1, perm1}
Checked == {unit1, ship1, perm1, chk1, chk2}

\* Two partners and two names; a partner with two keys, the events sent with them
\* and their index; a partner and a subscription; templates; notifications made by
\* clients and by events; the attempts for one; one with a template; users and their
\* driver profiles; vehicles; warehouses; the sessions of a user.
Naming == {p1, p2, m1, m2}
Calling == {p1, m1, k1, k2, e1, e2, Slot(k1, g1), Slot(k2, g1)}
Subscribing == {p1, m1, u1}
Writing == {t1, t2, c1, c2}
Telling == {n1, n2, a1, a2, i1, Processed(i1)}
Retrying == {n1, i2, a1, a2, a3}
Rendering == {t1, c1, n1, i1, a1, Processed(i1)}
Hiring == {w1, w2, x1, x2, d1, d2, l1, l2, Profile(w1), Profile(w2)}
Driving == {v1, v2, h1, h2}
Storing == {s1, s2, o1, o2}
Visiting == {w1, x1, f1, f2, f3}

MCScopes == {Reference, Yard, Licensing, Permitted, Escorted, Checked,
             Naming, Calling, Subscribing, Writing, Telling, Retrying, Rendering,
             Hiring, Driving, Storing, Visiting}

Prepared == {"create_equipment", "create_shipment"}

\* A key that was revoked while it was in use is looked for with two requests of a
\* partner; the users and drivers are kept by two administrators, and availability
\* by one driver.
Calls(r, scope) ==
  CASE scope = Reference ->
         IF r = r1 THEN {"create_category", "create_model", "create_equipment",
                         "create_restriction", "create_axle_profile", "create_certification"}
         ELSE {"update_category", "update_model", "update_restriction",
               "expire_certification"}
    [] scope = Yard -> UnitCalls \cup {"create_shipment"}
    [] scope = Licensing -> PermitCalls \cup {"create_shipment"}
    [] scope = Permitted ->
         IF r = r1 THEN Prepared \cup PermitCalls ELSE {"dispatch", "update_equipment", "cancel_permit"}
    [] scope = Escorted ->
         IF r = r1 THEN Prepared \cup {"create_permit", "submit_permit", "mark_under_review",
                                       "approve_permit", "activate_permit", "dispatch"}
         ELSE {"create_escort", "schedule_escort", "cancel_escort", "update_equipment",
               "cancel_permit"}
    [] scope = Checked ->
         IF r = r1 THEN Prepared \cup {"create_permit", "submit_permit", "mark_under_review",
                                       "approve_permit", "activate_permit", "evaluate"}
         ELSE {"evaluate", "override_check", "dispatch", "cancel_permit"}
    [] scope = Naming -> PartnerCalls
    [] scope = Calling ->
         IF r = r1 THEN {"create_partner", "suspend_partner", "activate_partner"}
                        \cup KeyCalls \cup InboundCalls
         ELSE {"call", "rotate_key", "revoke_key", "process_inbound", "reject_inbound"}
    [] scope = Subscribing -> PartnerCalls \cup SubscriptionCalls
    [] scope = Writing -> TemplateCalls
    [] scope = Telling -> NotificationCalls \cup EventCalls
    [] scope = Retrying -> NotificationCalls
    [] scope = Rendering -> TemplateCalls \cup EventCalls
    [] scope = Hiring -> IF r = r1 THEN {"create_account", "delete_account", "create_driver"}
                         ELSE {"create_account"} \cup DriverCalls
    [] scope = Driving -> VehicleCalls
    [] scope = Storing -> WarehouseCalls
    [] scope = Visiting -> {"create_account", "update_account"} \cup SessionCalls

CallsTable == [r \in {r1, r2}, scope \in MCScopes |-> Calls(r, scope)]

MCCallsOf(r, scope) == CallsTable[r, scope]

MCConditions == {{}, {"hazardous"}, {"oversize"}, {"permit", "escort"}, {"insurance"}}

\* Of the larger scopes only: every permutation is tried on every state.
Symmetry == Permutations({e1, e2}) \cup Permutations({perm1, perm2})
=============================================================================
