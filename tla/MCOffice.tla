------------------------------ MODULE MCOffice ------------------------------
(***************************************************************************)
(* The parts of the system around the shop and the deliveries, one scene   *)
(* each.  None of them writes what another of them reads, so that their    *)
(* product has no behaviour that a scene does not have.                    *)
(***************************************************************************)
EXTENDS Backups, TenantBots, Invoices, Uploads, Forms, Support, Community, License, PanelAuth,
        BotMenu, Ads, TenantLog, Gateways

VARIABLE scene \* which part is looked at

\* The forms that share a key of the chat's FSM data, and the others in pairs.
FormsInPairs ==
  {{"limit", "thumbnail"}, {"autodelete", "caption"}, {"password", "reject"},
   {"folder", "name", "rename"}, {"comment", "gate"}, {"default", "admin"},
   {"channel", "loggroup"}, {"card", "price"}, {"holder", "duration"}, {"newbot", "search"},
   {"ad"}, {"topup"}, {"broadcast"}}

OfficeInit ==
  /\ scene \in {"backups", "bots", "invoices", "uploads", "forms", "desk", "community",
                "license", "login", "menu", "ads", "logs",
                "gateways"}
  /\ BackupsInit /\ TenantBotsInit /\ InvoicesInit /\ UploadsInit /\ FormsInit /\ DeskInit
  /\ CommunityInit /\ LicenseInit /\ PanelAuthInit /\ BotMenuInit
  /\ AdsInit /\ TenantLogInit /\ GatewaysInit
  \* A part that is not looked at has one initial state.
  /\ scene # "backups" => bkSettings = Unset
  /\ scene # "forms" => foUsed = {"ad"}
  /\ scene # "desk" => dkAdmin
  /\ scene # "login" => ~auRow.twofa

KeptOffice ==
  /\ UNCHANGED scene
  /\ scene # "backups" => UNCHANGED bkVars
  /\ scene # "bots" => UNCHANGED tnVars
  /\ scene # "invoices" => UNCHANGED inVars
  /\ scene # "uploads" => UNCHANGED upVars
  /\ scene # "forms" => UNCHANGED foVars
  /\ scene # "desk" => UNCHANGED dkVars
  /\ scene # "community" => UNCHANGED cmVars
  /\ scene # "license" => UNCHANGED liVars
  /\ scene # "login" => UNCHANGED auVars
  /\ scene # "menu" => UNCHANGED mnVars
  /\ scene # "ads" => UNCHANGED adVars
  /\ scene # "logs" => UNCHANGED lgVars
  /\ scene # "gateways" => UNCHANGED gwVars

OfficeNext ==
  \/ scene = "backups" /\ BackupsNext /\ KeptOffice
  \/ scene = "bots" /\ TenantBotsNext /\ KeptOffice
  \/ scene = "invoices" /\ InvoicesNext /\ KeptOffice
  \/ scene = "uploads" /\ UploadsNext /\ KeptOffice
  \/ scene = "forms" /\ FormsNext /\ KeptOffice
  \/ scene = "desk" /\ DeskNext /\ KeptOffice
  \/ scene = "community" /\ CommunityNext /\ KeptOffice
  \/ scene = "license" /\ LicenseNext /\ KeptOffice
  \/ scene = "login" /\ PanelAuthNext /\ KeptOffice
  \/ scene = "menu" /\ BotMenuNext /\ KeptOffice
  \/ scene = "ads" /\ AdsNext /\ KeptOffice
  \/ scene = "logs" /\ TenantLogNext /\ KeptOffice
  \/ scene = "gateways" /\ GatewaysNext /\ KeptOffice

OfficeSpec ==
  OfficeInit /\ [][OfficeNext]_<<scene, bkVars, tnVars, inVars, upVars, foVars, dkVars, cmVars,
                                 liVars, auVars, mnVars, adVars, lgVars, gwVars>>
=============================================================================
