------------------------------ MODULE MCWriter ------------------------------
(* PlatformWriter with two Writers and the commands whose interleavings    *)
(* matter: those that create, hand over and delete the Application.        *)
EXTENDS PlatformWriter, ShopCommands

CreateShop == Create("web-service", FALSE, FALSE, Shop, FALSE)
CreateOther == Create("web-service", FALSE, FALSE, Other, FALSE)

RacingCommands == { CreateShop, CreateOther, Delete, Bind(Other, FALSE), Bind(Shop, TRUE) }
=============================================================================
