---- MODULE MCProfileSelection ----
EXTENDS ProfileSelection

Rule(vendor, product, transport) ==
  [vendor_id |-> vendor, product_id |-> product, transport |-> transport]
Profile(id, rules) == [id |-> id, rules |-> rules]

\* A profile for everything, one for a vendor or its product, one for the product
\* over one transport, and one for two products of a vendor.
MCProfiles ==
  <<Profile(4, <<Rule({}, {}, {})>>),
    Profile(3, <<Rule({"sony"}, {"pad"}, {"Bluetooth"})>>),
    Profile(1, <<Rule({"sony"}, {}, {}), Rule({"sony"}, {"pad"}, {})>>),
    Profile(2, <<Rule({}, {}, {"Usb"}), Rule({"sony"}, {}, {})>>)>>

MCDevices == [vendor_id : {"sony", "valve"}, product_id : {"pad", "deck"},
              transport : {"Usb", "Bluetooth"}]
====
