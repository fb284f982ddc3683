---------------------------- MODULE MCInventoryBatch ----------------------------
(* Instances of InventoryBatch: two items, the first named in two ways, and *)
(* two warehouses.                                                          *)
EXTENDS InventoryBatch

Update(t, v, c, w, q) == [type |-> t, value |-> v, condition |-> c, warehouse |-> w, quantity |-> q]

MCUpdates ==
  {Update("sellerPartNumber", "s1", "-", "USA", 2), Update("sellerPartNumber", "s1", "-", "CAN", 2),
   Update("sellerPartNumber", "s2", "-", "-", 1), Update("upc", "u1", "new", "USA", 0)}

MCCatalogue ==
  {[number |-> "n1", sellerPartNumber |-> "s1", upc |-> "u1"], [number |-> "n2", sellerPartNumber |-> "s2", upc |-> "-"]}
=============================================================================
