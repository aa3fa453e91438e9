------------------------------- MODULE MCTrip -------------------------------
(* Trip on small sets of trips, customers and drivers, for TLC.            *)
EXTENDS Trip, TLC

CONSTANTS t1, t2, c1, c2, d1, d2, d3

(* Both trips belong to one customer.                                      *)
OneCustomer == (t1 :> c1) @@ (t2 :> c1)

(* Each trip has a customer of its own.                                    *)
TwoCustomers == (t1 :> c1) @@ (t2 :> c2)

OneTrip == t1 :> c1

TripsAndDrivers == Permutations(Trips) \cup Permutations(Drivers)

(* The trips change places together with their customers.                  *)
TripsWithCustomers == {(t1 :> t2) @@ (t2 :> t1) @@ (c1 :> c2) @@ (c2 :> c1)}
=============================================================================
