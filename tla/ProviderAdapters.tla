-------------------------- MODULE ProviderAdapters --------------------------
(* The fourteen adapters, one per provider and kind of vehicle                 *)
(* (adapters/registry.py), of which ProviderSearch and ProviderRows describe   *)
(* the search and the reading of its rows.                                     *)

VARIABLE
    adapter     \* the adapter that is looked at

FlightAdapters == {"alibaba_flight", "snapptrip_flight", "mrbilit_flight",
                   "flytoday_flight", "booking_flight"}
TrainAdapters  == {"alibaba_train", "snapptrip_train", "mrbilit_train"}
BusAdapters    == {"alibaba_bus", "snapptrip_bus", "mrbilit_bus", "flytoday_bus",
                   "payaneha_bus", "safar724_bus"}

AllAdapters == FlightAdapters \cup TrainAdapters \cup BusAdapters
=============================================================================
