SPECIFICATION FairSpec
CONSTANTS
    Adapters = {"alibaba_bus", "alibaba_flight", "alibaba_train", "snapptrip_flight",
                "snapptrip_train", "snapptrip_bus", "mrbilit_flight", "mrbilit_train",
                "mrbilit_bus", "flytoday_flight", "flytoday_bus", "booking_flight",
                "payaneha_bus", "safar724_bus"}
    Searches = {s1, s2}
    MaxPolls = 5
INVARIANTS
    EmptyIsExplained
    CallsAreAccountedFor
PROPERTY
    EverySearchEnds
CHECK_DEADLOCK FALSE
