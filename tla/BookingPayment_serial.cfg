SPECIFICATION Spec
CONSTANTS
    b1 = b1
    b2 = b2
    i1 = i1
    i2 = i2
    i3 = i3
    t1 = t1
    t2 = t2
    s1 = s1
    s2 = s2
    NoRef = NoRef
    Booking = {b1, b2}
    Intent = {i1, i2, i3}
    Transfer = {t1, t2}
    Session = {s1}
    BookingOf <- TwoBookings
    Deadline <- Deadlines
    Price = 2
    Amounts <- AroundPrice
    IntentTtl = 1
    MaxTime = 3
SYMMETRY Symmetric
CHECK_DEADLOCK FALSE
INVARIANTS QrAndStatusAgree PaidAtMostOnce
PROPERTIES LifecycleSpec
