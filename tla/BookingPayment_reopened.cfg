SPECIFICATION Spec
CONSTANTS
    b1 = b1
    b2 = b2
    i1 = i1
    i2 = i2
    i3 = i3
    t1 = t1
    t2 = t2
    s1 = s1
    s2 = s2
    NoRef = NoRef
    Booking = {b1}
    Intent = {i1, i2}
    Transfer = {t1, t2}
    Session = {s1, s2}
    BookingOf <- OneBooking
    Deadline <- DeadlineTwo
    Price = 2
    Amounts <- AroundPrice
    IntentTtl = 1
    MaxTime = 3
PROPERTIES PaidIsNotReopened
CHECK_DEADLOCK FALSE
